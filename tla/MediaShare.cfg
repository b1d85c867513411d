\* Two starts that may overlap, one stuck session and a peer that may join late, three
\* kinds of machine, two frames and one, one fault.
SPECIFICATION Spec
CONSTANTS Media = {"video", "audio"}
          NCalls = 2
          Backend = "mediafoundation"
          Machines <- ThreeMachines
          Peers = {p, q}
          Slow = {q}
          p = p
          q = q
          ChanCap = 1
          LinkCap = 1
          Hold = 1
          KeyEvery = 2
          MaxFrames <- Frames21
          MaxFaults = 1
INVARIANTS TypeOK
PROPERTIES StreamGoesOn
           FollowsItsCodec
           SlowPeerHarmless
           FailedStartEnds
CHECK_DEADLOCK FALSE
