\* What a share does not do: stop its capture, notice its end, reach a peer that joins
\* late, keep the frames of a transform across a keyframe.
SPECIFICATION Spec
CONSTANTS Media = {"video", "audio"}
          NCalls = 1
          Backend = "mediafoundation"
          Machines <- TwoMachines
          Peers = {p, q}
          Slow = {q}
          p = p
          q = q
          ChanCap = 1
          LinkCap = 1
          Hold = 1
          KeyEvery = 2
          MaxFrames <- Frames3
          MaxFaults = 1
INVARIANTS SharingMeansCapturing
           PeersCanShow
PROPERTIES StopStops
           NothingFlushed
CHECK_DEADLOCK FALSE
