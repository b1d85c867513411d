\* What the encoder does not do: events of another type, a keyframe on request, a drain
\* behind the frames, a worker whose owner gave up.
SPECIFICATION EncoderSpec
CONSTANTS CandidateLists <- Machines
          MaxPending = 1
          Depth = 2
          Lag = 1
          NFrames = 2
          MaxCommands = 1
          MaxFailures = 1
INVARIANTS NextFrameIsKey
           DrainReturnsAll
PROPERTIES PumpGoesOn
           WorkerFollowsOwner
CHECK_DEADLOCK FALSE
