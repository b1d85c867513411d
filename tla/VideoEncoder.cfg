\* Three frames through a queue of one, a transform that asks for two and keeps one
\* back, one command, one failing call.
SPECIFICATION EncoderSpec
CONSTANTS CandidateLists <- Machines
          MaxPending = 1
          Depth = 2
          Lag = 1
          NFrames = 3
          MaxCommands = 1
          MaxFailures = 1
INVARIANTS EncoderInv
           FramesInOrder
           DrainReturnsAccepted
PROPERTIES FramesFlow
           DropEnds
CHECK_DEADLOCK FALSE
