\* Two messages each way: what does not hold of the sound over UDP.
SPECIFICATION AudioSpec
CONSTANTS MaxMsg = 2
          AppCap = 1
INVARIANTS BufferedUntilPin
           FramesFollowStart
PROPERTIES SharedIsHeard
           FallbackIsHeard
           TasksEndWithSession
CHECK_DEADLOCK FALSE
