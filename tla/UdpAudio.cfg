\* Two messages each way, channels of one message, every outcome of the binds.
SPECIFICATION AudioSpec
CONSTANTS MaxMsg = 2
          AppCap = 1
INVARIANT AudioInv
PROPERTIES LateFramesArrive
           SenderGoesOn
CHECK_DEADLOCK FALSE
