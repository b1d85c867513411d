\* One typed channel and two messages in each direction, channels of one slot.
SPECIFICATION OneWaySpec
CONSTANTS Data = {input}
          Ctrl = ctrl
          MaxMsg = 2
          AppCap = 1
          WriteCap = 1
          WireCap = 1
CHECK_DEADLOCK FALSE
PROPERTIES ChannelSpec
           SentArrives
           CloseIsMutual
