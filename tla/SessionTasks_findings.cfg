\* GoodBye both ways and a side that falls silent, with heartbeat tasks that get their
\* turn.
SPECIFICATION BeatingSpec
CONSTANTS Data = {}
          Ctrl = ctrl
          MaxMsg = 1
          AppCap = 1
          WriteCap = 1
          WireCap = 1
PROPERTIES GoodByeEndsWriter
           LateIsCut
CHECK_DEADLOCK FALSE
