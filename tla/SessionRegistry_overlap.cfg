\* A session that replaces another one of the same device.
SPECIFICATION OverlapSpec
CONSTANTS
  Device = {d}
  None = None
  MaxConn = 2
INVARIANTS LiveSessionRegistered
CHECK_DEADLOCK FALSE
