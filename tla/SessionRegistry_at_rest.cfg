\* Operations one at a time: what is wrong even so.
SPECIFICATION SerialSpec
CONSTANTS
  Device = {d, e}
  None = None
  MaxConn = 3
SYMMETRY Symmetry
INVARIANTS
  HotkeysDistinct
  ShownHasSession
CHECK_DEADLOCK FALSE
