\* Operations that interleave, at most one connection per device.
SPECIFICATION PreemptSpec
CONSTANTS
  Device = {d, e}
  None = None
  MaxConn = 2
SYMMETRY Symmetry
INVARIANTS
  PersistedIsPaired
  GridIsMapped
  SessionIsShown
CHECK_DEADLOCK FALSE
