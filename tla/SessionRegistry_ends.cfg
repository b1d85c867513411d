\* Two devices, two connections; on_close meets registrations and commands.
SPECIFICATION BoundedSpec
CONSTANTS
  Device = {d, e}
  None = None
  MaxConn = 2
INVARIANTS Inv
           AgreesAtRest
PROPERTY EndedSessionForgotten
\* The bound starts nothing more once two operations on a device have met.
CHECK_DEADLOCK FALSE
