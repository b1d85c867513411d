\* Two peers of two layouts, next to a desktop of one screen.
SPECIFICATION Spec
CONSTANTS
  Peer = {p, q}
  Me = me
  None = none
  Layout <- Layouts
  Desktop <- LocalScreens
  Key = {"one"}
  DigitOf <- OneDigit
  Shift <- Shifts
  QueueBound = 1
  GridBound = 3
INVARIANTS
  Inv
  KeyInOnePlace
PROPERTIES
  PushSwitches
CHECK_DEADLOCK FALSE
