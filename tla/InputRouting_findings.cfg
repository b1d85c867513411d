\* Comments of the code, against fast moves and a screen left of the primary one.
SPECIFICATION Spec
CONSTANTS
  Peer = {p, q}
  Me = me
  None = none
  Layout <- WideLayouts
  Desktop <- WideScreens
  Key = {"one"}
  DigitOf <- OneDigit
  Shift <- FastShifts
  QueueBound = 1
  GridBound = 4
INVARIANTS
  EdgeFindsNeighbor
  HitIsOver
  DesktopIsClear
  PeersDisjoint
  EnterIsLocal
  KeysComeUp
PROPERTIES
  MoveIsReprojected
CHECK_DEADLOCK FALSE
