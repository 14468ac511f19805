SPECIFICATION Spec
CONSTANTS
  s1 = s1
  s2 = s2
  None = None
  Sessions <- OneSession
  PortOf <- OnePort
  MaxUp = 1
  MaxDown = 0
  MaxBeats = 0
  MayBreak = FALSE
CHECK_DEADLOCK FALSE
INVARIANTS
  DataFindsConnection
