SPECIFICATION Spec
CONSTANTS
  s1 = s1
  s2 = s2
  None = None
  Sessions <- TwoSessions
  PortOf <- SharedPort
  MaxUp = 0
  MaxDown = 0
  MaxBeats = 0
  MayBreak = FALSE
CHECK_DEADLOCK FALSE
INVARIANTS
  ReplyFindsRequest
