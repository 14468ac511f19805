SPECIFICATION Spec
CONSTANTS
  s1 = s1
  s2 = s2
  None = None
  Sessions <- TwoSessions
  PortOf <- DistinctPorts
  MaxUp = 1
  MaxDown = 1
  MaxBeats = 0
  MayBreak = FALSE
CHECK_DEADLOCK FALSE
INVARIANTS
  Inv
  PortConfinement
PROPERTIES
  ImplementsRelay
