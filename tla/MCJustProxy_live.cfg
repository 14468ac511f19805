SPECIFICATION FairSpec
CONSTANTS
  s1 = s1
  s2 = s2
  None = None
  Sessions <- OneSession
  PortOf <- OnePort
  MaxUp = 1
  MaxDown = 1
  MaxBeats = 1
  MayBreak = TRUE
CHECK_DEADLOCK FALSE
INVARIANTS
  ResponsesRoutable
PROPERTIES
  RequestAnswered
  DownstreamDelivered
  UpstreamOffered
