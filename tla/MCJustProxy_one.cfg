SPECIFICATION Spec
CONSTANTS
  s1 = s1
  s2 = s2
  None = None
  Sessions <- OneSession
  PortOf <- OnePort
  MaxUp = 3
  MaxDown = 2
  MaxBeats = 0
  MayBreak = TRUE
CHECK_DEADLOCK FALSE
INVARIANTS
  SessionInv
  Transcript
  ChunksInOrder
  ReplyIsTrue
  AbortIsTrue
  ReplyFindsRequest
  ResetIsForgotten
PROPERTIES
  ImplementsRelay
