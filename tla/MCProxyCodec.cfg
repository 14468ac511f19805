SPECIFICATION Spec
CONSTANTS
  Transfers <- OneOfEach
  TagLen = 16
  LenMod = 10
  MaxPackets = 2
CHECK_DEADLOCK FALSE
INVARIANTS
  CodecInv
  PacketsInOrder
  ErrorsOnlyWhenCut
  NothingHeldBack
