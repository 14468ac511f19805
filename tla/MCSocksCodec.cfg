SPECIFICATION Spec
CONSTANTS
  Apps <- SomeOfEach
  MaxChunks = 2
CHECK_DEADLOCK FALSE
INVARIANTS
  SocksInv
  ItemsAsSent
  PanicIsDeserved
  NothingHeldBack
  RepliesDelimited
PROPERTIES
  RequestDecoded
