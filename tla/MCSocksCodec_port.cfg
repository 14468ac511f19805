SPECIFICATION Spec
CONSTANTS
  Apps <- Connects
  MaxChunks = 1
CHECK_DEADLOCK FALSE
INVARIANTS
  AddressNamesTarget
