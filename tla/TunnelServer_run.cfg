SPECIFICATION Spec
CONSTANTS
  Tunnels = {t1, t2, t3}
  MaxPairs = 2
CHECK_DEADLOCK FALSE
INVARIANTS
  ServerInv
  ServesMatchingPair
  PanicIsConfined
PROPERTIES
  OfferedIsServed
