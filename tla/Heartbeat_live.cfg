SPECIFICATION FairSpec
CONSTANTS
  Interval = 5
  Timeout = 15
  MaxDelay = 9
CHECK_DEADLOCK FALSE
INVARIANTS
  HeartbeatInv
  ExpiryIsReal
  RttNeverOverstated
PROPERTIES
  StallIsNoticed
  HeartbeatRevives
