SPECIFICATION Spec
CONSTANTS
  Files <- SomeFiles
  Protocols = {"tcp", "quic", "udp"}
CHECK_DEADLOCK FALSE
INVARIANTS
  LifecycleInv
  BindsFindPortsFree
  DumpedConfigWorks
PROPERTIES
  ListenerIsPassedOn
  FailureIsRetried
