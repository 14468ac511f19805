SPECIFICATION Spec
CONSTANTS
  Files <- SomeFiles
  Protocols = {"tcp", "quic", "udp"}
CHECK_DEADLOCK FALSE
PROPERTIES
  LossIsRetried
