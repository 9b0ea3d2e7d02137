SPECIFICATION FairSpec
CONSTANTS
  Conns = {k1}
  Workers = {w1}
  Limit = 1
  QueueCap = 1
  Acceptor = acceptor
  Closer = closer
  None = none
CHECK_DEADLOCK FALSE
PROPERTY ShutdownStops
