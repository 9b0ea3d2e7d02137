SPECIFICATION FairSpec
CONSTANTS
  Conns = {k1, k2, k3}
  Workers = {w1}
  Limit = 2
  QueueCap = 2
  Acceptor = acceptor
  Closer = closer
  None = none
CHECK_DEADLOCK FALSE
INVARIANT RoomInQueue
PROPERTIES
  PoolStops
  QueueMoves
