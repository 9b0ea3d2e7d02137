SPECIFICATION Spec
CONSTANTS
  Conns = {k1, k2, k3, k4}
  Workers = {w1, w2}
  Limit = 3
  QueueCap = 2
  Acceptor = acceptor
  Closer = closer
  None = none
CHECK_DEADLOCK FALSE
SYMMETRY Interchangeable
INVARIANTS
  TypeOK
  OneOwner
  NoLostPermit
  WithinLimit
  OneEscapes
