SPECIFICATION FairSpec
CONSTANTS
  Incoming = {k1, k2}
  Dialled = {d1}
  Errors = TRUE
  Nobody = nobody
CHECK_DEADLOCK FALSE
INVARIANTS
  TypeOK
  LinkHasThread
  NothingEscapes
PROPERTIES
  BearerThreadsExit
  Reachable
