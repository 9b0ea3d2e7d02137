SPECIFICATION Spec
CONSTANTS
  Calls = {r1}
  Messages = {m1}
  Services = {s1}
  Links = {l1}
  Hooks = {h1, h2}
  Closers = {c1, c2}
  Nested = {r1, c1, c2}
  Faults = {"standard", "fatal"}
  ServiceOf <- ToFirstService
  Pump = pump
  Nobody = nobody
SYMMETRY Interchangeable
CHECK_DEADLOCK FALSE
INVARIANTS
  TypeOK
  NodeSafety
  OneWaker
  HeldUntilAccepted
  TeardownOrder
PROPERTY ImplementsCall
