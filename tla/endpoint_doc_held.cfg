SPECIFICATION Spec
CONSTANTS
  Calls = {}
  Messages = {m1, m2}
  Services = {s1}
  Links = {l1}
  Hooks = {}
  Closers = {}
  Nested = {}
  Faults = {}
  ServiceOf <- ToFirstService
  Pump = pump
  Nobody = nobody
CHECK_DEADLOCK FALSE
INVARIANT NeverDropped
