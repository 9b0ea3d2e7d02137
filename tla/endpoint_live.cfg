SPECIFICATION FairSpec
CONSTANTS
  Calls = {r1}
  Messages = {m1}
  Services = {s1}
  Links = {l1}
  Hooks = {}
  Closers = {c1}
  Nested = {r1, c1}
  Faults = {"standard", "fatal"}
  ServiceOf <- ToFirstService
  Pump = pump
  Nobody = nobody
CHECK_DEADLOCK FALSE
PROPERTIES
  CloseFailsFast
  TeardownEnds
  TimedCallReturns
  AnswerArrives
  
