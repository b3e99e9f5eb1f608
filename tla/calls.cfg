SPECIFICATION CallSpec
CONSTANTS
  Ctxs = {c1, c2}
  Socks = {s1, s2}
  Ports = {p1, p2}
  Busy = {p2}
  Unreachable = {s2}
  MaxSignals = 1
  Workloads <- AllWorkloads
  Hwm = 2
  MaxBreaks = 2
  MaxInterrupts = 2
CHECK_DEADLOCK FALSE
INVARIANTS
  CallerKeeps
  LeavesNothing
  WholeBarMishaps
  PartsFollow
PROPERTIES
  CallsEnd
  Delivered
