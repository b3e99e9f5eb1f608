SPECIFICATION Spec
CHECK_DEADLOCK FALSE
CONSTANTS
  Pipes = {"p", "q", "r"}
  Setups <- MCThree
  MaxRequests = 3
  MaxPending = 2
INVARIANTS
  NoAbort
