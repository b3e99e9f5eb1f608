SPECIFICATION Spec
CHECK_DEADLOCK FALSE
CONSTANTS
  Pipes = {"p", "q"}
  Setups <- MCAll
  MaxRequests = 2
  MaxPending = 2
INVARIANTS
  
  
  Subscribed
