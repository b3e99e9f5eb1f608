SPECIFICATION Spec
CHECK_DEADLOCK FALSE
CONSTANTS
  Configs <- MCBeating
  Capacity = 2
  Batch = 3
  MaxMsgs <- MCMsgs
  MaxPings = 1
INVARIANTS
  NoAssertFails
