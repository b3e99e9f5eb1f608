SPECIFICATION FairSpec
CHECK_DEADLOCK FALSE
CONSTANTS
  Configs <- MCConfigs
  Capacity = 2
  Batch = 3
  MaxMsgs <- MCMsgs
  MaxPings = 1
INVARIANTS
  Conserved
  Authenticated
  AgreeingPeersTalk
PROPERTIES
  Settles
