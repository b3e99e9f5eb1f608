SPECIFICATION Spec
CONSTANTS
  SenderTypes = {"PUSH"}
  NCalls = 4
  FileLen <- MCFileLen
  BufLen = 2
  MetaLen = 1
  Hwm = 6
  Faults = {"read"}
  Lossy = {}
  MaxFaults = 1
  Retry = TRUE
CHECK_DEADLOCK FALSE
INVARIANT
  IntactWhenOk
