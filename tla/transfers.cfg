SPECIFICATION PairSpec
CONSTANTS
  SenderTypes = {"PUSH", "REQ", "REP"}
  NCalls = 4
  FileLen <- MCFileLen
  BufLen = 2
  MetaLen = 1
  Hwm = 6
  Faults = {"missing", "open", "read", "write", "interrupt", "loss"}
  Lossy = {"REQ", "REP"}
  MaxFaults = 3
  Retry = FALSE
  OutHwm <- MCHwm
  MaxMsgs <- MCMaxMsgs
  MaxFrames <- MCMaxFrames
  MaxHiccups = 1
CHECK_DEADLOCK FALSE
INVARIANTS
  IntactWhenOk
  Lockstep
  EndsClean
  SoundPipe
  StoppedResumes
PROPERTIES
  ImplementsCopy
  FilesComplete
  ImplementsChannel
  Terminates
