SPECIFICATION MultiSpec
CONSTANTS
  Workloads <- ShortWorkloads
  Hwm = 2
  MaxBreaks = 0
  MaxInterrupts = 0
INVARIANT
  Whole
