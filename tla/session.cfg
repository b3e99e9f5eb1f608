SPECIFICATION FairSpec
CHECK_DEADLOCK FALSE
CONSTANTS
  Sessions = {"s1"}
  Connecters = {"c1", "c2"}
  Pipes = {"p1", "p2"}
  Threads <- MCThreads
  Thread <- MCThread
  MaxQueue = 1
  MaxFails = 1
  Options <- MCOptions
INVARIANTS
  
  OneConnection
  ComesDown
PROPERTIES
  Closes
