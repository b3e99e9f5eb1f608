SPECIFICATION FairSpec
CONSTANTS
  Ctxs = {c1, c2}
  Socks = {s1, s2}
  Ports = {p1}
  Unreachable = {s2}
  MaxSignals = 1
  Plain = {c2, s2}
  Clumsy = {c2, s1}
CHECK_DEADLOCK FALSE
INVARIANTS
  EndInOrder
  HeldIsUsable
  NoUseAfterFree
  PortReleased
PROPERTIES
  NothingHangs
