SPECIFICATION Spec
CONSTANTS
  Proc = {p1, p2}
  Key = {k1}
  NoProc = NoProc
  MaxActive = 1
  Ttl = 3
  RenewEvery = 1
  MaxDelay = 1
  MaxLost = 1
  MaxCalls = 1
  MaxTime = 6
SYMMETRY Symmetry
PROPERTY OwnerNotRobbed
CHECK_DEADLOCK FALSE
