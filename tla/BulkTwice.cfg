SPECIFICATION ResumeSpec
CONSTANTS
  Proc = {p1, p2, p3}
  Key = {k1}
  NoProc = NoProc
  MaxActive = 1
  Ttl = 1
  RenewEvery = 1
  MaxDelay = 0
  MaxLost = 0
  MaxCalls = 0
  MaxTime = 4
INVARIANT OneRunner
CHECK_DEADLOCK FALSE
