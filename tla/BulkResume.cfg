SPECIFICATION ResumeSpec
CONSTANTS
  Proc = {p1, p2}
  Key = {k1, k2}
  NoProc = NoProc
  MaxActive = 1
  Ttl = 1
  RenewEvery = 1
  MaxDelay = 0
  MaxLost = 0
  MaxCalls = 0
  MaxTime = 3
 
PROPERTY ClaimedIsHandled
CHECK_DEADLOCK FALSE
