SPECIFICATION FairSpec
CONSTANTS
  Key = {k1}
  Caller = {a1, a2}
  NoKey = NoKey
  Ttl = 1
  MaxStale = 3
  Fanout = 1
  MaxTime = 6
  MaxVersion = 2
  MaxFaults = 2
  Viewer = {v1}
  Proc = {p1, p2}
  Nowhere = Nowhere
  MaxBytes = 1
  MaxWire = 2
  MaxReads = 2
  MaxLosses = 1
  MaxCrashes = 1
  s1 = s1
  s2 = s2
  x1 = x1
  y1 = y1
  Site <- MCSite
  Xfer <- MCXfer
  At <- MCAt
  MaxTries = 2
  MaxChanges = 2
INVARIANTS
  CacheInv StreamInv PageInv
PROPERTIES EndShown 
CHECK_DEADLOCK FALSE
