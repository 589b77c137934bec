SPECIFICATION FairSpec
CONSTANTS
  p1 = p1
  p2 = p2
  x = x
  y = y
  Proc <- MCProc
  Task <- MCTask
  On <- MCOn
  Event = {e1}
  Nobody = Nobody
  Ttl = 1
  MaxTime = 2
  MaxPuts = 1
  MaxFaults = 1
  MaxCrashes = 1
  MaxCleanups = 1
INVARIANTS NoticesInv DroppedByFaultOnly
PROPERTIES MutedWithinTtl NotedEventually
CHECK_DEADLOCK FALSE
