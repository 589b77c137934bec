SPECIFICATION FairSpec
CONSTANTS
  p1 = p1
  p2 = p2
  a1 = a1
  a2 = a2
  b1 = b1
  Proc <- MCProc
  Pull <- MCPull
  Home <- MCHome
  Nobody = Nobody
  MaxTokens = 2
  MaxFaults = 0
  MaxEvicts = 1
  MaxCrashes = 1
PROPERTY PullEnds
