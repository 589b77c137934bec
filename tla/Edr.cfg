SPECIFICATION CalmSpec
CONSTANTS
  p1 = p1
  p2 = p2
  a1 = a1
  a2 = a2
  b1 = b1
  Proc <- MCProc
  Pull <- MCPull
  Home <- MCHome
  Nobody = Nobody
  MaxTokens = 3
  MaxFaults = 2
  MaxEvicts = 1
  MaxCrashes = 1
INVARIANT EdrInv
PROPERTIES ValidTokenKept StoredNeverBack
