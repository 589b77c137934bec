SPECIFICATION Spec
CONSTANTS
  Runner = {r1, r2}
  PartSize = 2
  Sizes = {3}
  Older = FALSE
  MaxUploads = 3
  MaxRuns = 4
  MaxCancels = 1
  MaxFaults = 1
  MaxCrashes = 1
  MaxExpired = 0
SYMMETRY Symmetry
INVARIANT DoneMeansIntact
PROPERTY ImplementsPut
CHECK_DEADLOCK FALSE
