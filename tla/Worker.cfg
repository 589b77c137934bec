SPECIFICATION FairSpec
CONSTANTS
  Key = {k1, k2}
  JobId = {j1, j2}
  NoJob = NoJob
  Unknown = Unknown
  MaxActiveJobs = 1
  MaxFiles = 2
  MaxBytes = 1
  MaxLoaded = 1
  Totals = {0}
INVARIANTS WorkerInv SlotsBounded CompletedWithinCap
PROPERTIES ProgressMonotone ImplementsLifecycle 
