SPECIFICATION FairSpec
CONSTANTS
  Runner = {r1}
  PartSize = 2
  Sizes = {3, 4}
  Older = FALSE
  MaxUploads = 6
  MaxRuns = 6
  MaxCancels = 1
  MaxFaults = 2
  MaxCrashes = 1
  MaxExpired = 1
INVARIANT UploadInv
PROPERTIES PartsSentOnce EventuallyUploaded
CHECK_DEADLOCK FALSE
