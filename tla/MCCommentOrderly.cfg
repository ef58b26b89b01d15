SPECIFICATION FairSpec
CONSTANTS
  PR = {p1}
  None = None
  PageSize = 2
  MaxPages = 3
  MaxAttempts = 2
  Orderly = TRUE
  MaxPushes = 2
  MaxRuns = 3
  MaxRemarks = 2
  MaxFaults = 0
INVARIANTS
  OneReport
  CurrentWhenQuiet
PROPERTY
  Delivered
CHECK_DEADLOCK FALSE
