SPECIFICATION Spec
CONSTANTS
  PR = {p1}
  None = None
  PageSize = 2
  MaxPages = 2
  MaxAttempts = 2
  Orderly = TRUE
  MaxPushes = 1
  MaxRuns = 1
  MaxRemarks = 0
  MaxFaults = 1
INVARIANT OneReport
CHECK_DEADLOCK FALSE
