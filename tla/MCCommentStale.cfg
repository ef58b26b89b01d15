SPECIFICATION Spec
CONSTANTS
  PR = {p1}
  None = None
  PageSize = 2
  MaxPages = 2
  MaxAttempts = 2
  Orderly = FALSE
  MaxPushes = 2
  MaxRuns = 2
  MaxRemarks = 0
  MaxFaults = 0
INVARIANT CurrentWhenQuiet
CHECK_DEADLOCK FALSE
