SPECIFICATION FairSpec
CONSTANTS
  PR = {p1, p2}
  None = None
  PageSize = 2
  MaxPages = 2
  MaxAttempts = 2
  Orderly = FALSE
  MaxPushes = 2
  MaxRuns = 2
  MaxRemarks = 1
  MaxFaults = 1
INVARIANTS
  TypeOK
  RoutedByCommit
PROPERTIES
  OthersUntouched
  EveryRunEnds
CHECK_DEADLOCK FALSE
