CONSTANTS
  p1 = p1
  p2 = p2
  Procs <- MCProcs
  MaxRuns = 1
  MaxFaults = 1
  MaxEdits = 2
  MaxRetries = 1
  MaxErrors = 2
  Schedule = "ahead"
  DeleteAfterRun = TRUE
  EnableWhileRuns = FALSE
SPECIFICATION FairSpec
PROPERTY
  RowIsFreed
CHECK_DEADLOCK FALSE
