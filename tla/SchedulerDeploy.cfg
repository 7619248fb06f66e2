CONSTANTS
  p1 = p1
  p2 = p2
  Procs <- MCProcs
  MaxRuns = 2
  MaxFaults = 1
  MaxEdits = 0
  MaxRetries = 1
  MaxErrors = 2
  Schedule = "recurring"
  DeleteAfterRun = FALSE
  EnableWhileRuns = FALSE
SPECIFICATION FairSpec
PROPERTY InterruptedRunNotCounted
CHECK_DEADLOCK FALSE
