CONSTANTS
  p1 = p1
  p2 = p2
  Procs <- MCProcs
  MaxRuns = 2
  MaxFaults = 0
  MaxEdits = 1
  MaxRetries = 1
  MaxErrors = 2
  Schedule = "recurring"
  DeleteAfterRun = FALSE
  EnableWhileRuns = TRUE
SPECIFICATION Spec
INVARIANT ClaimHeldUntilDeadline
CHECK_DEADLOCK FALSE
