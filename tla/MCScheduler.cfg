CONSTANTS
  p1 = p1
  p2 = p2
  Procs <- MCProcs
  MaxRuns = 2
  MaxFaults = 1
  MaxEdits = 0
  MaxRetries = 1
  MaxErrors = 2
  Schedule = "recurring"
  DeleteAfterRun = TRUE
  EnableWhileRuns = FALSE
SPECIFICATION Spec
INVARIANTS
  TypeOK
  LiveRunStaysOpen
  DisabledAtLimit
PROPERTIES
  KeepsItsClaim
  ServedOnce
  ImplementsLease
SYMMETRY Replicas
CHECK_DEADLOCK FALSE
