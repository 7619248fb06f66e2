CONSTANTS
  p1 = p1
  p2 = p2
  c1 = c1
  c2 = c2
  e1 = e1
  e2 = e2
  Procs <- MCProcs
  Cycles <- MCCycles
  Events <- MCEvents
  Cap = 1
  MaxStops = 1
  MaxThrows = 1
  NoCycleAtBoot = TRUE
SPECIFICATION FairSpec
INVARIANTS
  TypeOK
  OneCyclePerProcess
PROPERTIES
  ImplementsBacklog
  GivenOnce
  ResolutionKept
  PendingIsCompleted
CHECK_DEADLOCK FALSE
