CONSTANTS
  Parts = {"coordinator", "turn", "conversation", "optout", "knowledge", "queue", "shutdown", "channel", "pool"}
  t1 = t1
  t2 = t2
  p1 = p1
  p2 = p2
  r1 = r1
  r2 = r2
  c1 = c1
  c2 = c2
  c3 = c3
  u1 = u1
  u2 = u2
  MaxFragments = 4
  MaxRestarts = 1
  TypingDelay = 1
  SentHooksWait = FALSE
  Turns <- MCTurns
  Keys = {"k"}
  None = None
  HooksFor <- MCHooks
  MaxRegenerations = 1
  MaxWrites = 2
  MaxFaults = 1
  MaxTalks = 2
  MaxMoves = 2
  MaxExtras = 2
  OptProcs <- MCProcs
  Requests <- MCRequests
  Ttl = 1
  Lag = 1
  MaxRequests = 3
  MaxErrors = 1
  MaxTexts = 3
  EmptyTexts = {3}
  Batches = 1
  Patience = 1
  MaxMishaps = 1
  MaxToggles = 1
  MaxRows = 4
  MaxBuffer = 2
  BatchAt = 2
  MaxOutages = 2
  Calls <- MCCalls
  MaxFailures = 1
  MaxOps = 3
  Users <- MCUsers
  MaxConns = 2
  MaxEdits = 1
  MaxAge = 1
  Grace = 2
SPECIFICATION EngineSpec
INVARIANTS
  BurstEndsClean
  ToolRunNotCancelled
  NothingStranded
  AttemptsBounded
  CancelledRunNotSaved
  AbandonedHookLeavesNoTrace
  KeptTurnIsStored
  OnlyLateWritesStray
  CountersAgree
  ServedStatusIsRecent
  OwnChangeIsSeen
  ReadyIsIndexed
  EveryRowAccountedFor
  ShutdownWritesWhatIsLeft
  AwaitedTurnIsServed
  ChannelIsAsConfigured
  ClosedInTime
  EngineTypeOK
PROPERTIES
  ImplementsInbox
  ImplementsLog
  KeysChangeByTheirWriter
  HealthyIsShared
CHECK_DEADLOCK FALSE
