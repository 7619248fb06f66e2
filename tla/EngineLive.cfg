CONSTANTS
  Parts = {"coordinator", "turn", "knowledge", "queue", "shutdown"}
  t1 = t1
  t2 = t2
  p1 = p1
  p2 = p2
  r1 = r1
  r2 = r2
  c1 = c1
  c2 = c2
  c3 = c3
  u1 = u1
  u2 = u2
  MaxFragments = 3
  MaxRestarts = 1
  TypingDelay = 1
  SentHooksWait = TRUE
  Turns <- MCTurns
  Keys = {"k"}
  None = None
  HooksFor <- MCHooks
  MaxRegenerations = 1
  MaxWrites = 1
  MaxFaults = 1
  MaxTalks = 1
  MaxMoves = 1
  MaxExtras = 1
  OptProcs <- MCProcs
  Requests <- MCRequests
  Ttl = 1
  Lag = 1
  MaxRequests = 1
  MaxErrors = 1
  MaxTexts = 2
  EmptyTexts = {2}
  Batches = 1
  Patience = 1
  MaxMishaps = 1
  MaxToggles = 1
  MaxRows = 3
  MaxBuffer = 2
  BatchAt = 2
  MaxOutages = 1
  Calls <- MCCalls
  MaxFailures = 1
  MaxOps = 1
  Users <- MCUsers
  MaxConns = 1
  MaxEdits = 1
  MaxAge = 1
  Grace = 1
SPECIFICATION EngineFairSpec
PROPERTIES
  EveryFragmentAnswered
  TurnEnds
  NoDocumentStaysBusy
  EveryRowIsSettled
  ShutdownEnds
CHECK_DEADLOCK FALSE
