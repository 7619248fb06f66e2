CONSTANTS
  MaxTalks = 2
  MaxMoves = 1
  MaxExtras = 1
SPECIFICATION ConvSpec
INVARIANTS
  RenameOrphansNothing
CHECK_DEADLOCK FALSE
