CONSTANTS
  MaxFragments = 3
  MaxRestarts = 1
  TypingDelay = 1
  SentHooksWait = TRUE
SPECIFICATION FairSpec
INVARIANT CancelledRunNotSaved
CHECK_DEADLOCK FALSE
