CONSTANTS
  MaxFragments = 4
  MaxRestarts = 1
  TypingDelay = 1
  SentHooksWait = FALSE
SPECIFICATION FairSpec
PROPERTY FragmentSupersedesRun
CHECK_DEADLOCK FALSE
