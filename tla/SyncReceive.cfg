\* The user calls receive again and again.
CONSTANTS
  Reopens = FALSE
  Timeouts = {1, 2}
  MaxTime = 5
  MaxAnswers = 3
SPECIFICATION SyncSpec
INVARIANTS
  TimeoutErrorIsHonest
  EveryDatagramIsAdded
  DeafAfterTimeout
CHECK_DEADLOCK FALSE
