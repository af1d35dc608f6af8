\* Fragments that keep arriving.
CONSTANTS
  Reopens = FALSE
  Timeouts = {1, 2}
  MaxTime = 5
  MaxAnswers = 3
SPECIFICATION SyncSpec
INVARIANT DeadlineOfTheCall
CHECK_DEADLOCK FALSE
