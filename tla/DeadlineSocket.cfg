\* TCPClient: the socket is opened again after a timeout.
CONSTANTS
  Reopens = TRUE
  Timeouts = {1, 2}
  MaxTime = 5
  MaxAnswers = 3
SPECIFICATION FairSpec
INVARIANTS
  TypeOK
  OneDeadlineActor
  NoDanglingHandler
PROPERTIES
  NoPrematureClose
  OperationEnds
CHECK_DEADLOCK FALSE
