\* Every kind of fault.
CONSTANTS
  MaxCalls = 3
  MaxFaults = 3
  Faults = {"refused", "unreachable", "slow", "silent", "reset", "rejected", "overrun"}
  RequestIdModulus = 4
SPECIFICATION FairSpec
INVARIANTS
  TypeOK
  ReplyAnswersCommand
  RequestsCarryOwnSession
  SuccessLeavesNothingOpen
  IdleSocketIsClosed
  RaisesForOwnFaults
PROPERTIES
  WedgedStaysWedged
  EveryCallEnds
CHECK_DEADLOCK FALSE
