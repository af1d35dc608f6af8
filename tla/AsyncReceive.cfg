\* The scanner's thread, or two of the user's; one run(), stop() at any time.
CONSTANTS
  Threads = {"th1", "th2"}
  MayRaise = TRUE
  MaxRuns = 1
  MaxStops = 2
  MaxPackets = 3
SPECIFICATION FairSpec
INVARIANTS
  TypeOK
  OneCallbackAtATime
  DeliveredInOrder
  NothingOutlivesTheScanner
PROPERTIES
  QuietOnceCancelled
  RunPassesDataOn
  DestructorReturns
CHECK_DEADLOCK FALSE
