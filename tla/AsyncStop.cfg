\* stop() while the scanner runs.
CONSTANTS
  Threads = {"th1"}
  MayRaise = FALSE
  MaxRuns = 1
  MaxStops = 1
  MaxPackets = 3
SPECIFICATION Spec
PROPERTY StopStops
CHECK_DEADLOCK FALSE
