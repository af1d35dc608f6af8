\* run() again after stop().
CONSTANTS
  Threads = {"th1"}
  MayRaise = FALSE
  MaxRuns = 2
  MaxStops = 1
  MaxPackets = 2
SPECIFICATION FairSpec
PROPERTY RunPassesDataOn
CHECK_DEADLOCK FALSE
