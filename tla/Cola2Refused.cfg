\* The sensor refuses a connection.
CONSTANTS
  MaxCalls = 3
  MaxFaults = 1
  Faults = {"refused"}
  RequestIdModulus = 4
SPECIFICATION Spec
PROPERTY CloseIsSilentWithoutSession
CHECK_DEADLOCK FALSE
