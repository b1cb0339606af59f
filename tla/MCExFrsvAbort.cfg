SPECIFICATION Spec
CONSTANTS
  MaxServers = 2
  MaxRequests = 2
  MaxSignals = 0
  StopSignals = {"INT", "TERM"}
  TargetCanFail = TRUE
INVARIANT InputAvailable
CHECK_DEADLOCK FALSE
