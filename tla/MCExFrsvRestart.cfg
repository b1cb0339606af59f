SPECIFICATION FairSpec
CONSTANTS
  MaxServers = 2
  MaxRequests = 2
  MaxSignals = 1
  StopSignals = {"INT", "TERM"}
  TargetCanFail = FALSE
INVARIANT InputAvailable
INVARIANT MemoryExclusion
INVARIANT LeftoversAreClean
INVARIANT OneTokenPerCall
PROPERTY StopEndsServer
CHECK_DEADLOCK FALSE
PROPERTY DiesOnlyWhenTold
PROPERTY ConnectFailsOnlyEarly
