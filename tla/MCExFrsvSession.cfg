SPECIFICATION FairSpec
CONSTANTS
  MaxServers = 1
  MaxRequests = 3
  MaxSignals = 2
  StopSignals = {"INT", "TERM"}
  TargetCanFail = TRUE
INVARIANT TypeOK
INVARIANT OwnAnswer
PROPERTY CallReturns
PROPERTY ImplementsRPC
CHECK_DEADLOCK FALSE
