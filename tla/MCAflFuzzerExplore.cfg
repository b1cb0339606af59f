SPECIFICATION FuzzerSpec
CONSTANTS
  Edges <- MCEdges
  Inputs <- MCInputs
  Seed <- MCSeed
  Campaigns <- ExploreOnly
  KeepHangs = 2
  KeepCrashes = 2
  FreqCap = 3
  MaxInputs = 3
  UiPeriod = 1
  StatsPeriod = 1
  PlotPeriod = 1
  PlotWarmup = 1
  ExecTimeout = 1000
  TimeoutRound = 20
  IdleCycles = 1
CHECK_DEADLOCK FALSE
INVARIANT OnlyAFLFastUpdates
