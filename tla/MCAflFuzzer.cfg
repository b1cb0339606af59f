SPECIFICATION FuzzerSpec
CONSTANTS
  Edges <- MCEdges
  Inputs <- MCInputs
  Seed <- MCSeed
  Campaigns <- MCCampaigns
  KeepHangs = 2
  KeepCrashes = 2
  FreqCap = 3
  MaxInputs = 3
  UiPeriod = 1
  StatsPeriod = 1
  PlotPeriod = 1
  PlotWarmup = 1
  ExecTimeout = 1000
  TimeoutRound = 20
  IdleCycles = 1
INVARIANT TypeOK
INVARIANT PathsCountedOnce
INVARIANT QueueWitnessesCoverage
INVARIANT CrashesWitnessed
INVARIANT TimeoutsCounted
INVARIANT FrequencyOfExecuted
INVARIANT ProgressSurvives
INVARIANT FinalStateOnDisk
INVARIANT WrappedRowIsLast
INVARIANT SettingsAsGiven
INVARIANT SeedsFitTimeout
PROPERTY SaveAdvances
PROPERTY SaveReturns
PROPERTY StopEnds
PROPERTY LimitStops
CHECK_DEADLOCK FALSE
