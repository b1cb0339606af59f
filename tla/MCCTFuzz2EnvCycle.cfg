SPECIFICATION FairSpec
CONSTANTS
  Edges = {1, 2}
  Paths = {{}, {1}}
  Lens = {1, 2}
  Actions = {"erase", "insert"}
  ActionMaxTry <- EraseTwice
  NumSeeds = 1
  MaxTry = 2
  StopSoon = 1
  MaxResets = 1
INVARIANT AssertValidAction
INVARIANT IndexInCycle
INVARIANT QueuesSplitByUse
PROPERTY DepthTwoReached
CHECK_DEADLOCK FALSE
PROPERTY UseForgottenOnlyForShorter
PROPERTY CycleAdvances
