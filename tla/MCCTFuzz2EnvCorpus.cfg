SPECIFICATION Spec
CONSTANTS
  Edges = {1, 2}
  Paths = {{}, {1}, {1, 2}}
  Lens = {1, 2}
  Actions = {"erase"}
  ActionMaxTry <- EraseTwice
  NumSeeds = 2
  MaxTry = 2
  StopSoon = 0
  MaxResets = 2
INVARIANT TypeOK
INVARIANT CoverageWitnessed
INVARIANT OneSeedPerPath
PROPERTY ImplementsCorpus
CHECK_DEADLOCK FALSE
