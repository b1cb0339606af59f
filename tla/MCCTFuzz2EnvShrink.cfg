SPECIFICATION Spec
CONSTANTS
  Edges = {1, 2}
  Paths = {{}, {1}}
  Lens = {1, 2}
  Actions = {"erase", "insert"}
  ActionMaxTry <- OnceEach
  NumSeeds = 1
  MaxTry = 1
  StopSoon = 1
  MaxResets = 1
PROPERTY Queue2OnlyShrinks
CHECK_DEADLOCK FALSE
