SPECIFICATION Spec
CONSTANTS
  Paths = {p1, p2}
  Seeds <- MCSeeds
  MaxTry = 2
  MaxLists = 5
  MaxStores = 5
  p1 = p1
  p2 = p2
INVARIANT CopiedAsSaved
CHECK_DEADLOCK FALSE
