SPECIFICATION Spec
CONSTANTS
  MaxSize = 3
  Bytes = 2
  Bits = 2
  InsertCap = 2
  MinInsert = 2
  FixedTries = 2
  SmallSize = 1
  DigitCodes = {2}
  Energies = {1, 5, 12}
INVARIANT TypeOK
INVARIANT CursorInRange
INVARIANT RaisesOnlyWhen
INVARIANT AllEditsTried
CHECK_DEADLOCK FALSE
