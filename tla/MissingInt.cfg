CONSTANTS
  AsLen = 4
  AsVals = {0, 1, 3}
  AsChars = {0, 1, 2}
  AsWord = 256
SPECIFICATION AsSpec
INVARIANT MissingIntFound
CHECK_DEADLOCK FALSE
