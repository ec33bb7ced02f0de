CONSTANTS
  ReLen = 3
  ReCount = 30
  ReVals = {1, 2, 4}
SPECIFICATION ReSpec
INVARIANT ConcatCheapest
CHECK_DEADLOCK FALSE
