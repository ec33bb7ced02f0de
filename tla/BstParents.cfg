CONSTANTS
  BstKeys = {1, 2, 3, 4}
  BstNodes = 5
SPECIFICATION BstSpec
INVARIANT BstSupported
CHECK_DEADLOCK FALSE
