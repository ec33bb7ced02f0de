CONSTANTS
  BnBits = 8
  BnCharBit = 3
  BnWords = {0, 1, 6, 77, 128, 178, 255}
  BnRandMax = 10
  BnMax = 6
SPECIFICATION BnSpec
INVARIANT CopiesField
CHECK_DEADLOCK FALSE
