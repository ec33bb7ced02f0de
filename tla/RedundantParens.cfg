CONSTANTS
  ExDigits = {1, 2, 3}
  ExLen = 3
SPECIFICATION ExSpec
INVARIANT RedundantOnly
CHECK_DEADLOCK FALSE
