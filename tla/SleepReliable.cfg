CONSTANTS
  SgSeconds = 2
  SgPerSec = 2
  SgAlarms = {0}
  SgSends = 1
SPECIFICATION SgSpec
INVARIANT SgSurvives
CHECK_DEADLOCK FALSE
