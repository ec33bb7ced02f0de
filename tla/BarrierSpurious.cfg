CONSTANTS
  Workers = {w1, w2}
  Boss = boss
  MaxJobs = 0
  Target = 2
  ThreadInc = 2
  SyncStep = 1
  Forks = 2
  Bufs = 1
  BufWords = 1
  MaxCalls = 0
  MaxPrints = 0
SPECIFICATION BarPosixSpec
INVARIANT BarMeets
CHECK_DEADLOCK FALSE
