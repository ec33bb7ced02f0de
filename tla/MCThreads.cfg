CONSTANTS
  Workers = {w1, w2, w3}
  Boss = boss
  MaxJobs = 3
  Target = 3
  ThreadInc = 4
  SyncStep = 2
  Forks = 4
  Bufs = 3
  BufWords = 2
  MaxCalls = 1
  MaxPrints = 7
  Nodes = 3
  WorkUnit = 1
  NIL = NIL
  FhRounds = 3
  SwSends = 2
SPECIFICATION MCSpec
INVARIANTS
  MCTypeOK
  SqNeverPopsEmpty
  CqNoLostWakeup
  CsCounts
  BarGroup
  BarMeets
  PhNoDeadlock
  CbUntorn
  MCOrders
  SlSafe
  FhConsistent
PROPERTIES
  MCIsJobPool
  MCFinish
CHECK_DEADLOCK FALSE
