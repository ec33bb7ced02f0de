CONSTANTS
  Msgs = 2
  Chain = 3
  Records = 3
  Loops = 4
  Instances = {i1, i2}
  Iters = 2
  Copies = {c1, c2, c3}
  SgSeconds = 2
  SgPerSec = 2
  SgAlarms = {0, 1, 3}
  SgSends = 2
  CoTyped <- Typed
  CoLines = 3
  PtChunks = 2
  RlClients = {r1, r2}
  RlStarts = 2
  RlHups = 1
  RcChunks = 2
SPECIFICATION PtyOnly
INVARIANT PtGuarded
CHECK_DEADLOCK FALSE
