CONSTANTS
  EcClients = {c1, c2}
  EcLines = 2
  EpThreads = {t1, t2}
  EpClients = {e1, e2}
  EpChunks = 2
  EpBreaks = 1
  OsChunks = 3
  OdClients = {c1, c2}
  OdAsks = 1
  PING_MESSAGES = 3
  UpCopies = 1
  KaClients = {c1, c2}
  KaSends = 2
  WsClients = {c1, c2}
  WsFiles = {"a", "b"}
  NlFrames = 3
  NlMax = 4
  RtWidth = 3
  RtDests = {1, 2}
  RtOps = 3
SPECIFICATION EcOnly
INVARIANTS
  EcDestroyed
CHECK_DEADLOCK FALSE
