CONSTANTS
  BstKeys = {1, 2, 3, 4}
  BstNodes = 4
  HtSlots = 3
  HtWord = 16
  HtKeys <- NegKeys
  HtVals = {7, 8}
  HtNodes = 4
  LruLines = 2
  LruAssoc = 3
  LruKeys = {0, 1, 2, 4}
  LruVals = {7, 8}
  LruOps = 5
  TsNodes = 4
  MsMax = 4
  StackVals = {1, 2, 3}
  StreamVals <- SignedVals
  StreamMax = 5
  Prios = {1, 2, 3, 4, 5}
  PqMax = 7
  MaHeap = 6
  MaMin = 3
  MaHeader = 2
  MaWord = 64
  MaRequests = {0, 2, 3, 40, 61, 63}
  OPEN_MAX = 5
  BUFF_SIZE = 2
  IoInput <- IoInputs
  BgLetters = {1, 2}
  BgDims = {1, 2}
  BgWords <- BgTyped
  BgScores = {1, 2}
  BgOps = 4
  BsMax = 5
  BsVals = {0, 1, 2, 3, 5}
  SoMax = 5
  SoVals = {0, 1, 2, 4}
  SeMax = 0
  SeDim = 3
  SeVals = {1, 2, 3}
  LlMax = 5
  LlVals = {0, 5, 9}
  TgNodes = 5
  TgBits = 4
  TgKeyMax = 1
  ReLen = 3
  ReCount = 30
  ReVals = {1, 2, 4}
  ExDigits = {1, 2, 3}
  ExLen = 3
  AsLen = 4
  AsVals <- AsNumbers
  AsChars = {0, 1, 2}
  AsWord = 256
  BnBits = 8
  BnCharBit = 3
  BnWords = {0, 1, 6, 77, 128, 178, 255}
  BnRandMax = 10
  BnMax = 6
SPECIFICATION SeOnly
INVARIANT DiagonalFinds
CHECK_DEADLOCK FALSE
