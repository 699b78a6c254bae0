CONSTANTS
  d1 = d1
  d2 = d2
  Addr = {d1, d2}
  Shape <- PlainTwo
  MaxParamId = 2
  ParamId <- MCParamId
  Remaining = {}
  ChunkNumber = {}
  Fragment <- MCFragment
  MaxChunks = 3
  Content <- MCContent
  Parsed <- ParsedFragments
  Garbage = Garbage
  Failed = Failed
  Stub = Stub
  Absent = Absent
  NoDevice = NoDevice
  NoRequest = NoRequest
  MaxDevices = 2
  MaxParameters = 3
  Slot = {1, 2, 3}
  MaxOutput = 1
  Timeout = 1
  RetryCount = 1
  MaxPings = 1
  MaxLoss = 2
  LossMidAssembly = FALSE
  MaxLate = 1
  Asks = TRUE
SPECIFICATION LinkSpec
INVARIANTS
  LoadedMeansAll
  NoDuplicateReads
PROPERTY EventuallyLoaded
