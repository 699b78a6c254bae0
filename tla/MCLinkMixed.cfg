CONSTANTS
  d1 = d1
  d2 = d2
  Addr = {d1, d2}
  Shape <- ChunkedAndPlain
  MaxParamId = 3
  ParamId <- MCParamId
  Remaining = {0, 1, 2}
  ChunkNumber = {}
  Fragment <- MCFragment
  MaxChunks = 3
  Content <- MCContent
  Parsed <- ParsedFragments
  Garbage = Garbage
  Failed = Failed
  Stub = Stub
  Absent = Absent
  NoDevice = NoDevice
  NoRequest = NoRequest
  MaxDevices = 2
  MaxParameters = 3
  Slot = {1, 2, 3, 4, 5}
  MaxOutput = 3
  Timeout = 1
  RetryCount = 2
  MaxPings = 0
  MaxLoss = 2
  LossMidAssembly = FALSE
  MaxLate = 0
  Asks = FALSE
SPECIFICATION LinkSpec
INVARIANT Faithful
PROPERTY EventuallyLoaded
