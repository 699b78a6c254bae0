CONSTANTS
  Addr = {d1}
  MaxParamId = 2
  ParamId <- MCParamId
  Remaining = {0, 1}
  ChunkNumber = {0}
  Fragment = {f}
  MaxChunks = 2
  Content = {"entry"}
  Parsed <- MCParsed
  Failed = "failed"
  Stub = "stub"
  Absent = "absent"
  NoDevice = NoDevice
  NoRequest = NoRequest
  MaxDevices = 1
  MaxParameters = 2
  Slot = {s1, s2}
  s1 = s1
  s2 = s2
  MaxOutput = 1
  Timeout = 1
  RetryCount = 1
SPECIFICATION Spec
SYMMETRY SlotSymmetry
INVARIANTS
  TypeOK
  LoadedIffFull
  PendingOfKnown
PROPERTIES
  AsksOnlyForMissing
  ImplementsCatalogue
