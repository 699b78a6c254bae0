CONSTANTS
  d = d
  Addr <- MCAddr
  Dev = d
  MaxParamId = 5
  ParamId <- MCParamId
  Remaining = {0, 1}
  ChunkNumber = {0}
  Fragment <- MCFragment
  MaxChunks = 8
  Content <- MCContent
  Parsed <- MCParsed
  Failed = Failed
  Stub = Stub
  Absent = Absent
  NoDevice = NoDevice
  NoRequest = NoRequest
  MaxDevices = 1
  MaxParameters = 5
  Slot = {1, 2, 3, 4}
  MaxOutput = 8
  Timeout = 1
  RetryCount = 1
  Kind <- MCKind
  Children <- MCChildren
  Options <- MCOptions
  Limits <- MCLimits
  Numeral <- MCNumeral
  Lower <- MCLower
  Long <- MCLong
  Confirmed <- MCConfirmed
  CommandLines <- MCCommandLines
  Typed <- MCTyped
  MaxEdits = 2
  MaxRefresh = 1
  MaxLoss = 1
SPECIFICATION TuiSpec
INVARIANTS
  TuiTypeOK
  NotStuck
  ShownIsHeld
  VerifiedTells
PROPERTY
  EditsAsAimed
CHECK_DEADLOCK FALSE
