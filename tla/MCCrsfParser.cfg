CONSTANTS
  Byte <- MCByte
  SyncBytes <- MCSyncBytes
  MinPacketSize = 4
  MaxPacketSize = 6
  Crc <- MCCrc
SPECIFICATION Spec
INVARIANTS
  TypeOK
  NextWriteInBounds
  FrameInProgress
PROPERTY ImplementsFramer
