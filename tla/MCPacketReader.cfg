CONSTANTS
  MaxBytes = 5
  ReadSize = 2
  BufferSize = 3
  MaxFaults = 2
SPECIFICATION FairSpec
INVARIANTS
  TypeOK
  Lossless
  AnswersInOrder
  BufferNeverFills
PROPERTY EventuallyFed
