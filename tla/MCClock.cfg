CONSTANTS
  Wrap = 12
  Interval = 5
  Timeout = 4
  RetryCount = 2
  MaxTurn = 3
SPECIFICATION Spec
INVARIANTS
  TypeOK
  RetriesNotLate
  GivenUpInTime
  PingsGoOn
  PanicsOnlyAfterWrap
PROPERTIES
  PingsSpaced
  RetriesNotEarly
CHECK_DEADLOCK FALSE
