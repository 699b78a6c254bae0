CONSTANTS
  SentKinds <- MCSentKinds
  Styles <- MCStyles
  Sample <- MCSample
  SpareRoom <- MCSpareRoom
  Positions <- MCPositions
  CutSizes <- MCCutSizes
  Readings <- MCReadings
SPECIFICATION Spec
INVARIANTS
  TypeOK
  WritesInBounds
  ReadsInBounds
  RoundTrip
  Relayed
  SealKept
  FirstFragmentTold
  ArrivesWhole
  QuantityKept
