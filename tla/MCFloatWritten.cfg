CONSTANTS
  SentKinds <- MCSentKinds
  Styles <- MCStyles
  Sample <- MCSample
  SpareRoom <- MCSpareRoom
  Positions <- MCPositions
  CutSizes <- MCCutSizes
  Readings <- MCFloats
SPECIFICATION Spec
INVARIANT FloatArrives
