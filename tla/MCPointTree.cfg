SPECIFICATION FairSpec
CONSTANTS
  NULL = NULL
  tag = tag
  Point <- MCPoint
  Data <- MCData
  MaxNodePts = 2
  Far = 9
  MaxPoints = 3
  MaxNodes = 7
INVARIANTS TreeSound
PROPERTIES IsPointIndex CallReturns
