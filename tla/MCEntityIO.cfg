SPECIFICATION Spec
CONSTANTS
  unset = unset
  bad = bad
  full = full
  Unset <- unset
  Bad <- bad
  Full <- full
  Texts <- MCTexts
  Clean <- MCClean
  Edits <- MCEdits
  EditLists <- MCEditLists
  Layers <- MCLayers
  NewOnes <- MCNewOnes
  NewParts <- MCNewParts
  NewValues <- MCNewValues
  NewFaces <- MCNewFaces
  MaxReach = 1
  MaxSteps = 2
INVARIANTS TypeOK RoundTrip CountExact GeometrySound
PROPERTY SetThenGet
CHECK_DEADLOCK FALSE
