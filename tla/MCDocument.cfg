CONSTANTS
  Contents <- MCContents
  Inserted <- MCInserted
  TableNames <- MCTableNames
  ItemRecords <- MCItemRecords
  Keys <- MCKeys
  LayerNames <- MCLayerNames
  TableSize = 3
  BucketNr <- MCBucketNr
  Variables <- MCVariables
  Values <- MCValues
  Colors <- MCColors
  Junk <- MCJunk
  MaxEdits = 2
  AskEvery = 3
SPECIFICATION Spec
INVARIANTS
  WritingSound
  ReadBack
  
  HandlesUnique
  VariableLaws
  LayersSound
CHECK_DEADLOCK FALSE
