SPECIFICATION Spec
CONSTANTS
  Entities <- MCEntities
  Inserts <- MCInserts
  LayerCol = FALSE
  MaxShown = 2
INVARIANTS StripsSound HistoryFree SurfacesSound
