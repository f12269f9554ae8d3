SPECIFICATION Spec
CONSTANTS
  a = a
  b = b
  c = c
  junk = junk
  Values <- MCValues
  Junk <- junk
  Batches <- MCBatches
  InitSizes <- MCInitSizes
  MaxCount = 4
INVARIANT StoresInBounds
CHECK_DEADLOCK FALSE
