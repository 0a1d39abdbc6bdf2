CONSTANTS
  BlockSize = 3
  FileSize = 5
  Readers = {r1, r2}
  Items = {i1, i2, i3, i4}
  NoItem = NoItem
  MaxCache = 3
  Requests <- MCRequestsCross
  AheadWindow = {}
  ReadAhead = 0
  Threads = 1
  SharedPool = FALSE
  Bodies <- ExactBodies
  Torn = {1}
  Gone = TRUE
  OpenFails = FALSE
  Evicts = FALSE
  Crashes = FALSE
SPECIFICATION Spec
SYMMETRY Symmetry
INVARIANTS
  TypeOK
  NoLostWakeup
  NoNullDeref
  CopySafe
  CacheAccount
  OneFetchPerChunk
