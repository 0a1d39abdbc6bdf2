CONSTANTS
  BlockSize = 3
  FileSize = 2
  Readers = {r1, r2}
  Items = {i1, i2, i3}
  NoItem = NoItem
  MaxCache = 2
  Requests <- MCRequestsFull
  AheadWindow = {}
  ReadAhead = 0
  Threads = 1
  SharedPool = TRUE
  Bodies <- OddBodies
  Torn = {1}
  Gone = TRUE
  OpenFails = TRUE
  Evicts = TRUE
  Crashes = TRUE
SPECIFICATION Spec
SYMMETRY Symmetry
INVARIANTS
  NoNullDeref
  CopySafe
PROPERTIES
  BufferStable
  EventKept
