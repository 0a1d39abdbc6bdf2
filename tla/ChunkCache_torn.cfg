CONSTANTS
  BlockSize = 3
  FileSize = 3
  Readers = {r1}
  Items = {i1, i2, i3}
  NoItem = NoItem
  MaxCache = 3
  Requests <- MCRequestsHead
  AheadWindow = {}
  ReadAhead = 0
  Threads = 1
  SharedPool = TRUE
  Bodies <- ExactBodies
  Torn = {0}
  Gone = FALSE
  OpenFails = FALSE
  Evicts = FALSE
  Crashes = TRUE
SPECIFICATION Spec
INVARIANT
  AssertHolds
