CONSTANTS
  BlockSize = 3
  FileSize = 5
  Readers = {r1}
  Items = {i1, i2, i3}
  NoItem = NoItem
  MaxCache = 3
  Requests <- MCRequestsBoth
  AheadWindow = {0}
  ReadAhead = 1
  Threads = 1
  SharedPool = TRUE
  Bodies <- ExactBodies
  Torn = {1}
  Gone = FALSE
  OpenFails = FALSE
  Evicts = FALSE
  Crashes = FALSE
SPECIFICATION FairSpec
PROPERTY
  ReadReturns
