CONSTANTS
  Chunks = {"p1"}
  Parts <- MCTwo
  MaxCacheOnDisk = 1
  Batch = 2
  MaxCrashes = 1
  MaxWrites = 1
  Throws = TRUE
SPECIFICATION Spec
CHECK_DEADLOCK FALSE
INVARIANT TypeOK
INVARIANT NeverUnder
INVARIANT Findable
