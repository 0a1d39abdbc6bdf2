CONSTANTS
  Chunks = {"p1"}
  Parts <- MCFour
  MaxCacheOnDisk = 1
  Batch = 100
  MaxCrashes = 0
  MaxWrites = 0
  Throws = FALSE
SPECIFICATION FairSpec
CHECK_DEADLOCK FALSE
PROPERTY StaysWithin
