CONSTANTS
  Ids <- MCIds
  PageSize = 2
  MaxChanges = 4
  MaxCrashes = 2
  Throws = TRUE
SPECIFICATION FairSpec
CHECK_DEADLOCK FALSE
INVARIANT TypeOK
INVARIANT SavedCovers
INVARIANT MemoryFirst
PROPERTY CatchesUp
