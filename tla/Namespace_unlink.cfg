CONSTANTS
  Root = "r"
  Folders = {"r", "d"}
  Files = {"x"}
  Names = {"a", "b"}
  Start <- MCStart
  Workers = {"w"}
  Copies = 2
  MaxRequests = 2
  MaxChanges = 1
  Moves = TRUE
  Refusals = FALSE
SPECIFICATION FairSpec
CHECK_DEADLOCK FALSE
PROPERTY DetachEnds
