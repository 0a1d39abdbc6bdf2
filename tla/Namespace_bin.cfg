CONSTANTS
  Root = "r"
  Folders = {"r", "d"}
  Files = {"x"}
  Names = {"a", "b"}
  Start <- MCStart
  Workers = {"w"}
  Copies = 2
  MaxRequests = 2
  MaxChanges = 3
  Moves = TRUE
  Refusals = TRUE
SPECIFICATION Spec
CHECK_DEADLOCK FALSE
INVARIANT Listing
