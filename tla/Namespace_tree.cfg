CONSTANTS
  Root = "r"
  Folders = {"r", "d"}
  Files = {"x", "y"}
  Names = {"a", "b"}
  Start <- MCStart
  Workers = {"w", "v"}
  Copies = 2
  MaxRequests = 2
  MaxChanges = 1
  Moves = TRUE
  Refusals = TRUE
SPECIFICATION FairSpec
CHECK_DEADLOCK FALSE
INVARIANT TypeOK
INVARIANT Listing
INVARIANT KernelKnown
INVARIANT OneObject
 
PROPERTY FeedGoesOn
