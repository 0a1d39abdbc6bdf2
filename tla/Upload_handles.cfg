CONSTANTS
  Creator = "creator"
  Others <- MCOthers
  Boot = "boot"
  ReadWrite = TRUE
  MaxLen = 2
  Sessions = 2
  MaxCrashes = 1
  Unlinks = FALSE
  Faulty = {1, 2}
SPECIFICATION Spec
CHECK_DEADLOCK FALSE
INVARIANT Kept
INVARIANT Readable
