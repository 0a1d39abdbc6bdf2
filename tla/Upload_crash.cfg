\* One handle; the first upload URL may fail in every way.
CONSTANTS
  Creator = "creator"
  Others <- MCNone
  Boot = "boot"
  ReadWrite = FALSE
  MaxLen = 2
  Sessions = 4
  MaxCrashes = 2
  Unlinks = TRUE
  Faulty = {1}
SPECIFICATION FairSpec
CHECK_DEADLOCK FALSE
INVARIANT TypeOK
INVARIANT Durable
INVARIANT Recoverable
INVARIANT StoredWhole
INVARIANT Readable
INVARIANT AssertParent
INVARIANT DeletedGone
PROPERTY Delivers
PROPERTY UploadEnds
PROPERTY TaskEnds
