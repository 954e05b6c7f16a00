\* One project, one file, an archive or a plain file, and a limit that falls.
CONSTANTS
  p1 = p1
  b1 = b1
  b2 = b2
  Projects = {p1}
  Buckets = {b1, b2}
  BucketsOf <- OneBucket
  RoleOf <- AdminOfOne
  PlatformAdmin = FALSE
  Directories <- Nothing
  Files <- OneFile
  Typed <- Nothing
  CallIds = {c1, c2}
  LocalFiles = {f1}
  SizeOf <- FileSizes
  Limits = {0, 1}
  DefaultLimit = 1
  Answers <- PlainOrArchive
  None = None
  Idle = Idle
SPECIFICATION StorageSpec
INVARIANTS
  NeverStuckBusy
PROPERTIES
  EveryCallEnds
CHECK_DEADLOCK FALSE
