\* A project with two buckets, a directory that may be named without its slash; two
\* calls at a time, and a plain file to upload.
CONSTANTS
  p1 = p1
  b1 = b1
  b2 = b2
  Projects = {p1}
  Buckets = {b1, b2}
  BucketsOf <- TwoBuckets
  RoleOf <- AdminOfOne
  PlatformAdmin = FALSE
  Directories <- OneDirectory
  Files <- Nothing
  Typed <- WithoutSlash
  CallIds = {c1, c2}
  LocalFiles = {f1}
  SizeOf <- FileSizes
  Limits = {1}
  DefaultLimit = 1
  Answers <- Plain
  None = None
  Idle = Idle
SPECIFICATION StorageSpec
INVARIANTS
  StorageTypeOK
  LatestDeleteShown
  NeverStuckBusy
SYMMETRY CallSymmetry
CHECK_DEADLOCK FALSE
