\* Three overlapping edits and the deletion of the project.
CONSTANTS
  Calls = {k1, k2, k3}
  BucketNames = {"b1", "b2"}
  CDNNames = {"c1", "c2", "c3"}
  Providers = {"aliyun", "tencent"}
  BucketInputs <- MCBucketInputs
  CDNInputs <- MCCDNInputs
  BucketCreations <- NewBuckets
  CDNCreations <- NewCDNs
  Origin = Origin
  None = None
SYMMETRY CallSymmetry
SPECIFICATION Spec
INVARIANTS
  TypeOK
  BucketsWellFormed
  BucketCredentials
  RowsReferenceProject
  CDNsOfOneEditTogether
PROPERTIES
  BucketsReplacedWhole
CHECK_DEADLOCK FALSE
