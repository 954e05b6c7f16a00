\* Creations with a bucket that is marked KEEP, and one edit.
CONSTANTS
  Calls = {k1}
  BucketNames = {"b1", "b2"}
  CDNNames = {"c1", "c2", "c3"}
  Providers = {"aliyun", "tencent"}
  BucketInputs <- MCBucketInputs
  CDNInputs <- MCCDNInputs
  BucketCreations <- NewBuckets
  CDNCreations <- NewCDNs
  Origin = Origin
  None = None
SPECIFICATION Spec
INVARIANTS
  BindingsHaveCredentials
CHECK_DEADLOCK FALSE
