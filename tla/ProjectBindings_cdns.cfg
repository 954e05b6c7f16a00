\* Two edits of the CDNs of one project overlap.
CONSTANTS
  Calls = {k1, k2}
  BucketNames = {"b1", "b2"}
  CDNNames = {"c1", "c2", "c3"}
  Providers = {"aliyun", "tencent"}
  BucketInputs <- NoBuckets
  CDNInputs <- TwoEndpoints
  BucketCreations <- NoBuckets
  CDNCreations <- TwoEndpoints
  Origin = Origin
  None = None
SPECIFICATION Spec
INVARIANTS
  CDNsWellFormed
CHECK_DEADLOCK FALSE
