\* A directory of two levels and pages of two entries, a directory and a file
\* below it, fewer workers than items.
CONSTANTS
  tree = tree
  subtree = subtree
  file = file
  Items <- OverlappingItems
  Target <- OverlappingTarget
  Objects <- MCObjects
  Directories <- MCDirectories
  Uploads <- MCUploads
  Failures = {"canceled", "timeout", "missing"}
  MaxKeys = 2
  BatchWorkers = 2
  FileWorkers = 1
  None = None
SPECIFICATION FairSpec
INVARIANTS
  TypeOK
  SuccessMeansGone
PROPERTIES
  OnlyTargetsDeleted
  AnswersEveryItem
CHECK_DEADLOCK FALSE
