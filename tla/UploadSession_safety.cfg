\* Every kind of part and entry, two workers in each pool, which get two archive
\* entries, one entry and three files.
CONSTANTS
  k1 = k1
  k2 = k2
  Form <- MixedForm
  Keys = {k1, k2}
  MaxSize = 2
  ArchiveWorkers = 2
  FileWorkers = 2
  RecorderFails = TRUE
  None = None
SPECIFICATION FairSpec
INVARIANTS
  TypeOK
  SessionAdds
  SuccessMeansStored
PROPERTIES
  AnswersEveryPart
CHECK_DEADLOCK FALSE
