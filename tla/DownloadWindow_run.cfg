SPECIFICATION FairSpec
CONSTANTS
  f1 = f1  f2 = f2  f3 = f3
  a = a  b = b  c = c  a1 = a1  a2 = a2  b1 = b1  c1 = c1
  None = None  Foreign = Foreign
  Manifest <- Three
  Name <- Names3
  Copies <- Apart
  Policies = {"overwrite", "skip", "keep_both"}
  Sizes = {0, 1, 2}
  Resumable = {f1}
  StreamLimit = 1
  Memory = 4
  BatchCount = 2
  SmallFile = 1
  BatchBytes = 8
  MaxSmallFile = 1
  MaxBatchBytes = 8
  LimitLow = 2  LimitHigh = 2
CONSTRAINT CopiesMatter
INVARIANTS TypeOK BufferWithinBudget BatchesAccepted CompletedMeansStored
PROPERTY RunEnds
CHECK_DEADLOCK FALSE
