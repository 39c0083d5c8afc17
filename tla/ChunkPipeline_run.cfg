SPECIFICATION FairSpec
CONSTANTS
  f1 = f1
  f2 = f2
  Files = {f1, f2}
  Chunks <- Mixed
  Capture = {f1}
  StreamLimit = 2
  DbErrors = TRUE
INVARIANTS TypeOK PermitsConserved
PROPERTIES HashesSequentially RunEnds PermitsReturn
CHECK_DEADLOCK FALSE
