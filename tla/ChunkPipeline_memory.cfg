SPECIFICATION Spec
CONSTANTS
  f1 = f1
  f2 = f2
  Files = {f1}
  Chunks <- OneBig
  Capture = {f1}
  StreamLimit = 2
  DbErrors = FALSE
INVARIANT BufferBounded
CHECK_DEADLOCK FALSE
