SPECIFICATION Spec
CONSTANTS
  f1 = f1  h1 = h1  h2 = h2
  Files = {f1}
  Handlers = {h1, h2}
  Rounds = 1
  MaxLen = 3
  MaxEdits = 2
  Asked = {0, 1}
  DefaultChunk = 2  MinChunk = 1  MaxChunk = 2
INVARIANTS TypeOK ManifestOfOneVersion CacheSound UnchangedNotHashed
CHECK_DEADLOCK FALSE
