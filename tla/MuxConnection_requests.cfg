SPECIFICATION FairSpec
CONSTANTS
  r1 = r1  r2 = r2
  Requests = {r1, r2}
  Kinds <- ControlAndData
  ChanCap = 1
  OutCap = 1
  WireCap = 1
  ReqCap = 1
  Breaks = TRUE
INVARIANTS TypeOK NoOrphanEntry
PROPERTIES StreamsOfTheirOwn RequestsEnd Teardown
CHECK_DEADLOCK FALSE
