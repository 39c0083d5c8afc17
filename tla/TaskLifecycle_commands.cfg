SPECIFICATION Spec
CONSTANTS
  NoRun = NoRun
  MaxRuns = 3
  MaxCrashes = 1
INVARIANTS TypeOK ActiveIsLive AtMostOneRunner Controllable CompletedIsQuiet NoSilentEnd
CHECK_DEADLOCK FALSE
