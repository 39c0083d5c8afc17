SPECIFICATION Spec
CONSTANTS
  NoRun = NoRun
  MaxRuns = 3
  MaxCrashes = 0
INVARIANT StartRefusesRunning
CHECK_DEADLOCK FALSE
