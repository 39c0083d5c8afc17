SPECIFICATION Spec
CONSTANTS
  Shares = {s1, s2}
  NoShare = NoShare
  MaxClients = 2
  MaxLogins = 2
  MaxRuns = 1
  MaxStarts = 2
  MaxEdits = 1
SYMMETRY Sym
INVARIANTS TypeOK SessionsKnown AttachedIsServed ManifestOfShare ControlAgrees
CHECK_DEADLOCK FALSE
