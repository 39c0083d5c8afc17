SPECIFICATION Spec
CONSTANTS
  a = a  b = b  x = x  u = u
  Zero = Zero  NoFile = NoFile
  Contents <- Versions
  UserFiles <- UserFile
  InitLocal <- OnlyUser
  Policy = "overwrite"
  ChunkSizes = {1, 2}
  Attempts = 2
  StreamLimit = 1
  HashBudget = 2
  MaxRuns = 2
  MaxFaults = 0
  MaxDisk = 0
  MaxCrashes = 1
  MaxEdits = 1
  MaxUser = 0
  MaxDetaches = 1
  MaxCopies = 4
  UserNames = {1}
INVARIANTS TypeOK InstalledFaithful
PROPERTIES ReplacementReady DoneMeansStored NothingRequestedAgain
CHECK_DEADLOCK FALSE
