SPECIFICATION Spec
CONSTANTS
  a = a  b = b  x = x  u = u
  Zero = Zero  NoFile = NoFile
  Contents <- OneVersion
  UserFiles <- UserFile
  InitLocal <- NoLocal
  Policy = "skip"
  ChunkSizes = {2}
  Attempts = 2
  StreamLimit = 1
  HashBudget = 2
  MaxRuns = 2
  MaxFaults = 0
  MaxDisk = 0
  MaxCrashes = 1
  MaxEdits = 0
  MaxUser = 0
  MaxDetaches = 0
  MaxCopies = 4
  UserNames = {1}
PROPERTIES DoneMeansStored
CHECK_DEADLOCK FALSE
