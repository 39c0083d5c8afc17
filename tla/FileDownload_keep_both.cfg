SPECIFICATION FairSpec
CONSTANTS
  a = a  b = b  x = x  u = u
  Zero = Zero  NoFile = NoFile
  Contents <- TwoSizes
  UserFiles <- UserFile
  InitLocal <- UserLocal
  Policy = "keep_both"
  ChunkSizes = {2}
  Attempts = 2
  StreamLimit = 1
  HashBudget = 2
  MaxRuns = 1
  MaxFaults = 1
  MaxDisk = 1
  MaxCrashes = 1
  MaxEdits = 1
  MaxUser = 1
  MaxDetaches = 1
  MaxCopies = 4
  UserNames = {2}
PROPERTIES KeepsForeignFiles RunEnds
CHECK_DEADLOCK FALSE
