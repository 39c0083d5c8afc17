SPECIFICATION Spec
CONSTANTS
  Places <- SmallPlaces
  Targets <- SmallTargets
  MaxLinks = 2
  Reserved <- SmallReserved
  MaxSelected = 2
  Edited <- SmallEdited
  MaxEdits = 2
  MaxSnapshots = 2
INVARIANTS OnePlacePerFile ManifestAccepted ManifestComplete
CHECK_DEADLOCK FALSE
