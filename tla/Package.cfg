SPECIFICATION Spec
CONSTANTS
  MaxEdits = 1
  MaxMakes = 3
INVARIANTS
  ManifestExact
  PackageWhole
  RevisionAgrees
  NothingLeftOver
CHECK_DEADLOCK FALSE
