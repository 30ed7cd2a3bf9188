SPECIFICATION Spec
CONSTANTS
  n1 = n1
  n2 = n2
  n3 = n3
  c1 = c1
  c2 = c2
  NetDev = {n1, n2, n3}
  CdDev = {c1}
  NoName = NoName
  Interface <- MCInterface
  Custom <- MCCustomOne
  Aliases <- MCAliases
  Retries = 1
  MaxBoots = 1
INVARIANTS
  OneWriter
  NamesUnique
  LockHasOwner
PROPERTIES
  MissesOnlyBeside
CHECK_DEADLOCK FALSE
