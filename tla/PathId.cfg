SPECIFICATION Spec
CONSTANTS
  Tree <- MCTree
  Shifts = {0, 1}
INVARIANTS
  PathsUnique
  PathsPersist
PROPERTIES
  NearerEachStep
  WalkEnds
CHECK_DEADLOCK FALSE
