SPECIFICATION Spec
CONSTANTS
  Requests = 3
  File = {f, g}
  Size = 2
INVARIANTS
  WholeOrNothing
  NoneLeftWaiting
PROPERTIES
  Answered
CHECK_DEADLOCK FALSE
