SPECIFICATION BootSpec
CONSTANTS
  HwTimeout = 10
INVARIANTS
  NothingTooEarly
PROPERTIES
  BootEnds
CHECK_DEADLOCK FALSE
