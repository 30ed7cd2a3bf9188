SPECIFICATION Spec
CONSTANTS
  PipeCap = 2
  MaxSyscheck = 2
  PMICHEXVERSION = 7
  PmicVersion = {6, 7}
  StartsInTime = TRUE
INVARIANTS
  SafeToPowerOff
  WholeUnlessFault
  NobodyWaitsInVain
PROPERTIES
  KeepsWord
  BothConnect
  WriteDoneDelivered
  PowerDownHonoured
CHECK_DEADLOCK FALSE
