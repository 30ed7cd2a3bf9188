SPECIFICATION Spec
CONSTANTS
  b1 = b1
  b2 = b2
  Build <- MCBuild
  LoopsFree = FALSE
SYMMETRY Symmetry
INVARIANTS
  ReleasedAfterTrap
  LoopsGivenBack
  
CHECK_DEADLOCK FALSE
