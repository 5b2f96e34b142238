CONSTANTS
  Tasks = {t1, t2}
  WRAP = 3
  DELAY = 3
  HORIZON = 7
SPECIFICATION Spec
INVARIANT EveryTimerProgrammed
SYMMETRY TaskSymmetry
