CONSTANTS
  Tasks = {t1, t2}
  WRAP = 3
  DELAY = 3
  HORIZON = 6
SPECIFICATION Spec
INVARIANTS TypeOK TimersProgrammed DeadlineCoherent
PROPERTY TimerServiceSpec
SYMMETRY TaskSymmetry
