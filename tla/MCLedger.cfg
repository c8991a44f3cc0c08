SPECIFICATION Spec
CONSTANTS
  Tx = {t1, t2, t3}
  MaxHeight = 3
  MaxCrashes = 2
INVARIANTS Restartable AppliedOnce ReplayUnlessTorn
CHECK_DEADLOCK FALSE
