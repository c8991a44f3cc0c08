SPECIFICATION Spec
CONSTANTS
  Tx = {t1, t2, t3}
  MaxHeight = 3
  MaxCrashes = 2
INVARIANT StateIsReplay
CHECK_DEADLOCK FALSE
