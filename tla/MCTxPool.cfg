SPECIFICATION Spec
CONSTANTS
  Tx = {t1, t2}
  BlockTxLimit = 1
  MaxHeight = 2
SYMMETRY Sym
INVARIANTS TypeOK NothingMissing NoOrphan
PROPERTY KeptUntilStored
CHECK_DEADLOCK FALSE
