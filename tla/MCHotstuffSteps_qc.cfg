SPECIFICATION Spec
CONSTANTS
  Voter = {me, a, b, c}
  Me = me
  MajorityCount = 3
  MaxBlocks = 4
SYMMETRY Sym
INVARIANT QCIsMajority
CHECK_DEADLOCK FALSE
