SPECIFICATION Spec
CONSTANTS
  Voter = {me, a, b, c}
  Me = me
  MajorityCount = 3
  MaxBlocks = 4
SYMMETRY Sym
INVARIANT JustifyOnBranch
CHECK_DEADLOCK FALSE
