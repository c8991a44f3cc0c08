SPECIFICATION Spec
CONSTANTS
  Node = {l, n1, n2, n3}
  Leader = l
  LeaderRestarts = 1
  FollowerRestarts = 0
  LeftOut = n3
  MaxFetches = 3
SYMMETRY Sym
INVARIANT GenesisAgreed
CHECK_DEADLOCK FALSE
