SPECIFICATION Spec
CONSTANTS
  Node = {l, n1, n2, n3}
  Leader = l
  LeaderRestarts = 0
  FollowerRestarts = 0
  LeftOut = n3
  MaxFetches = 3
SYMMETRY Sym
INVARIANT AllVoted
CHECK_DEADLOCK FALSE
