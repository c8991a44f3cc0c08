SPECIFICATION Spec
CONSTANTS
  Voter = {me, a, b}
  Me = me
  MajorityCount = 3
  MaxBlocks = 4
SYMMETRY Sym
INVARIANTS VotesOfOneBlock SoundUnlessOverlapped
PROPERTY LowerOnlyOverlapped
CHECK_DEADLOCK FALSE
