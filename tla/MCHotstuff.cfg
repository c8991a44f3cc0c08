SPECIFICATION Spec
CONSTANTS
  Node = {n1, n2}
  Proposer = {n1, n2}
  MajorityCount = 2
  Leader0 = g
  MaxHeight = 4
  Retries = 1
  MaxBlocks = 7
SYMMETRY Sym
CHECK_DEADLOCK FALSE
CONSTRAINT Small
INVARIANTS TypeOK AgreeWhileTolerated DoubleVoteIsOwnProposal OwnProposalKeepsLock JustifyIsAncestor
