SPECIFICATION StorageSpec
CONSTANTS
  Tx = {1, 2, 3}
  MaxHeight = 3
  MaxCrashes = 1
  Key = {1, 2, 3, 4}
  BranchFactor = 2
  Sets <- MCSets
INVARIANTS Restartable ReplayUnlessTorn Servable AppliedOnce StateOfApplied ComparesRootOfHeight IndexByFirstWrite TreeIsRecomputed QueriesVerify
CHECK_DEADLOCK FALSE
