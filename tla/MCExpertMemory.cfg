CONSTANTS
  N = 2
  Experts = {1, 2}
  Slots = 1
  MainMemory = {m1, m2, m3}
  CopyMemory = {c1, c2}
  Nowhere = Nowhere
  QueueDepth = 2
  Owned = {e1, e2}
  Times <- MCTimes
  NLayers = 3
  Depth = 2
  Batches = {1, 2}
  Threshold = 1
  MaxPasses = 3
  MaxFaults = 1
SPECIFICATION MCSpec
INVARIANTS
  ReadersGetLoadedWeights
  ArenaIsOnlyStore
  CallsGetTheirOwn
  KernelsReadTheirBlocks
SYMMETRY Symmetry
CHECK_DEADLOCK FALSE
