CONSTANTS
  Win = 3
  Ratio = 2
  MaxSeq = 8
  Old <- MCOld
  Plain = plain
  Odd = odd
  Eos = eos
  None = None
  Lens <- MCLens
  MaxNew = 4
  Chunks = {0, 2}
SPECIFICATION Spec
INVARIANTS ReadsAsIntended GreedyIsGreedy StreamIsCompletion
CHECK_DEADLOCK FALSE
