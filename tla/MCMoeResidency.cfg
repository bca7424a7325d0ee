CONSTANTS
  N = 2
  Experts = {e1, e2}
  DenseFrom = 2
  Settings <- MCSettings
  Buffers = 2
  Blocks = {b1, b2, b3}
  NoBlock = NoBlock
  Depth = 2
SPECIFICATION Spec
INVARIANTS  CacheTellsWhatIsThere
SYMMETRY Symmetry
CHECK_DEADLOCK FALSE
