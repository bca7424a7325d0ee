CONSTANTS
  Ranks <- TwoRanks
  Requests = {r1, r2, r3}
  Tokens = {1, 2}
  Prompts <- ThePrompts
  Block = 2
  MinTokens = 2
  MaxEntries = 2
  Chunks = {0, 3}
  Generated = 0
  Nobody = Nobody
SPECIFICATION Spec
SYMMETRY Symmetry
INVARIANTS SnapshotsTrue ResumesRight RanksAgree
CHECK_DEADLOCK FALSE
