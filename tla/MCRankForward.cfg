CONSTANTS
  W = 2
  N = 2
  Indexed = {1}
  K = 2
  MinTokens = 3
  Settings <- MCSettings
  Scripts <- MCPasses
SPECIFICATION Spec
INVARIANT SumsAreWhole
PROPERTY PassesEnd
CHECK_DEADLOCK FALSE
