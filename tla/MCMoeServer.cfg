CONSTANTS
  World = 2
  MaxLaunches = 2
  MaxKills = 1
  Clients = 3
  Slots = 2
  MaxCalls = 5
  Torn = Torn
SPECIFICATION MCSpec
INVARIANTS AnswersUseLoadedWeights WholeWhenUsed
PROPERTIES LaunchesEnd HeaderAdvances AllCallsReturn
CHECK_DEADLOCK FALSE
