CONSTANTS
  Requests = {r1, r2, r3}
  Keys = {k1, k2}
  Costs = {1, 9}
  MaxQueue = 1
  MaxRunning = 2
  MaxBatchSize = 2
  MaxTotalTokens = 8
  EventCap = 1
  MaxEvents = 1
  HandlerFaults = TRUE
  Shutdown = Shutdown
  Nothing = Nothing
SPECIFICATION Spec
SYMMETRY Symmetry
INVARIANTS TypeOK Conservation BatchSound ToldTheTruth Bounded StreamShape
PROPERTIES Final ImplementsService
CHECK_DEADLOCK FALSE
