CONSTANTS
  Requests = {r1, r2, r3}
  Keys = {k1}
  Costs = {1}
  MaxQueue = 0
  MaxRunning = 2
  MaxBatchSize = 2
  MaxTotalTokens = 0
  EventCap = 1
  MaxEvents = 0
  HandlerFaults = FALSE
  Shutdown = Shutdown
  Nothing = Nothing
SPECIFICATION FairSpec
PROPERTIES AnsweredWhileOpen CloseStopsWorker
CHECK_DEADLOCK FALSE
