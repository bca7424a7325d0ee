CONSTANTS
  Requests = {r1, r2, r3}
  Keys = {k1}
  Costs = {1}
  MaxQueue = 2
  MaxRunning = 1
  MaxBatchSize = 1
  MaxTotalTokens = 0
  EventCap = 1
  MaxEvents = 1
  HandlerFaults = FALSE
  Shutdown = Shutdown
  Nothing = Nothing
SPECIFICATION FairSpec
PROPERTIES FirstComeFirstServed AcceptedIsAnswered
CHECK_DEADLOCK FALSE
