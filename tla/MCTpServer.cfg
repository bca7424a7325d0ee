CONSTANTS
  World = 3
  Plain = {p1, p2}
  Streams = {s1}
  MaxSteps = 2
  Faulty = {0, 1}
  MaxFaults = 2
  Patient = {s1}
  Nobody = Nobody
SPECIFICATION FairSpec
INVARIANTS
  TypeOK Serialised Lockstep Framed NoOneStalls WorkersSurvive MutexBalanced
PROPERTIES EveryRequestReturns WorkersEnd
CHECK_DEADLOCK FALSE
