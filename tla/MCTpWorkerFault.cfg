CONSTANTS
  World = 2
  Plain = {p1, p2}
  Streams = {}
  MaxSteps = 2
  Faulty = {1}
  MaxFaults = 1
  Patient = {}
  Nobody = Nobody
SPECIFICATION Spec
INVARIANTS NoOneWaitsForEver
CHECK_DEADLOCK FALSE
