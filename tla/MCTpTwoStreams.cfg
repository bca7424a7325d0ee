CONSTANTS
  World = 2
  Plain = {}
  Streams = {s1, s2}
  MaxSteps = 2
  Faulty = {}
  MaxFaults = 0
  Patient = {}
  Nobody = Nobody
SPECIFICATION Spec
INVARIANTS Serialised
CHECK_DEADLOCK FALSE
