SPECIFICATION Spec
CONSTANTS
  c1 = c1
  c2 = c2
  w1 = w1
  w2 = w2
  k1 = k1
  Clients = {c1, c2}
  Workers = {w1}
  Killers = {}
  Capacity = 5
  PriorityQueue = FALSE
  PriorityScheduling = FALSE
  Calls = {"send"}
  Payloads = {"Custom", "Pause", "Resume"}
  Priorities = {1}
  Outcomes = {"NotReady"}
  SetStates = {}
  MaxMessages = 2
SYMMETRY MCSymmetry
INVARIANTS
  HeldThenRun
