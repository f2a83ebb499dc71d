SPECIFICATION Spec
CONSTANTS
  c1 = c1
  c2 = c2
  w1 = w1
  w2 = w2
  k1 = k1
  Clients = {c1, c2}
  Workers = {w1}
  Killers = {k1}
  Capacity = 2
  PriorityQueue = FALSE
  PriorityScheduling = FALSE
  Calls = {"send", "send_batch"}
  Payloads = {"Custom", "Pause", "Resume"}
  Priorities = {1}
  Outcomes = {"NotReady", "Failed"}
  SetStates = {"Running"}
  MaxMessages = 2
SYMMETRY MCSymmetry
INVARIANTS
  NoStranded
PROPERTIES
  SerialInOrder
