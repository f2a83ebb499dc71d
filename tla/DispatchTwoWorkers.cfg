SPECIFICATION Spec
CONSTANTS
  c1 = c1
  c2 = c2
  w1 = w1
  w2 = w2
  k1 = k1
  Clients = {c1, c2}
  Workers = {w1, w2}
  Killers = {}
  Capacity = 2
  PriorityQueue = FALSE
  PriorityScheduling = FALSE
  Calls = {"send"}
  Payloads = {"Custom"}
  Priorities = {1}
  Outcomes = {"Success"}
  SetStates = {}
  MaxMessages = 2
SYMMETRY MCSymmetry
PROPERTIES
  RunsInOrder
