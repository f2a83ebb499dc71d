SPECIFICATION FairSpec
CONSTANTS
  c1 = c1
  c2 = c2
  w1 = w1
  w2 = w2
  k1 = k1
  Clients = {c1, c2}
  Workers = {w1, w2}
  Killers = {}
  Capacity = 2
  PriorityQueue = TRUE
  PriorityScheduling = TRUE
  Calls = {"send", "try_send", "send_batch"}
  Payloads = {"Start"}
  Priorities = {2, 3}
  Outcomes = {"Success", "Panic"}
  SetStates = {}
  MaxMessages = 2
INVARIANTS
  SlotsHeld
  AtMostOnce
  FailureContained
PROPERTIES
  Delivered
  CallReturns
