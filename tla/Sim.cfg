SPECIFICATION FairSpec
CONSTANTS
  a1 = a1
  a2 = a2
  Actors = {a1, a2}
  Messages = 2
  Capacity = 2
  Faults = {"reject", "delay", "duplicate", "crash"}
  Delays = {1, 2}
  MaxRestarts = 1
  Rates = {1, 2}
  ProcessingPerTick = 1
  RetriesPerTick = 1
CHECK_DEADLOCK FALSE
INVARIANTS
  SlotsConserved
  Accounted
PROPERTIES
  GivenUpForGood
  Quiesces
