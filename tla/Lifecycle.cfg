SPECIFICATION FairLifeSpec
CONSTANTS
  c1 = c1
  c2 = c2
  NoCaller = NoCaller
  Callers = {c1, c2}
  WorkerCount = 2
  MaxStarts = 3
CHECK_DEADLOCK FALSE
INVARIANTS
  WorkersOwned
  PoolMatchesFlag
PROPERTIES
  StopReturns
