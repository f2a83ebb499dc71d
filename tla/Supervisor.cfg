SPECIFICATION Spec
CONSTANTS
  a = a
  b = b
  Names = {a, b}
  Strategies = {"OneForOne", "OneForAll", "RestForOne", "SimpleOneForOne"}
  MaxRestarts = 1
  Within = 2
  Policies = {"Permanent", "Transient", "Temporary"}
  Reasons = {"Normal", "Error"}
  Escalations = {"Escalate", "GiveUp"}
  MaxOrder = 2
  MaxTime = 3
  MaxStarts = 4
  MaxExits = 3
SYMMETRY MCSymmetry
INVARIANTS
  RateLimited
PROPERTIES
  OnlyRestartsRevive
  RestOrder
