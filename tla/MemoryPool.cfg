SPECIFICATION Spec
CONSTANTS
  ArenaSize = 76
  Sizes <- MCSizes
  Width = 7
  MaxAllocated = 160
INVARIANTS
  BlocksDisjoint
  Balanced
