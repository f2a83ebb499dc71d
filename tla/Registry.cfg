SPECIFICATION Spec
CONSTANTS
  t1 = t1
  t2 = t2
  t3 = t3
  i1 = i1
  i2 = i2
  n1 = n1
  n2 = n2
  Unnamed = Unnamed
  Absent = Absent
  Free = Free
  Threads = {t1, t2, t3}
  Ids = {i1, i2}
  Names = {n1, n2}
  MaxActors = 3
SYMMETRY MCSymmetry
INVARIANTS
  NamesUnique
  NamesResolve
  NoDangling
  BudgetExact
