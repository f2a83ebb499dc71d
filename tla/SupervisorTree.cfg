SPECIFICATION TreeSpec
CONSTANTS
  Root = Root
  NoParent = NoParent
  s1 = s1
  s2 = s2
  s3 = s3
  s4 = s4
  x = x
  Ids = {Root, s1, s2, s3, s4}
  ChildNames = {x}
SYMMETRY MCSymmetry
INVARIANTS
  ListsAgree
  AllReachable
  DepthExact
