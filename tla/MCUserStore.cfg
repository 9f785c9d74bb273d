SPECIFICATION Spec
CONSTANTS
  p = p
  q = q
  r = r
  a = a
  b = b
  Keys = {p, q, r}
  Words = {a, b}
  Capacity = 2
  Connections = {c1, c2}
  NoConnection = NoConnection
  Lists <- MCLists
  MaxWrites = 3
SYMMETRY MCSymmetry
INVARIANTS
  TypeOK
  SameVersionSameData
  NeverRefusedByItsOwnRows
PROPERTIES
  ImplementsDatabase
