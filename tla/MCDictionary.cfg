SPECIFICATION Spec
CONSTANTS
  a = a
  b = b
  p = p
  q = q
  NoText = NoText
  blank = blank
  listed = listed
  Words = {a, b}
  Keys = {p, q, listed}
  BuiltIn = {listed}
  Sessions = {s1, s2}
  Dictionary <- MCDictionary
  Operations <- MCOperations
  Method = "cangjie"
  Capacity = 2
  MaxCalls = 3
SYMMETRY MCSymmetry
INVARIANTS
  SurvivorsWereUnseen
  RefusalNeedsResets
  CallsAreAtomic
