SPECIFICATION Spec
CONSTANTS
  a = a
  b = b
  c = c
  NoText = NoText
  Words = {a, b, c}
  Keys = {}
  BuiltIn = {}
  Sessions = {s1, s2}
  Dictionary <- MCDictionary
  Operations <- MCOperations
  Method = "cangjie"
  Capacity = 2
  MaxCalls = 4
SYMMETRY MCSymmetry
INVARIANTS
  VersionNamesContent
  NoLearningAcrossReset
  NoSelectionLost
  SettledSessionAgrees
  SelectionIsWhatWasShown
