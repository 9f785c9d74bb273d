CONSTANTS
  a = a
  b = b
  Contexts <- TwoContexts
  NoContext = NoContext
  Requests = {"key"}
  MaxOps = 4
  Answers = {"compose", "shift", "unwanted"}
  Faults = {"start", "lateCancel"}
SPECIFICATION Spec
CHECK_DEADLOCK FALSE
INVARIANTS StaysInItsField
