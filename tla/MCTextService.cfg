CONSTANTS
  a = a
  b = b
  Contexts <- TwoContexts
  NoContext = NoContext
  Requests = {"key", "symbol", "mode"}
  MaxOps = 3
  Answers = {"compose", "commit", "numpad", "shift", "clear", "pass", "unwanted", "flush"}
  Faults = {"start", "write", "caret", "end", "view", "select", "publish", "untold"}
SPECIFICATION Spec
CHECK_DEADLOCK FALSE
INVARIANTS TypeOK LeaseWhilePending InOrder NeverForgotten KeepsOrder StaysInItsField NoKeyIsLost CompositionShowsEngine
