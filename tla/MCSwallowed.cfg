CONSTANTS
  a = a
  b = b
  Contexts <- OneField
  NoContext = NoContext
  Requests = {"key", "mode", "open"}
  MaxOps = 3
  Refusals = FALSE
  Cancellations = TRUE
  MaxWaiting = 2
SPECIFICATION Spec
CHECK_DEADLOCK FALSE
INVARIANTS ModesAgree
