CONSTANTS
  a = a
  b = b
  Contexts <- TwoFields
  NoContext = NoContext
  Requests = {"key", "mode", "open", "native"}
  MaxOps = 3
  Refusals = TRUE
  Cancellations = TRUE
  MaxWaiting = 1
SPECIFICATION FairSpec
CHECK_DEADLOCK FALSE
INVARIANTS TypeOK ModesAgree KeysSeeLiveMode
PROPERTIES Recovers NoBusyLoop InputDrains
