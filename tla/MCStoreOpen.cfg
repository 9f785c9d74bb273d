SPECIFICATION OpenSpec
CONSTANTS
  Processes = {p1, p2, p3}
  NoProcess = NoProcess
  MaxSaves = 2
SYMMETRY MCSymmetry
INVARIANTS
  OpenTypeOK
  OpenOnlyOnStores
  FirstOpenIsAlone
PROPERTIES
  CommittedStays
  OthersFilesUntouched
  InterruptedIsRefused
