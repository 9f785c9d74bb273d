SPECIFICATION GraphSpec
CONSTANTS
  Lexicon <- MCLexicon
  Bigrams <- MCBigrams
  Punctuation <- MCPunctuation
  NoText = ""
  MaxSpan = 4
  MaxReadings = 4
  MaxFixed = 1
INVARIANTS
  EveryWordIsOffered
  ShiftKeepsText
  RebuildKeepsSelections
PROPERTY EditsKeepNodesFresh
