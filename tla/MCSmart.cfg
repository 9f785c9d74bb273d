SPECIFICATION Spec
CONSTANTS
  Lexicon <- MCLexicon
  Bigrams <- MCBigrams
  Punctuation <- MCPunctuation
  Syllables <- MCSyllables
  Literals <- MCLiterals
  Options <- MCOptions
  NoReading = NoReading
  NoText = ""
  Blank = "space"
  MaxSpan = 2
  Limit = 2
  MarkSpan = 1
INVARIANTS
  OffersAreCurrent
  LimitHolds
  HandoffKeepsText
  CursorFollowsReading
