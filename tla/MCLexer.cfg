CONSTANTS
  Chars <- MCAllChars
  Texts <- MCTexts
  Keywords <- MCKeywords
  Columns = 256
SPECIFICATION Spec
INVARIANTS TypeOK LinesAreRight NothingLost LongestTokens
PROPERTY Finishes
CHECK_DEADLOCK FALSE
