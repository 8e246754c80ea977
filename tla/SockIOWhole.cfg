SPECIFICATION Spec
CONSTANTS
  CR = "CR"
  LF = "LF"
  NUL = "NUL"
  Stray = "Stray"
  Texts <- MCTexts
  BuffSize = 6
  MaxWrites = 2
CHECK_DEADLOCK FALSE
INVARIANTS
  LinesArriveWhole
