SPECIFICATION Spec
CONSTANTS
  CR = "CR"
  LF = "LF"
  NUL = "NUL"
  Stray = "Stray"
  Texts <- MCTexts
  BuffSize = 5
  MaxWrites = 2
CHECK_DEADLOCK FALSE
INVARIANTS
  SplitRoundTrip
  AlignedIsExact
  TextIsKept
  UndefinedOnlyAtEndOrCut
