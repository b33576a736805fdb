SPECIFICATION RecipesSpec
CONSTANTS
  Segments <- MCSegments
  MaxSegments = 3
  Totals = {0, 3}
  SourceSize = 2
  Dot = "."
  Bang = "!"
  OtherChar = "a"
  MaxName = 5
  Pad = 0
  MaxBytes = 7
  MaxChars = 8
  Width = 4
  MaxDigit = 2
  Letter = 10
  Oh = 11
  Plus = 12
  MaxHashes = 2
  NoTx = "none"
  NoSection = "none"
  WrittenSegments <- MCWritten
  MaxWritten = 3
INVARIANTS EveryNameReturns
CHECK_DEADLOCK FALSE
