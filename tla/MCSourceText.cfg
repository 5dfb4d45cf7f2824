SPECIFICATION Spec
CONSTANTS
  MaxSymbols = 5
  MaxPieces = 5
  Texts <- MCTexts
CHECK_DEADLOCK FALSE
INVARIANT TypeOK
INVARIANT TokensAreTheText
INVARIANT TokensAreInOrder
INVARIANT LinesAreCountedOnce
INVARIANT DirectivesReachTheirLines
