SPECIFICATION Spec
CONSTANTS
  Chars <- MCChars
  Newline = "newline"
  Width <- MCWidth
  MaxLength = 5
INVARIANTS LineOffsetIsCounted
CHECK_DEADLOCK FALSE
