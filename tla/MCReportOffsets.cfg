SPECIFICATION Spec
CONSTANTS
  Chars <- MCChars
  Newline = "newline"
  Width <- MCWidth
  MaxLength = 5
INVARIANTS SrcCharIsTheKey DiagnosticIsAtTheLocation
CHECK_DEADLOCK FALSE
