SPECIFICATION Spec
CONSTANTS
  Programs <- MCPrograms
  SmallSize = 4
  Size = 6
  JudgedSize = 4
INVARIANTS NothingIsDetached JumpsFindTheirLoop GraphIsTheProgram ChangesAfterCallsAreFound ModifiersAreJudgedByTheirPaths
CHECK_DEADLOCK FALSE
