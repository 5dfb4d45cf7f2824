SPECIFICATION Spec
CONSTANTS
  Programs <- MCPrograms
  SmallSize = 4
  Size = 4
  JudgedSize = 4
INVARIANTS EveryModifierIsJudged
CHECK_DEADLOCK FALSE
