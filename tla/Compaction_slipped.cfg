CONSTANTS
  r1 = r1
  Readers = {r1}
  MaxKey = 3
  NumLevels = 3
  MaxMemCompactLevel = 1
  L0Trigger = 2
  MaxFileSize = 2
  GrandParentLimit = 2
  ExpandedLimit = 6
  BaseBytes = 2
  Growth = 2
  WriteBuffer = 1
  AllowedSeeks = 1
  Budgets <- MCBudgets
SPECIFICATION Spec
CHECK_DEADLOCK FALSE
INVARIANT MustNotOverlap
