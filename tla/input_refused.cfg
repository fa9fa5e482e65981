CONSTANTS
  None = None
  WindowSize = 2
  MaxPending = 1
  Budgets <- OneFailure
SPECIFICATION Spec
CHECK_DEADLOCK FALSE
PROPERTY
  RefusedIsOld
