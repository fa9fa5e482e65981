CONSTANTS
  Device <- Three
  None = None
  SeenLimit = 3
  Reach <- StarReach
  StartLinked = TRUE
  Budgets <- ThreeCopies
SPECIFICATION Spec
CHECK_DEADLOCK FALSE
INVARIANTS
  AgreeWhenConnected
