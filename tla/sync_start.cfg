CONSTANTS
  Device <- Two
  None = None
  SeenLimit = 3
  Reach <- PairReach
  StartLinked = TRUE
  Budgets <- TextAndCrash
SPECIFICATION Spec
CHECK_DEADLOCK FALSE
INVARIANTS
  AgreeWhenConnected
