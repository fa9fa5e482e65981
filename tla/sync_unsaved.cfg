CONSTANTS
  Device <- Two
  None = None
  SeenLimit = 3
  Reach <- PairReach
  StartLinked = FALSE
  Budgets <- UnsavedPause
SPECIFICATION Spec
CHECK_DEADLOCK FALSE
INVARIANTS
  PausedEvenUnsaved
