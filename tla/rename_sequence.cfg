CONSTANTS
  Device <- One
  None = None
  SeenLimit = 3
  Reach <- NoReach
  StartLinked = FALSE
  Budgets <- CopyCrash
SPECIFICATION SpecRename
CHECK_DEADLOCK FALSE
INVARIANTS
  SequenceUnique
