CONSTANTS
  Edge <- TwoEdges
  None = None
  Budgets <- OnlyEnters
SPECIFICATION FairSpec
CHECK_DEADLOCK FALSE
PROPERTIES
  LockAlwaysEnds
