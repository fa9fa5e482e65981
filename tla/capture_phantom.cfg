CONSTANTS
  Edge <- TwoEdges
  None = None
  Budgets <- OnlyUnlocks
SPECIFICATION FairSpec
CHECK_DEADLOCK FALSE
INVARIANTS
  LentIsAlwaysCaptured
