CONSTANTS
  Edge <- TwoEdges
  None = None
  Budgets <- AllScenarios
SPECIFICATION FairSpec
CHECK_DEADLOCK FALSE
INVARIANTS
  OneEdgeOwnsInput
  CapturedIsLent
PROPERTIES
  LockEnds
