CONSTANTS
  None = None
  Budgets <- AllScenarios
SPECIFICATION FairSpec
CHECK_DEADLOCK FALSE
INVARIANTS
  NoEcho
PROPERTIES
  CopiesAreReported
