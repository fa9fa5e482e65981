CONSTANTS
  None = None
  Budgets <- ReceivesAndMisreads
SPECIFICATION Spec
CHECK_DEADLOCK FALSE
INVARIANTS
  NeverEchoes
