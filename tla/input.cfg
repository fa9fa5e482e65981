CONSTANTS
  None = None
  WindowSize = 2
  MaxPending = 1
  Budgets <- AllScenarios
SPECIFICATION FairSpec
CHECK_DEADLOCK FALSE
INVARIANTS
  PendingOnlyWithoutSession
PROPERTIES
  OnceWhileSessionLasts
  OnlyOldRefused
  HelloAnswered
