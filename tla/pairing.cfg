CONSTANTS
  Device <- Devices
  None = None
  MaxStreams = 3
  Budgets <- AllScenarios
SPECIFICATION Spec
CHECK_DEADLOCK FALSE
INVARIANTS
  PairedByBoth
  TrustIsMutual
