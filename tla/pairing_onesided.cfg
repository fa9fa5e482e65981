CONSTANTS
  Device <- PairOfDevices
  None = None
  MaxStreams = 1
  Budgets <- TwoWindows
SPECIFICATION Spec
CHECK_DEADLOCK FALSE
INVARIANT TrustIsAlwaysMutual
