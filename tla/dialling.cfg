CONSTANTS
  Device <- Pair
  Slot <- ThreeSlots
  None = None
  Budgets <- AllScenarios
SPECIFICATION FairSpec
CHECK_DEADLOCK FALSE
INVARIANTS
  OneLoopPerPeer
PROPERTIES
  Reconnects
