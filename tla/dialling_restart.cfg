CONSTANTS
  Device <- Pair
  Slot <- ThreeSlots
  None = None
  Budgets <- AcceptorRestarts
SPECIFICATION FairSpec
CHECK_DEADLOCK FALSE
PROPERTIES
  AlwaysReconnects
