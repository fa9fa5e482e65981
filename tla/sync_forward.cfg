CONSTANTS
  Device <- Four
  None = None
  SeenLimit = 3
  Reach <- LassoReach
  StartLinked = TRUE
  Budgets <- OneCopy
SPECIFICATION FairSpec
CHECK_DEADLOCK FALSE
PROPERTIES
  EventReachesAll
  ForwardingEnds
