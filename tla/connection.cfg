CONSTANTS
  Size <- Large
  Window = 2
  BusLimit = 1
  Held <- NothingOrLarge
  Publishes <- TwoAndOne
  Faults = 1
SPECIFICATION FairSpec
CHECK_DEADLOCK FALSE
INVARIANTS
  NothingSkipped
PROPERTIES
  Implements
  SentArrives
