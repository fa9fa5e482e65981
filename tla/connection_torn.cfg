CONSTANTS
  Size <- Large
  Window = 2
  BusLimit = 2
  Held <- NothingOrLarge
  Publishes <- OneEach
  Faults = 0
SPECIFICATION FairSpec
CHECK_DEADLOCK FALSE
INVARIANT StaysInStep
