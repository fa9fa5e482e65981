CONSTANTS
  Device <- Pair
  Edge <- TwoEdges
  Opposite <- Sides
  None = None
  Repeats = 1
  Budgets <- AllScenarios
SPECIFICATION FairSpec
CHECK_DEADLOCK FALSE
INVARIANTS
  OneDirection
  HeldOnlyWhileBorrowed
  OnlyWayBack
  CapturedIsBorrowed
PROPERTIES
  EndReleases
  TakeoverEndsLending
  NothingHangs
