CONSTANTS
  t1 = t1
  t2 = t2
  a = a
  b = b
  Nobody = Nobody
  Someone = Someone
  Transfer <- One
  Name <- Names
  Manifest <- TwoFiles
  Budgets <- LossesOrCancels
SPECIFICATION FairSpec
CHECK_DEADLOCK FALSE
INVARIANTS
  StopAndWait
  CompletedIsPlaced
  PlacedIsWhole
  PartsAreCleanedUp
  NobodyIsLeftWaiting
PROPERTIES
  SenderEnds
