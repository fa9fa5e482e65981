CONSTANTS
  t1 = t1
  t2 = t2
  a = a
  b = b
  Nobody = Nobody
  Someone = Someone
  Transfer <- One
  Name <- Names
  Manifest <- TwoFiles
  Budgets <- LossesOrCancels
SPECIFICATION Spec
CHECK_DEADLOCK FALSE
INVARIANTS
  NobodyEverIsLeftWaiting
