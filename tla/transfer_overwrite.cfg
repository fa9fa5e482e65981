CONSTANTS
  t1 = t1
  t2 = t2
  a = a
  b = b
  Nobody = Nobody
  Someone = Someone
  Transfer <- Both
  Name <- Names
  Manifest <- SameName
  Budgets <- Undisturbed
SPECIFICATION Spec
CHECK_DEADLOCK FALSE
PROPERTIES
  NeverOverwritten
