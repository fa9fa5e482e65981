CONSTANTS
  Device <- Pair
  Edge <- TwoEdges
  Opposite <- Sides
  None = None
  Repeats = 1
  Budgets <- TwoPushes
SPECIFICATION Spec
CHECK_DEADLOCK FALSE
INVARIANT
  NobodyIsCaptive
