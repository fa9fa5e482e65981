CONSTANTS
  Device <- Two
  None = None
  SeenLimit = 1
  Reach <- PairReach
  StartLinked = FALSE
  Budgets <- TwoDevices
SPECIFICATION Spec
CHECK_DEADLOCK FALSE
INVARIANTS
  TypeOK
  NothingAheadOfDisk
  SequenceUnique
  AgreeWhenQuiet
  PausedHoldsNothing
  RemoteCurrentIsShown
PROPERTIES
  LocalCopyBeatsCurrent
  UnpairedGetsNothingNew
  NoEcho
