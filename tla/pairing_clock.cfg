CONSTANTS
  Device <- PairOfDevices
  None = None
  MaxStreams = 1
  Budgets <- OneDaemon
SPECIFICATION Spec
CHECK_DEADLOCK FALSE
PROPERTY PairingOnlyAddsPeers
