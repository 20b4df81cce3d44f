SPECIFICATION Spec
CONSTANTS
  MaxCmds = 3
  MaxConnects = 2
  MaxDisconnects = 1
  MaxDrops = 0
  Transports = {"tcp"}
  DisconnectPoints = {"loop"}
CHECK_DEADLOCK FALSE
INVARIANT QueueCleared
