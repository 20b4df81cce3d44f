SPECIFICATION ExampleSpec
CONSTANTS
  MaxCmds = 4
  MaxConnects = 3
  MaxDisconnects = 2
  MaxDrops = 1
  Transports = {"tcp"}
  DisconnectPoints = {"loop", "connectErr", "unexpected", "readErr", "parseErr", "writeErr"}
  Roles = {"subscriber"}
CHECK_DEADLOCK FALSE
INVARIANT SubscribeValid
