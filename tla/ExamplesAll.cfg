SPECIFICATION ExampleFairSpec
CONSTANTS
  MaxCmds = 4
  MaxConnects = 3
  MaxDisconnects = 2
  MaxDrops = 1
  Transports = {"tcp"}
  DisconnectPoints = {"loop", "connectErr", "unexpected", "readErr", "parseErr", "writeErr"}
  Roles = {"publisher", "subscriber", "worker", "announcer", "listener", "chain",
           "benchmark", "soloWorker", "fetcher"}
CHECK_DEADLOCK FALSE
INVARIANTS RunsOn Watched ThrowsOnLoss
PROPERTY Recovers
