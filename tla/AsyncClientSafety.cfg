SPECIFICATION FairSpec
CONSTANTS
  MaxCmds = 3
  MaxConnects = 3
  MaxDisconnects = 2
  MaxDrops = 1
  Transports = {"tcp", "local"}
  DisconnectPoints <- NotInReplies
CHECK_DEADLOCK FALSE
INVARIANTS TypeOK WriteDiscipline Conveyor NoStray PopDefined OneReader
PROPERTIES PromiseSpec Answered DropReported
