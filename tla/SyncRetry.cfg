SPECIFICATION Spec
CONSTANTS
  MaxCmds = 1
  MaxBatch = 1
  MaxConnects = 2
  MaxCloses = 0
  MaxDrops = 0
  Timeouts = {}
CHECK_DEADLOCK FALSE
INVARIANTS ConnectReported
