SPECIFICATION Spec
CONSTANTS
  MaxCmds = 2
  MaxBatch = 1
  MaxConnects = 1
  MaxCloses = 0
  MaxDrops = 0
  Timeouts = {3}
CHECK_DEADLOCK FALSE
INVARIANTS ResultsMatch
