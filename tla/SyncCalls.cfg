SPECIFICATION ExampleFairSpec
CONSTANTS
  MaxCmds = 4
  MaxBatch = 2
  MaxConnects = 2
  MaxCloses = 1
  MaxDrops = 1
  Timeouts = {3, 2531250}
  Programs = {"any", "sync_timeout", "sync_pipeline", "sync_set_get", "sync_benchmark"}
CHECK_DEADLOCK FALSE
INVARIANTS TypeOK Quiet NeverMisled
PROPERTIES OwnReplies NoVainWait CallEnds
