SPECIFICATION FairSpec
CONSTANTS
  Threads = {t1, t2, t3}
  Size = 1
  WaitTimeout = TRUE
  Lifetime = TRUE
  Hosts = {"a", "b"}
  Seconds = {"move", "clone"}
INVARIANTS TypeOK WithinSize NoLostWakeup
PROPERTIES HandsOutGood WaitEnds
