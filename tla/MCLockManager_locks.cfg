SPECIFICATION FairSpec
CONSTANTS
  Runs = {r1, r2, r3}
  TTL = 1
  Concurrent = FALSE
  NoRun = NoRun
INVARIANT Mutex
PROPERTY OrphanRecovered
