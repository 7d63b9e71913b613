SPECIFICATION Spec
CONSTANTS
  Threads = {t1, t2, t3}
  InitialCount = 1
  MaxDeficit = 2
  MaxCount = 2
INVARIANTS
  CountQueueInSync
PROPERTIES
  KeepsPromise
