SPECIFICATION FairSpec
CONSTANTS
  t1 = t1
  t2 = t2
  t3 = t3
  Tasks = {t1, t2, t3}
  Keys = {0, 1, 2}
  Filesystem = 0
  Program <- Mixed
  MaxInFlight = 1
  MaxRounds = 1
INVARIANTS
  TypeOK
  Exclusion
  Accounted
  NoneLeftWaiting
PROPERTIES
  InOrder
  EveryWaitEnds
