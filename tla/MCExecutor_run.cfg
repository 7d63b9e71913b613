SPECIFICATION FairSpec
CONSTANTS
  w1 = w1
  w2 = w2
  x = x
  main = main
  task = task
  Workers = {w1, w2}
  Others = {x}
  Runner = runner
  Tasks = {main, task}
  Main = main
  NoTask = NoTask
  Receivers = {task}
  Calls <- AllCalls
  Batch = 2
  MaxEvents = 2
  MaxRuns = 1
CHECK_DEADLOCK FALSE
INVARIANTS
  TypeOK
  QueuedOnce
  SoleAccess
  Counted
PROPERTIES
  ReadyPolled
  RunReturns
