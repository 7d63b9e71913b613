SPECIFICATION Spec
CONSTANTS
  w1 = w1
  w2 = w2
  x = x
  main = main
  task = task
  Workers = {w1, w2}
  Others = {x}
  Runner = runner
  Tasks = {main, task}
  Main = main
  NoTask = NoTask
  Receivers = {task}
  Calls <- WakeCalls
  Batch = 1
  MaxEvents = 1
  MaxRuns = 2
CHECK_DEADLOCK FALSE
INVARIANT NoStall
