SPECIFICATION FairSpec
CONSTANTS
  c1 = c1
  c2 = c2
  w1 = w1
  w2 = w2
  t1 = t1
  t2 = t2
  t3 = t3
  t4 = t4
  NoTask = NoTask
  Clients <- TwoClients
  Workers <- TwoWorkers
  Tasks <- ThreeTasks
  MaxTasks = 1
  ThreadSafe = FALSE
  Nested = TRUE
  Faults = FALSE
  MaxLives = 2
INVARIANTS
  EachTaskOnce
PROPERTIES
  WaitMeansDone
  DestroyDrains
  WaitReturns
CHECK_DEADLOCK FALSE
