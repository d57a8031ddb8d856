SPECIFICATION Spec
CONSTANTS
  t1 = t1
  t2 = t2
  t3 = t3
  a = a
  b = b
  c = c
  NoThread = NoThread
  NoMutex = NoMutex
  Threads <- TwoThreads
  Mutexes <- TwoMutexes
  Recursive <- OneRecursive
  Tracked <- OneTracked
  Faults = TRUE
  MaxDepth = 2
  MaxRestarts = 2
INVARIANTS
  OwnedListIsExact
CHECK_DEADLOCK FALSE
