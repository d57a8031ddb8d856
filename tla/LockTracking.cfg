SPECIFICATION Spec
CONSTANTS
  t1 = t1
  t2 = t2
  t3 = t3
  a = a
  b = b
  c = c
  NoThread = NoThread
  NoMutex = NoMutex
  Threads <- ThreeThreads
  Mutexes <- ThreeMutexes
  Recursive <- None
  Tracked <- None
  Faults = FALSE
  MaxDepth = 1
  MaxRestarts = 0
INVARIANTS
  BlockedArePublished
  OwnerIndexIsCurrent
PROPERTIES
  DetectorIsExact
  FalseReportNeedsAbandonedWait
SYMMETRY Symmetric
CHECK_DEADLOCK FALSE
