SPECIFICATION FairSpec
CONSTANTS
    Threads = {"t1", "t2", "t3"}
    Scripts <- AllScripts
    Sinks = {"s1", "s2"}
    FailingSinks = {"s1"}
    ReservedKeys = {}
    InitialEntries <- OneEntry
    WriteFails = {"JSON_LINES", "SQLITE", "MEMORY_MAPPED"}
    MaxTime = 2
    MaxCrashes = 1
    MaxWorkers = 2
INVARIANT NoBatchMissed 
PROPERTY StopReturns ImplementsReplication ImplementsExpiringMap
CHECK_DEADLOCK FALSE
