SPECIFICATION Spec
CONSTANTS
    t1 = t1
    t2 = t2
    t3 = t3
    t4 = t4
    Threads = {t1, t2}
    NoThread = NoThread
    Strategy = "WRITER_PRIORITY"
    MaxTicket = 3
    Calls <- AllCalls
    StoreBuffering = FALSE
    Faults = {}
INVARIANT MutualExclusion
