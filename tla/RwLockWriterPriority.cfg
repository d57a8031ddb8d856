SPECIFICATION Spec
CONSTANTS
    t1 = t1
    t2 = t2
    t3 = t3
    t4 = t4
    Threads = {t1, t2, t3, t4}
    NoThread = NoThread
    Strategy = "WRITER_PRIORITY"
    MaxTicket = 4
    Calls <- NoTryWrite
    StoreBuffering = FALSE
    Faults = {"INIT"}
SYMMETRY ThreadSymmetry
INVARIANTS
    MutualExclusion
    CountersAgree
    NoLostWriterWakeup
    NoStrandedReader
    ReaderPhaseLive
PROPERTIES
    WritersInTicketOrder
    OnlyPhaseReadersPass
