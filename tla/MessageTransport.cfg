SPECIFICATION FairSpec
CONSTANTS
 a = a
 b = b
 Peers = {a, b}
 Channels = {1, 2}
 Script <- OneWriter
 Encrypted = FALSE
 Pacing = TRUE
 MinWindow = 2
 InitialWindow = 2
 MaxWindow = 2
 Credit = 4
 MaxReassembly = 2
 MaxQueued = 3
 RangeLimit = 2
 IdleTicks = 6
 Closers = {a}
 MaxBurst = 2
 MaxFaults = 1
INVARIANT AcknowledgedIsKept BudgetsAreExact AckRangesAreCanonical
PROPERTY DrainsBeforeClose ImplementsDelivery EventuallyDelivered
