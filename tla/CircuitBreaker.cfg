SPECIFICATION LiveSpec
CONSTANTS
    r1 = r1
    r2 = r2
    r3 = r3
    Requests <- TwoRequests
    Kinds <- AllKinds
    Threshold = 2
    HalfOpenSuccesses = 1
    MaxAttempts = 2
    Deadlines <- AnyCooldown
    Unrecorded = TRUE
INVARIANT OneProbe
PROPERTY TripsAtThreshold RecoversUnlessProbeLost
