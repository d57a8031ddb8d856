SPECIFICATION FairSpec
CONSTANTS
 RetryCookies = TRUE
 MaxAttempts = 3
 KeepTicks = 4
 Updaters = {"client"}
 Closers = {"client"}
 MaxEpoch = 2
 MaxFaults = 2
INVARIANT ConnectedMeansAccepted EpochsAgree
PROPERTY ImplementsKeyUpdate HandshakeEnds 
