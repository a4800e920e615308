SPECIFICATION FairSpec
CONSTANTS
    Windows = 4
    MayRaise <- Faulty
    MayClose = TRUE
    Sentinel = Sentinel
    Failure = Failure
INVARIANTS
    TypeOK
    Handshake
    Lookahead
    NoLaunchAfterStop
PROPERTIES
    ImplementsStream
    WorkersJoin
    FailureIsReported
