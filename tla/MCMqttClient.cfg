CONSTANTS
    DnsPolls = 1
    EchoThreshold = 1
    MaxMsgs = 3
    MaxSubFails = 1
    MaxRetry = 8
SPECIFICATION FairSpec
INVARIANTS
    TypeOK
    NotStuckConnecting
    NoGhostConnection
    EchoTimeoutOnce
    EchoTimeoutFires
    PassCountBounded
    BackoffDoublesToCap
PROPERTIES
    MismatchIsStale
    NetworkLeadsToAttempt
    OutageReachesWait
