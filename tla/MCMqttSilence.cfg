CONSTANTS
    DnsPolls = 0
    EchoThreshold = 3
    MaxMsgs = 5
    MaxSubFails = 0
    MaxRetry = 1
SPECIFICATION Spec
INVARIANT SilenceIsCounted
