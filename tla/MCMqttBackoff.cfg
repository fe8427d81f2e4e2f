CONSTANTS
    DnsPolls = 0
    EchoThreshold = 2
    MaxMsgs = 0
    MaxSubFails = 0
    MaxRetry = 40
SPECIFICATION Spec
INVARIANT BackoffNeverBelowBase
