SPECIFICATION Spec
CONSTANTS
    DnsPolls = 1
    PostCoredumpOnConnect = TRUE
INVARIANT LossHasPendingPersist
