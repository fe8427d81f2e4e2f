SPECIFICATION FairSpec
CONSTANTS
    DnsPolls = 2
    PostCoredumpOnConnect = TRUE
INVARIANT TypeOK
INVARIANT PersistIsGuarded
INVARIANT NoGarbageRestored
INVARIANT PersistRestoreApart
INVARIANT UploadNotLost
PROPERTY ConnectLeadsToUpload
PROPERTY GuardStrandedByCancelOnly
