CONSTANTS
    DnsPolls = 2
    BufSize = 3
    CounterMax = 3
SPECIFICATION FairSpec
INVARIANTS
    TypeOK
    NoLeak
    PassCountIsTrue
    ReadyTracksLink
PROPERTIES
    OutageKeepsCounting
    LinkLeadsToRequests
