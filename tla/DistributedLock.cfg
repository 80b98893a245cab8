SPECIFICATION FairSpec
CONSTANTS
    Service = {s1, s2}
    Client = {c1}
    NoOne = NoOne
    TtlOptions = {0, 2}
    TimeoutOptions = {1}
    DefaultTtl = 1
    DefaultTimeout = 1
    RetryTicks = 1
    MaxFaults = 1
INVARIANTS
    TypeOK
    MutualExclusion
    LeaseIsHonoured
    NothingIsLeftBehind
PROPERTIES
    LockIsFreed
    EveryCallEnds
CHECK_DEADLOCK FALSE
