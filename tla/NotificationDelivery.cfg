SPECIFICATION FairSpec
CONSTANTS
    Request = {r1}
    Channel = {email}
    Key = {}
    Worker = {w1, w2}
    NoKey = NoKey
    NoRequest = NoRequest
    NoWorker = NoWorker
    Never = Never
    Expiry = {1}
    MaxRequests = 1
    WindowTicks = 2
    TicksPerSecond = 2
    DefaultTtl = 2
    Attempts = 2
    MaxStalled = 1
    MaxTime = 1
    MaxFaults = 3
INVARIANTS
    SendsBounded
    DuplicatesNeedFaults
    SuccessIsReal
    SettledIsAnnounced
PROPERTY
    KeepsContract
CHECK_DEADLOCK FALSE
