SPECIFICATION Spec
CONSTANTS
    Request = {r1, r2}
    Channel = {email}
    Key = {k1}
    Worker = {}
    NoKey = NoKey
    NoRequest = NoRequest
    NoWorker = NoWorker
    Never = Never
    Expiry = {}
    MaxRequests = 2
    WindowTicks = 2
    TicksPerSecond = 2
    DefaultTtl = 2
    Attempts = 2
    MaxStalled = 1
    MaxTime = 0
    MaxFaults = 1
INVARIANT
    DuplicateIsCovered
CHECK_DEADLOCK FALSE
