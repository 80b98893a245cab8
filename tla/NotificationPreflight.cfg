SPECIFICATION Spec
CONSTANTS
    Request = {r1, r2}
    Channel = {email}
    Key = {k1}
    Worker = {}
    NoKey = NoKey
    NoRequest = NoRequest
    NoWorker = NoWorker
    Never = Never
    Expiry = {3, 5}
    MaxRequests = 1
    WindowTicks = 2
    TicksPerSecond = 2
    DefaultTtl = 2
    Attempts = 1
    MaxStalled = 0
    MaxTime = 5
    MaxFaults = 1
SYMMETRY Symmetry
INVARIANTS
    TypeOK
    AtMostOneLiveJobPerKey
    KeyHolderIsAccountable
CHECK_DEADLOCK FALSE
