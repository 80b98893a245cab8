SPECIFICATION Spec
CONSTANTS
    Request = {r1, r2}
    Channel = {email, sms}
    Key = {}
    Worker = {w1}
    NoKey = NoKey
    NoRequest = NoRequest
    NoWorker = NoWorker
    Never = Never
    Expiry = {}
    MaxRequests = 2
    WindowTicks = 2
    TicksPerSecond = 2
    DefaultTtl = 2
    Attempts = 2
    MaxStalled = 1
    MaxTime = 0
    MaxFaults = 0
INVARIANT
    SentRowsAreDelivered
CHECK_DEADLOCK FALSE
