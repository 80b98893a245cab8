SPECIFICATION Spec
CONSTANTS
    k1 = k1
    k2 = k2
    c1 = c1
    c2 = c2
    s1 = s1
    s2 = s2
    s3 = s3
    ch1 = ch1
    ch2 = ch2
    Keys = {k1, k2}
    Fields = {f}
    Members <- MCMembers
    MaxLen = 1
    MaxEntries = 1
    MaxNumber = 1
    AsideKeys = {k1, k2}
    AsideCallers = {c1, c2}
    MaxVersion = 1
    MaxFailures = 0
    WatchKeys = {k1, k2}
    TxCallers = {c1, c2}
    MaxRetries = 1
    MaxWrites = 0
    Subs = {s1, s2, s3}
    ChannelOf <- MCChannelOf
    Channels = {ch1, ch2}
    MaxMessages = 1
    MaxBreaks = 0
    Requests = {r1, r2, r3}
    NoResponse = none
    MaxFaults = 0
    Sequences = 3
    MaxClock = 2
    MaxCuids = 0
INVARIANTS
    DuplicatesArePrevented
CHECK_DEADLOCK FALSE
