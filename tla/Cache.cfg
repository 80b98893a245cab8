SPECIFICATION Spec
CONSTANTS
    k1 = k1
    k2 = k2
    c1 = c1
    c2 = c2
    s1 = s1
    s2 = s2
    s3 = s3
    ch1 = ch1
    ch2 = ch2
    Keys = {k1, k2}
    Fields = {f}
    Members <- MCMembers
    MaxLen = 2
    MaxEntries = 2
    MaxNumber = 1
    AsideKeys = {k1, k2}
    AsideCallers = {c1, c2}
    MaxVersion = 2
    MaxFailures = 1
    WatchKeys = {k1, k2}
    TxCallers = {c1, c2}
    MaxRetries = 3
    MaxWrites = 2
    Subs = {s1, s2, s3}
    ChannelOf <- MCChannelOf
    Channels = {ch1, ch2}
    MaxMessages = 2
    MaxBreaks = 1
    Requests = {r1, r2, r3}
    NoResponse = none
    MaxFaults = 1
    Sequences = 3
    MaxClock = 2
    MaxCuids = 2
SYMMETRY Symmetry
VIEW View
INVARIANTS
    TypeOK
    FreshUnlessOverlapped
    PatternIsGone
    CommitSeesNoChange
    GivesUpForAReason
    WatchesAreAccountedFor
    AcceptedIsHeardOnce
    OneHandlerAtATime
    OneResponseUnlessOvertaken
    LockIsReleased
    UniqueIds
    SortedIds
PROPERTIES
    KeepsJsStore
CHECK_DEADLOCK FALSE
