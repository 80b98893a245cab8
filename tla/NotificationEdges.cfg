SPECIFICATION Spec
CONSTANTS
    MaxAttempts = 3
    User = {u1, u2}
    Chat = {c1, c2}
    Update = {p1, p2}
    None = None
    MaxTokens = 2
    MaxFaults = 2
INVARIANTS
    TypeOK
    JobsEndRightly
    LinksAreSound
PROPERTIES
    KeepsContract
    SentTokenIsTaken
CHECK_DEADLOCK FALSE
