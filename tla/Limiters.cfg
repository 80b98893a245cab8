\* Every algorithm over both stores: two callers, two requests per three ticks, one fault.
CONSTANTS
    c1 = c1
    c2 = c2
    None = None
    Call <- MCCall
    Limit = 2
    Window = 3
    Second = 2
    Limiters <- MCLimiters
    MaxDelay = 1
    MaxFaults = 1
SPECIFICATION Spec
INVARIANT TypeOK
INVARIANT LoneWithinLimit
INVARIANT RetryAfterIsEnough
SYMMETRY Symmetry
CHECK_DEADLOCK FALSE
