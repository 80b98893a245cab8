SPECIFICATION MCSpec
CONSTANTS
    j1 = j1
    j2 = j2
    Job = {j1, j2}
    Direct = {d1}
    kind <- MCKind
    Inputs <- MCInputs
    NoFile = NoFile
    MaxMishaps = 1
    Calls = 2
    Totals <- MCTotals
    SameFile = {j1, j2}
    MaxAttempts = 2
    None = None
    Deployments <- MCDeployments
INVARIANTS
    TypeOK
    AnsweredUrlShowsTheFile
    NothingIsLeftBehind
    OneCopy
PROPERTIES
    KeepsContract
CHECK_DEADLOCK FALSE
