SPECIFICATION Spec
CONSTANTS
    j1 = j1
    j2 = j2
    Job = {j1, j2}
    Direct = {}
    kind <- MCKind
    Inputs <- MCInputs
    NoFile = NoFile
    MaxMishaps = 1
    Calls = 1
    Totals <- MCTotals
    SameFile = {}
    MaxAttempts = 3
    None = None
    Deployments <- MCDeployments
INVARIANTS
    RetryHasItsFile
CHECK_DEADLOCK FALSE
