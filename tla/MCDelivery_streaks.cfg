SPECIFICATION Spec
CONSTANTS
    c1 = c1
    c2 = c2
    Condition = {c1}
    Evaluations <- Streaks
    Suppressions = {FALSE, TRUE}
    MaxRuns = 4
    CounterCap = 2
INVARIANTS
    IInv
    ResolutionFollowsAlert
    ClaimsAreTrue
    ExitMatchesActivity
PROPERTY KeepsItsPromise
