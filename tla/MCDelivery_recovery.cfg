SPECIFICATION Spec
CONSTANTS
    c1 = c1
    c2 = c2
    Condition = {c1}
    Evaluations <- Prompt
    Suppressions <- OnlySent
    MaxRuns = 3
    CounterCap = 2
INVARIANT RecoveryReported
