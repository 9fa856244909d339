SPECIFICATION Spec
CONSTANTS
    c1 = c1
    c2 = c2
    Condition = {c1, c2}
    Evaluations <- Prompt
    Suppressions <- OnlySent
    MaxRuns = 3
    CounterCap = 2
SYMMETRY Conditions
INVARIANTS
    TypeOK
    OutboxBacksLatches
    NoReplay
    InFlightIsRecoverable
    ToldByOneRun
PROPERTIES
    DecidedStays
    ReportsKeepTheirHistory
