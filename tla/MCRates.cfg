SPECIFICATION Spec
CONSTANTS
    Member = {"a", "b"}
    Traffic <- Patterns
    Attendance <- Attending
    Steps = {0, 1, 3}
    Retention = {3, 6}
    Migrated <- OldStates
    Hour <- Hours
    HourLength = 4
    Phase <- Phases
    MaximumGap = 2
    Learning = 2
    MinimumWindows = 1
    MinimumQueries = 2
    MaxCounter = 6
    Scale = 12
    MaxRuns = 3
INVARIANTS
    NeverOvercounts
    NoWindowBridgesABarrier
    VerdictsAreSupported
    AlarmsAreExceptional
CHECK_DEADLOCK FALSE
