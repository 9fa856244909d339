SPECIFICATION Spec
CONSTANTS
    Member = {"a", "b"}
    Traffic <- Patterns
    Attendance <- Everyone
    Steps = {2}
    Retention = {3}
    Migrated <- NewState
    Hour <- Hours
    HourLength = 4
    Phase <- Phases
    MaximumGap = 2
    Learning = 3
    MinimumWindows = 1
    MinimumQueries = 2
    MaxCounter = 6
    Scale = 12
    MaxRuns = 3
INVARIANT
    LearnsInTime
CHECK_DEADLOCK FALSE
