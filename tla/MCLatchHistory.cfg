SPECIFICATION Spec
CONSTANTS
    Evaluations <- Streaks
    Suppressions = {FALSE, TRUE}
    MaxRuns = 6
    CounterCap = 2
INVARIANTS
    LatchFollowsHistory
    EpisodesAreAnnouncedOnce
CHECK_DEADLOCK FALSE
