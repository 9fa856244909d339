SPECIFICATION MigrationSpec
CONSTANTS
    Condition = {"a", "b"}
    Rank <- Ranks
    Summary <- Summaries
    Limit = 3
    LegacyModes = {"live", "dry_run"}
    MaxLegacyRuns = 3
    MaxRows = 2
INVARIANTS
    LegacyClaimsAreTrue
    LegacyIsSettled
CHECK_DEADLOCK FALSE
