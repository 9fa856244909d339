SPECIFICATION Spec
CONSTANTS
    p1 = p1
    p2 = p2
    Process = {p1, p2}
    NoProcess = NoProcess
    Found <- Files
    Retention = {1}
    MaxTime = 2
    MaxRuns = 4
INVARIANTS
    RunsOfOneMode
    RunsInOrder
    PrintsItsOwnRun
    UpgradeHasBackup
PROPERTY OnlyTheOwnerWrites
