SPECIFICATION Spec
CONSTANTS
    Normal <- Names
    Blank = " "
    Hour = 2
    Configurations <- Variants
    Files <- FilesOf
    Slug <- Slugs
    AbsolutePath = {"/state", "/secret"}
    Start = 10
    Tolerance = 1
    SlowestAnswer = 3
    MaxTime = 12
    MaxChanges = 2
INVARIANTS
    ClearMeansHeld
    CompliantIsClear
    ConditionsAreDistinct
    AcceptedIsUsable
CHECK_DEADLOCK FALSE
