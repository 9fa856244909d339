SPECIFICATION Spec
CONSTANTS
    t1 = t1
    t2 = t2
    t3 = t3
    Target = {t1, t2, t3}
    TargetConcurrency = 2
    MinimumComplete = 2
    MaxRetry = 2
INVARIANTS
    CooldownRespected
    RejectionStaysActive
    ExitIsHonest
PROPERTY RejectedIsAskedAgain
