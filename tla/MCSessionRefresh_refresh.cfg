SPECIFICATION FairSpec
CONSTANTS
    Fetch = {r1, r2}
    RefreshTimeout = 2
    LockTTL = 3
    WaitBudget = 4
    TenantSelected = TRUE
    MaxExpiries = 1
    MaxCrashes = 1
    None = None
INVARIANTS
    RotatedOnce
    SessionSurvives
PROPERTIES
    RevokedMintsNothing
    EveryRequestEnds
CHECK_DEADLOCK FALSE
