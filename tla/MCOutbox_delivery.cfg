SPECIFICATION OutboxFairSpec
CONSTANTS
    Event = {e1, e2, e3}
    Worker = {w1, w2}
    BatchSize = 2
    MaxAttempts = 2
    MaxCrashes = 1
INVARIANTS
    DuplicatesOnlyByCrash
PROPERTIES
    EveryEventSettles
CHECK_DEADLOCK FALSE
