SPECIFICATION DocumentsSpec
CONSTANTS
    Doc = {d1}
    Indexer = {w1, w2}
    Scan = TRUE
    MaxRetries = 1
    MaxCleanupRetries = 1
    MaxReindexes = 1
    MaxFaults = 3
INVARIANTS
    SearchIsSound
PROPERTIES
    DeletedLeavesNoVectors
    EveryTaskEnds
CHECK_DEADLOCK FALSE
