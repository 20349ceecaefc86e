SPECIFICATION Spec
SYMMETRY Sessions
CONSTANTS
    Product <- MCProduct2
    Warehouse = {w1, w2}
    Txn = {t1, t2}
    Reservation = {}
    Transfer = {x1}
    Key = {k1}
    NoKey = NoKey
    NoDoc = NoDoc
    Quantity = {1}
    UnitCost = {5}
    AllowNegative = TRUE
    Offered <- LedgerOps
    SweepLimit = 2
    MaxMovements = 2
INVARIANTS
    KeyPostsOnce
    TransferMovesEachLineOnce
CHECK_DEADLOCK FALSE
