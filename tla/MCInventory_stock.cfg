SPECIFICATION Spec
CONSTANTS
    Product <- MCProduct1
    Warehouse = {w1}
    Txn = {t1, t2}
    Reservation = {r1, r2}
    Transfer = {}
    Key = {k1}
    NoKey = NoKey
    NoDoc = NoDoc
    Quantity = {1, 2}
    UnitCost = {1}
    AllowNegative = FALSE
    Offered <- StockOps
    SweepLimit = 2
    MaxMovements = 2
SYMMETRY Interchangeable
INVARIANTS
    NoOversell
    CachedSumsMatch
PROPERTIES
    LedgerAppendOnly
CHECK_DEADLOCK FALSE
