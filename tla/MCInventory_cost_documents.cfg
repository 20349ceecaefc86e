SPECIFICATION Spec
CONSTANTS
    Product <- MCProduct1
    Warehouse = {w1}
    Txn = {t1, t2}
    Reservation = {}
    Transfer = {}
    Key = {}
    NoKey = NoKey
    NoDoc = NoDoc
    Quantity = {1}
    UnitCost = {2, 5}
    AllowNegative = FALSE
    Offered <- DocumentCostOps
    SweepLimit = 2
    MaxMovements = 2
PROPERTIES
    CostFollowsReceipts
CHECK_DEADLOCK FALSE
