SPECIFICATION Spec
CONSTANTS
    goods = goods
    service = service
    Product = {goods, service}
    Tracked = {goods}
    Warehouse = {t1, t2}
    AllowNegative = FALSE
    LastDate = 1
    OpenDates = {1}
    Spans = {}
    Scale = 10
    CostScale = 2
    OpeningStock = 2
    OpeningCost = 3
    MaxDocuments = 0
    Request = {r1, r2}
    Terminal = {t1, t2}
    Shelf <- Shelves
    Cart <- Carts
    Floats = {1}
    Tenders = {"CASH", "CARD"}
    TenderAmounts = {4}
    Changes = {0, 2}
    Arrivals <- Deliveries
    MaxSessions = 2
    MaxSales = 1
    MaxReturns = 2
    MaxHolds = 1
    MaxArrivals = 1
SYMMETRY Interchangeable
INVARIANTS
    ClosedCountIsFinal
    RefundsWithinSale
    LedgerFollowsTills
    RefundReversesSale
CHECK_DEADLOCK FALSE
