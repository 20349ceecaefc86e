SPECIFICATION Spec
CONSTANTS
    goods = goods
    Product = {goods}
    Tracked = {goods}
    Warehouse = {w1, w2}
    AllowNegative = TRUE
    LastDate = 2
    OpenDates = {1, 2}
    Spans <- Quarters
    Scale = 10
    CostScale = 2
    OpeningStock = 0
    OpeningCost = 0
    Customer = {c1}
    SalesBasket <- Sold
    Receipts = {6}
    Methods = {"CARD"}
    MaxQuotations = 1
    MaxOrders = 1
    MaxPayments = 1
    MaxNotes = 2
    Supplier = {s1}
    PurchaseBasket <- Bought
    Overrides = {5}
    MaxPurchaseOrders = 1
    MaxSupplierPayments = 1
    MaxDocuments = 6
SYMMETRY Interchangeable
INVARIANTS
    SubledgersAgree
    CountersMatchDocuments
    OrdersTrace
    StockFollowsDocuments
    GrniClears
    VatAccountsMatchRegister
    FiledMatchesClaimed
PROPERTIES
    FilingIsFinal
CHECK_DEADLOCK FALSE
