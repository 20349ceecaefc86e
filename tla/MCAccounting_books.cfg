SPECIFICATION Spec
CONSTANTS
    cash = cash
    sales = sales
    petty = petty
    Account = {cash, sales, petty}
    Default = {cash, sales}
    Period = {p1, p2}
    FirstPeriod = p1
    LastDate = 2
    FirstYearEnd = 1
    Document = {d1}
    Lines <- Requested
    Entry = {e1, e2, e3}
    Session = {s1, s2}
    None = None
    AccountType <- Types
SYMMETRY Symmetric
INVARIANTS
    ReversalsCancel
PROPERTIES
    LockedPeriodIsFrozen
    LockedReportsStand
CHECK_DEADLOCK FALSE
