SPECIFICATION NumberingSpec
CONSTANTS
    Document = {INV, SALE}
    Journal = {JE}
    Period = {FY26}
    Entry = {e1}
    AuditLock = audit
    MaxNumber = 2
    Txn = {t1, t2, t3}
INVARIANTS
    CirclesNeedTheAuditLock
PROPERTIES
    ImplementsGapless
CHECK_DEADLOCK FALSE
