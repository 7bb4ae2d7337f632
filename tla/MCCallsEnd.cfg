SPECIFICATION FairSpec
CHECK_DEADLOCK FALSE
CONSTANTS
    t1 = t1
    t2 = t2
    Threads = {t1, t2}
    May <- BothMove
    Invoices = {i1, i2}
    Payments = {p1}
    Allocations = {a1, a2, a3}
    NoAllocation = NoAllocation
    Amounts = {1}
    Free = Free
INVARIANT NumbersGapless
PROPERTY CallsEnd
