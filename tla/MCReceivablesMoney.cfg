SPECIFICATION Spec
CHECK_DEADLOCK FALSE
CONSTANTS
    t1 = t1
    t2 = t2
    Threads = {t1, t2}
    May <- AllocateAgainstAll
    Invoices = {i1, i2}
    Payments = {p1, p2}
    Allocations = {a1, a2, a3}
    NoAllocation = NoAllocation
    Amounts = {1, 2}
    Free = Free
SYMMETRY Symmetry
INVARIANTS
    TypeOK
    MoneyConserved
PROPERTIES
    MovesAtOnce
