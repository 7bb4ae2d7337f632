SPECIFICATION MCSpec
CONSTANTS
    Entries = {e1, e2, e3}
    NoEntry = NoEntry
    Periods = {p1, p2}
    NoPeriod = NoPeriod
    cash = cash
    sales = sales
    Accounts = {cash, sales}
    Inputs <- SaleAndOneSided
    Bookkeepers = {t1, t2}
    Managers = {m1}
    Editors = {u1}
    Author = Author
    Free = Free
SYMMETRY Symmetry
INVARIANTS
    TypeOK
    ReversedOnce
PROPERTIES
    Lifecycle
    ClosedPeriodFrozen
    EntersBalanced
    EntersMirrored
    IsABook
