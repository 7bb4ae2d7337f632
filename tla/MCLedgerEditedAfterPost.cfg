SPECIFICATION Spec
CONSTANTS
    Entries = {e1, e2}
    NoEntry = NoEntry
    Periods = {p1}
    NoPeriod = NoPeriod
    cash = cash
    sales = sales
    Accounts = {cash, sales}
    Inputs <- SaleAndOneSided
    Bookkeepers = {t1}
    Managers = {m1}
    Editors = {u1}
    Author = Author
    Free = Free
SYMMETRY Symmetry
INVARIANT PostedBalanced
