SPECIFICATION MCSpec
CONSTANTS
    a1 = a1
    a2 = a2
    r1 = r1
    r2 = r2
    NoAttempt = NoAttempt
    Attempts = {a1, a2}
    Requests = {r1, r2}
    RequestOf <- DistinctRequests
    Deliveries = {d1, d2}
    MayCrash = TRUE
    MaxOpen = 2
SYMMETRY Symmetry
INVARIANTS
    TypeOK
    OneHolder
    BridgeHoldsTheCall
PROPERTIES
    BridgeSettles
    EndedForGood
    OnlyOwnActorsRelease
    OwnershipSpec
