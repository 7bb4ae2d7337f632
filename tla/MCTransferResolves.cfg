SPECIFICATION MCFairSpec
CONSTANTS
    a1 = a1
    a2 = a2
    r1 = r1
    r2 = r2
    NoAttempt = NoAttempt
    Attempts = {a1, a2}
    Requests = {r1, r2}
    RequestOf <- DistinctRequests
    Deliveries = {d1}
    MayCrash = FALSE
    MaxOpen = 2
PROPERTY TransferResolves
