SPECIFICATION MCSpec
CHECK_DEADLOCK FALSE
CONSTANTS
    NSteps = 4
    Start = 1
    Editors = {r1, r2}
    Starters = {s1, s2}
    Occurrences = {o1}
    Contents = {c1}
    MaxVersions = 3
    w1 = w1
    w2 = w2
    w3 = w3
    e1 = e1
    Workflows = {w1, w2, w3}
    Events = {e1}
    Raised = Raised
    Trigger <- MCTrigger
    Type <- MCType
    Raises <- MCRaises
    Holds <- MCHolds
    Threads = {t1, t2}
    Interval = 2
    MaxTime = 2
    Agencies = {ag1}
    Clients = {cl1}
    Invitations = {iv1, iv2}
    Invitees = {x1, x2}
    Pipelines = 2
    Attaches = {at1, at2}
    Reseller = rs1
    Buyers = {by1}
    Offers = {of1, of2}
    OfferKeys = {ok1}
    Purchases = {pu1, pu2}
    BuyKeys = {bk1}
    PlatformPlan = gold
    TopLevel = 2
    Quotas = {1, 2}
INVARIANTS
    GraphsAreSound
    RunsFollowVersions
    ActsOnceAndSaysSo
PROPERTIES
    TenantsAreSetUp
    SoldWithinCatalog
