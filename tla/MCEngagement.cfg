SPECIFICATION MCSpec
CHECK_DEADLOCK FALSE
SYMMETRY Symmetry
CONSTANTS
    a1 = a1
    a2 = a2
    b1 = b1
    b2 = b2
    e1 = e1
    e2 = e2
    f1 = f1
    f2 = f2
    c1 = c1
    c2 = c2
    NoContact = NoContact
    Contacts = {c1, c2}
    FirstContacts <- MCFirstContacts
    PageSize = 1
    Senders = {a1, a2}
    Workers = {b1, b2}
    MaxCrashes = 1
    MaxListing = 2
    Appts = {a1, a2}
    Requests = {b1, b2}
    Sweeps = {e1, e2}
    Tokens = {f1, f2}
    None = None
    LastInstant = 2
    SlotLength = 1
    Lead = 1
    MaxSweeps = 3
    Asks = {a1, a2}
    Reviewers = {b1, b2}
    NoAsk = NoAsk
INVARIANTS
    EachRecipientOnce
    CalendarHolds
    RequestsTellTheMail
