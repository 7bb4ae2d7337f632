SPECIFICATION MCSpec
CHECK_DEADLOCK FALSE
SYMMETRY Symmetry
CONSTANTS
    a1 = a1
    a2 = a2
    b1 = b1
    b2 = b2
    e1 = e1
    e2 = e2
    person = person
    field = field
    stage3 = stage3
    request = request
    Companies = {company}
    People = {person}
    Deals = {deal}
    Stages = {b1, b2, stage3}
    PipelineOf <- MCPipelineOf
    Users = {user}
    Items = {item}
    Fields = {field}
    AppliesTo <- MCAppliesTo
    CrmRequests = {a1, a2}
    Nobody = Nobody
    Callers = {a1, a2}
    Captures = {b1, b2, e1, e2, request}
    Channel <- MCChannel
    Key <- MCKey
    Unknown = Unknown
    MaxDrafts = 3
    Imports = {a1, a2}
    FileRows = 2
    MaxCompanies = 2
    Clients = {client}
    Talks = {a1, a2}
    TalkChannels = {"sms", "call"}
    Deliveries = {b1, b2}
    Repliers = {e1, e2}
    Notices = {1, 2}
    TemplateNames = {"x", "y"}
    Nil = Nil
    MaxMessages = 2
INVARIANTS
    RecordsRefer
    ThreadsHold
PROPERTIES
    CapturedOnce
