SPECIFICATION ServicesSpec
CONSTANTS
    Customers = {"c1", "c2"}
    Subs = {"s1", "s2", "s3"}
    SubOrg <- SubOrgs
    SubTier <- SubTiers
    SubCustomer <- SubCustomers
    Nobody = Nobody
    LastMonth = 1
    MaxEvents = 3
    MaxDeliveries = 2
    Callers = {"a", "b"}
    Keys = {"k"}
    NoKey = NoKey
    Capacity = 9
    Cost = 5
    Second = 3
    Slack = 1
    LastTick = 6
    ApiKeys = {"k1", "k2"}
    Logins = {"l1"}
    Tenants = {"o1"}
    Home <- OneHome
    Admins = {"k1"}
    Strangers = {}
    Requests = {p1, p2}
    NoCred = NoCred
    MaxTrail = 3
    Shots = {p1, p2}
    Prompts = {"prompt"}
    Efforts = {"low", "max"}
    NoFile = NoFile
    NoAnswer = NoAnswer
    Empty = Empty
    Torn = Torn
    CapUsd = 2
    Costs = {2}
    MaxCost = 2
    MaxCalls = 3
    Commands = {p1, p2}
    Versions = {v1, v2}
    NoRecord = NoRecord
    Gone = Gone
    ProviderTtl = 2
    CacheTtl = 1
    LastTime = 3
    MaxSaves = 2
    MaxDrops = 1
    c1 = c1 c2 = c2 c3 = c3 c4 = c4
    Orgs = {"o1", "o2"}
    Recorders = {c1, c2, c3, c4}
    RecorderOrg <- TwoOrgs
    Hash <- HistoryHash
    Genesis <- NoHistory
    MaxClock = 3
    Posters = {"a", "b"}
    Lifetime = 5
    Buffer = 2
    LastHour = 7
SYMMETRY Alike
CHECK_DEADLOCK FALSE
INVARIANTS
    BillingFollowsStripe
    TenantsStayApart
    WindowBounded
    RetryAfterSuffices
    ConfirmedRevocationsHold
    TrailTellsCredentials
    AnswersFit
    CapHolds
    WarningsAreEarned
    UnprunedChainVerifies
    PrunedChainStaysLinked
    SnapshotsHold
    CallsAuthorised
    MintsBounded
PROPERTIES
    RecordsFollowTrail
