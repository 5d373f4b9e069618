SPECIFICATION LoopsSpec
CONSTANTS
    NumRuns = 3
    Prices = {1, 3}
    Loops = {"t1", "t2"}
    NoLoop = NoLoop
    Sigma = 1
    MinBaseline = 1
    BurnMin = 2
    OrgCap = 6
    Recent = 0
    LastPass = 1
    PrRuns = {"a", "b"}
    NoCommit = NoCommit
    MaxAttempts = 2
    MaxBase = 1
    Paths = {"f", "g"}
    Contents = {"x", "y"}
    Models = {"m", "n"}
    Watch = "watch"
    Manual = "manual"
    NoRow = NoRow
    BatchSize = 2
    MaxEdits = 2
    MaxOutages = 1
    o1 = o1 q1 = q1 q2 = q2 q3 = q3 k1 = k1
    NoKey = NoKey
    NoRun = NoRun
    Requests = {q1, q2, q3}
    Orgs = {o1}
    RequestOrg <- OneOrg
    RequestKey <- RetriesAndOne
    Cap = 1
    MaxCost = 1
    Nothing = Nothing
    Jobs = {"j1"}
    Junk = {"x1"}
    Daemons = {"d1"}
    Drains = {"once"}
    MaxRetries = 2
    MaxRequeues = 1
    MaxFailures = 0
    MaxSignals = 1
CHECK_DEADLOCK FALSE
INVARIANTS
    OneLoop
    NoiseBounded
PROPERTIES
    PassesGoOn
    ReviewedBranchStays
    WatchCatchesUp
    JobsSettle
    HandledAsIfAlone
    RequestsAnswered
