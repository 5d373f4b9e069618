SPECIFICATION FairSpec
CONSTANTS
    j1 = j1 j2 = j2 x1 = x1 d1 = d1 d2 = d2 once = once
    Nothing = Nothing
    Jobs = {j1}
    Junk = {}
    Daemons = {d1, d2}
    Drains = {}
    MaxRetries = 1
    MaxRequeues = 1
    MaxFailures = 0
    MaxSignals = 0
INVARIANTS
    NoTwoWorkersSameJob
