SPECIFICATION FewSpec
CONSTANTS
    j1 = j1 j2 = j2 x1 = x1 d1 = d1 d2 = d2 once = once
    Nothing = Nothing
    Jobs = {j1, j2}
    Junk = {x1}
    Daemons = {d1}
    Drains = {once}
    MaxRetries = 2
    MaxRequeues = 1
    MaxFailures = 1
    MaxSignals = 1
SYMMETRY JobSymmetry
INVARIANTS
    OneLiveCopy
    JobsVanishByFailure
    StrandedJobsAreFailures
    RunsBounded
