SPECIFICATION Spec
CONSTANTS
    r1 = r1 r2 = r2 r3 = r3 o1 = o1 o2 = o2 w1 = w1 w2 = w2
    NoRun = NoRun
    Runs = {r1, r2, r3}
    Orgs = {o1, o2}
    Workers = {w1}
    Tiers = {"free", "team"}
    MaxLosses = 1
    RunOrg <- MixedOrg
    Origin <- MixedOrigin
    MaxConcurrent <- TwoTierLimit
    Priority <- TwoTierPriority
INVARIANTS
    CheckRunsClosed
PROPERTIES
    ClaimsRespectCap
    RunsFollowLifecycle
