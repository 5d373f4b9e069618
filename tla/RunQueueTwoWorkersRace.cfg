SPECIFICATION FairSpec
CONSTANTS
    r1 = r1 r2 = r2 r3 = r3 o1 = o1 o2 = o2 w1 = w1 w2 = w2
    NoRun = NoRun
    Runs = {r1, r2}
    Orgs = {o1}
    Workers = {w1, w2}
    Tiers = {"free", "team"}
    MaxLosses = 0
    RunOrg <- PairOrg
    Origin <- ApiOrigin
    MaxConcurrent <- TwoTierLimit
    Priority <- TwoTierPriority
PROPERTIES
    LinearProgression
