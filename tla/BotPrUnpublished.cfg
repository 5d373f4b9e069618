SPECIFICATION BotPrSpec
CONSTANTS
    PrRuns = {"a", "b"}
    NoCommit = NoCommit
    MaxAttempts = 2
    MaxBase = 1
CHECK_DEADLOCK FALSE
INVARIANTS
    PublishedRunsHavePrs
