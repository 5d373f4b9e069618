SPECIFICATION FairSpec
CHECK_DEADLOCK FALSE
CONSTANTS
    Tasks = {1, 2}
    MaxClarifications = 1
    MaxLoops = 2
    MaxReviewRounds = 2
    MaxDelegates = 2
    MaxSessions = 2
    MaxTroubles = 1
    NoTask = 0
INVARIANTS
    BudgetOvershoot
    MergedTipsApproved
    MergedOnce
    CompleteIsComplete
PROPERTIES
    RunsFollowBoard
    RunEnds
