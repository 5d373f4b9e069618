SPECIFICATION Spec
CHECK_DEADLOCK FALSE
CONSTANTS
    Tasks = {1}
    MaxClarifications = 1
    MaxLoops = 1
    MaxReviewRounds = 2
    MaxDelegates = 0
    MaxSessions = 1
    MaxTroubles = 0
    NoTask = 0
INVARIANT OnlyApprovedDiffsMerged
