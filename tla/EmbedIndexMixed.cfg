SPECIFICATION IndexSpec
CONSTANTS
    Paths = {"f", "g"}
    Contents = {"x", "y"}
    Models = {"m", "n"}
    Watch = "watch"
    Manual = "manual"
    NoRow = NoRow
    BatchSize = 2
    MaxEdits = 3
    MaxOutages = 0
CHECK_DEADLOCK FALSE
INVARIANTS
    SmartContextNeverAborts
