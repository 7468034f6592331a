CONSTANTS
    Filters = {{"null", "older", "newer", "now"}, {"older", "newer", "now"}, {"newer", "now"}, {"null"}, {"older"}}
    Limit = 5
    BatchSize = 2
    Stored = 4
    MaxId = 5
    MaxDeleted = 2
SPECIFICATION Spec
CHECK_DEADLOCK FALSE
INVARIANTS
    MissesAtMostDeleted
    NoneTwice
