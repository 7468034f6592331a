CONSTANTS
    Filters = {{"null"}}
    Limit = 5
    BatchSize = 2
    Stored = 4
    MaxId = 4
    MaxDeleted = 0
SPECIFICATION Spec
CHECK_DEADLOCK FALSE
INVARIANT
    AllUpdated
