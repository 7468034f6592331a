CONSTANTS
    Items = {1, 2}
    Frequency = 4
    MaxAge = 10
    Timeout = 4
    Lateness = 1
    Retention = 12
    PageSize = 1
    MaxFaults = 2
SPECIFICATION Spec
INVARIANTS
    TwoChances
    ExpiryLosesNothing
    StopsLate
CHECK_DEADLOCK FALSE
