CONSTANTS
    FeedLength = 2
    Unusable = {}
    PageSize = 1
    Concurrency = 2
    MaxAttempts = 3
    MaxFaults = 1
    MaxOmissions = 0
    Slots = {1, 2, 3, 4}
SPECIFICATION Spec
INVARIANTS
    OneAtATime
