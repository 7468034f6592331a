CONSTANTS
    FeedLength = 3
    Unusable = {2}
    PageSize = 2
    Concurrency = 2
    MaxAttempts = 3
    MaxFaults = 1
    MaxOmissions = 1
    Slots = {1, 2, 3}
SPECIFICATION FairSpec
INVARIANTS
    NothingSkipped
    ChainsBounded
PROPERTIES
    KeepsGoing
    EventuallyIngested
