CONSTANTS
    broad = broad
    narrow = narrow
    NoCursor = NoCursor
    NoData = NoData
    NoItem = NoItem
    NoReply = NoReply
    Items = {1, 2, 3, 4, 5}
    Queries = {broad, narrow}
    Matches <- Matching
    Time <- Stamps
    Rows <- Joined
    PageSize = 3
    CountCap = 4
    Initially <- Beginnings
    MaxRequests = 2
    MaxActs = 3
    MaxFailures = 1
SPECIFICATION FairSpec
CHECK_DEADLOCK FALSE
INVARIANTS
    TypeOK
    NoDuplicates
    ResultsMatchQuery
    NewestFirst
    NoHoles
    OlderReachable
PROPERTIES
    FeedFollows
