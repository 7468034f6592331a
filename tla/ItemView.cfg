SPECIFICATION FairSpec
CONSTANTS
    Wires = {1, 2}
    MaxPages = 2
    MaxRequests = 2
    MaxActs = 4
    MaxOthers = 1
    MaxFailures = 1
CHECK_DEADLOCK FALSE
INVARIANTS
    SentMeansStored
    LinkedPagesAreTheirs
    OrphansAreFailures
    ShownIsOpen
    TastedAsStored
PROPERTIES
    LinksConverge
    SendSettles
