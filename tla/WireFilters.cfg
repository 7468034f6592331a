SPECIFICATION Spec
CONSTANTS
    Messages <- Sent
    Requests <- Asked
CHECK_DEADLOCK FALSE
INVARIANTS
    SportOtherIsApart
    SportIsCovered
    EveryWireHasATab
    DotCopyIsApart
    SportReachesItsTab
    ScoresDivide
PROPERTIES
    BackfillsOnlyReveal
