CONSTANTS
    m1 = m1
    m2 = m2
    m3 = m3
    e1 = e1
    e2 = e2
    NoExternalId = NoExternalId
    NoObject = NoObject
    Messages = {m1, m2, m3}
    ExternalIds = {e1, e2}
    ExternalId <- SharedId
    Kind <- SharedKind
    MaxReceiveCount = 2
    BatchSize = 2
    QueueingConcurrency = 1
    IngestionConcurrency = 2
    MaxFaults = 1
SPECIFICATION Spec
INVARIANTS
    NoLoss
    StoryStored
    OneRowPerExternalId
    FaultTolerance
PROPERTIES
    RowsImmutable
SYMMETRY Stories
