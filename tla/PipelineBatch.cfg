SPECIFICATION FairSpec
CONSTANTS
    w1 = w1
    w2 = w2
    Workers = {w1, w2}
    STOP = STOP
    NoRecord = NoRecord
    NumRecords = 4
    QueueSize = 2
    WriteBatchSize = 2
    CreateOnly = TRUE
    PrepOutcomes <- NoTransformRaises
INVARIANTS
    TypeOK
    PlacedOnce
    StatsExact
    InFlightBounded
    ShutdownInOrder
    AccountedAtEnd
PROPERTIES
    KeepsPromise
    Termination
