SPECIFICATION FairSpec
CONSTANTS
    w1 = w1
    w2 = w2
    Workers = {w1, w2}
    STOP = STOP
    NoRecord = NoRecord
    NumRecords = 4
    QueueSize = 0
    WriteBatchSize = 0
    CreateOnly = FALSE
    PrepOutcomes <- TransformMayRaise
PROPERTIES
    Termination
