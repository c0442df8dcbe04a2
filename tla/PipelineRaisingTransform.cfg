SPECIFICATION FairSpec
CONSTANTS
    w1 = w1
    w2 = w2
    Workers = {w1, w2}
    STOP = STOP
    NoRecord = NoRecord
    NumRecords = 3
    QueueSize = 1
    WriteBatchSize = 2
    CreateOnly = FALSE
    PrepOutcomes <- TransformMayRaise
PROPERTIES
    Termination

CHECK_DEADLOCK FALSE
