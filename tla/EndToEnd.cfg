SPECIFICATION EndToEndSpec
CONSTANTS
    w1 = w1
    w2 = w2
    k1 = k1
    k2 = k2
    Workers = {w1, w2}
    Keys = {k1, k2}
    STOP = STOP
    NoRecord = NoRecord
    NumRecords = 3
    QueueSize = 0
    WriteBatchSize = 2
    CreateOnly = FALSE
    PrepOutcomes <- PrepareEnds
    MaxChanges = 1
    MaxRestarts = 1
INVARIANTS
    NeverStale
    CleanRunCopiesAll
    LastReadWins
SYMMETRY Interchangeable
