SPECIFICATION Spec
CONSTANTS
    t1 = t1
    t2 = t2
    t3 = t3
    Threads = {t1, t2, t3}
    Rate = 2
    WriteBatchSize = 3
    Requests = {1, 3}
    MaxTime = 5
SYMMETRY Symmetry
INVARIANTS
    TypeOK
    RateRespected
    NoEarlyReturn
    WaitBounded
