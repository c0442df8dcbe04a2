SPECIFICATION FairSpec
CONSTANTS
    t1 = t1
    t2 = t2
    Threads = {t1, t2}
    Modes = {"reject", "clamp", "never_expire"}
    MaxTtls = {0, 2, 4}
    MaxRealTtl = 4
    PTTLs = {0, 1001, 2000, 3999, 5000}
    NoTtl = NoTtl
    Delays = {700}
    MaxTime = 1400
INVARIANTS
    TypeOK
    WarnedOnce
    ExpiryKept
    BoundaryKept
    ExpiryFollows
PROPERTIES
    OverflowReported
