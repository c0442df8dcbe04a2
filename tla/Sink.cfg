SPECIFICATION Spec
CONSTANTS
    t1 = t1
    t2 = t2
    k1 = k1
    k2 = k2
    a = a
    b = b
    Threads = {t1, t2}
    Keys = {k1, k2}
    Bins = {a, b}
    Inputs <- MCInputs
    Policies = {"update", "replace", "create_only"}
    MaxBatch = 2
    MaxCalls = 2
SYMMETRY Symmetry
INVARIANTS
    OneCommandPerKey
    AnswersTruthful
    CreateOnlyTruthful
    CollapseMatchesSequential
    RerunConverges
