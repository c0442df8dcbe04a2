SPECIFICATION Spec
CONSTANTS
    k1 = k1
    k2 = k2
    Keys = {k1, k2}
    Types = {"list", "stream"}
    Modes = {FALSE, TRUE}
    BatchSize = 2
    MaxPage = 2
    MaxPages = 2
    MaxStream = 3
    MaxWrites = 2
SYMMETRY Symmetry
INVARIANTS
    ValuesFit
    SteadyKeysExact
