SPECIFICATION Spec
CONSTANTS
    k1 = k1
    k2 = k2
    Keys = {k1, k2}
    Types = {"string", "list"}
    Modes = {FALSE}
    BatchSize = 2
    MaxPage = 2
    MaxPages = 1
    MaxStream = 3
    MaxWrites = 2
INVARIANTS
    NoTtlIsTrue
