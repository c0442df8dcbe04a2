SPECIFICATION Spec
CONSTANTS
    IntMin <- MCIntMin
    IntMax = 15
    MaxMagnitude = 3
    MinMagnitude <- MCMinMagnitude
    MaxBinName = 4
    Keys <- MCKeys
    Starts <- MCStarts
    Routes <- MCRoutes
    DefaultSet = "redis"
    ValueBin <- MCValueBin
    Unset = Unset
INVARIANTS
    NothingIllegalStored
    ScalarsExact
    SameRouteKeptApart
    NoElementLost
