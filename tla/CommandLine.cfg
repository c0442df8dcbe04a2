SPECIFICATION FairSpec
CONSTANTS
    None = None
    NotMapping = NotMapping
    MaxSetName = 2
    UrlDb <- MCUrlDb
    Numbers <- MCNumbers
    Starts <- MCStarts
    NumRecords = 2
    InfoMayFail = TRUE
    MaxBeats = 2
INVARIANTS
    MigratesOnlyWhenCleared
    ExitTruthful
    CleanExit
    Precedence
    EnvironmentAgrees
PROPERTIES
    HeartbeatHonest
    MainEnds
