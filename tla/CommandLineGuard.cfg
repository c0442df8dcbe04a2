SPECIFICATION Spec
CONSTANTS
    None = None
    NotMapping = NotMapping
    MaxSetName = 2
    UrlDb <- MCUrlDb
    Numbers <- MCNumbers
    Starts <- GuardStarts
    NumRecords = 1
    InfoMayFail = FALSE
    MaxBeats = 0
INVARIANTS
    GuardCoversSource
