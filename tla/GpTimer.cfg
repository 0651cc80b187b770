SPECIFICATION FairSpec
CONSTANTS
    NTimers = 2
    Watchdog = TRUE
    MaxDelay = 5
    MaxWrites = 3
INVARIANTS
    TypeOK
    Armed
    NoAlarmLost
PROPERTIES
    StartedByPredecessor
    Underflows
