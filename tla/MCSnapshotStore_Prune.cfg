SPECIFICATION Spec
CONSTANTS
    b1 = b1
    Turn <- MCThreeTurns
    Branch = {}
    Thread <- MCScheduler
    Exclusive = TRUE
    MaxSnapshots = 1
    MaxSaves = 4
    Feature <- MCNone
PROPERTIES
    PruneKeepsMostRecent
CHECK_DEADLOCK FALSE
