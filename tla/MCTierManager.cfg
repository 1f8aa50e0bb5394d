SPECIFICATION FairSpec
CONSTANTS
    c1 = c1
    c2 = c2
    NoTurn = NoTurn
    Conv <- MCConv
    Turn <- MCTurn
    Capacity = 2
    MaxSnapshots = 1
    WarmTimeout = 1
    ColdRetention = 2
    MaxSaves = 3
    Feature <- MCAll
INVARIANTS
    TypeOK
    PooledIsWarm
PROPERTIES
    LeavesPoolForDisk
    PoolNeverRegresses
    UnusedIsDemoted
