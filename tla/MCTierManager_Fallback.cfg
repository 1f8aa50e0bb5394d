SPECIFICATION Spec
CONSTANTS
    c1 = c1
    c2 = c2
    NoTurn = NoTurn
    Conv <- MCConv
    Turn <- MCTurn
    Capacity = 1
    MaxSnapshots = 1
    WarmTimeout = 1
    ColdRetention = 2
    MaxSaves = 2
    Feature <- MCNone
INVARIANTS
    FallsBackToDisk
