SPECIFICATION Spec
CONSTANTS
    b1 = b1
    Turn <- MCTwoTurns
    Branch = {b1}
    Thread <- MCBoth
    Exclusive = TRUE
    MaxSnapshots = 1
    MaxSaves = 3
    Feature <- MCAll
INVARIANTS
    TypeOK
PROPERTIES
    ImplementsCatalog
    SaveIsComplete
    DeleteIsComplete
CHECK_DEADLOCK FALSE
