SPECIFICATION Spec
CONSTANTS
    a = a
    b = b
    Output = {a}
    Request = {r1, r2}
    r1 = r1
    r2 = r2
    Prompt <- MCPrompt
    MaxNew = 2
    MaxRunning = 2
    KvSize = 6
    MambaSize = 6
    RetractSteps = 1
    MaxArrivals = 4
    TestRetract = TRUE
INVARIANTS
    TypeOK
    
    
    SlotsAccounted
    KvAccounted
    LocksAreHeld
    ListsMatchTree
    NeverStops
PROPERTY RequestsFinish
CHECK_DEADLOCK FALSE
