SPECIFICATION Spec
CONSTANTS
    r1 = r1
    r2 = r2
    n1 = n1
    k1 = k1
    k2 = k2
    m1 = m1
    m2 = m2
    NoId = NoId
    NoSlot = NoSlot
    Prompt = Prompt
    Id <- MCId
    Snap <- MCId
    MaxEntries = 1
    Rid <- MCRid
    NewRid <- MCNew
    Conv <- MCConv2
    Slot <- MCSlot
    MaxRunning = 2
    MaxQueued = 1
    MaxTokens = 2
    Feature <- Faults
SYMMETRY Symmetry
INVARIANTS
    TypeOK
    SlotsNotShared
    StateIsOwn
    KeptStateIsUsed
    RunningWithinLimit
PROPERTY
    DecodingStateIsStable
CHECK_DEADLOCK FALSE
