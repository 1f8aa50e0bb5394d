SPECIFICATION Spec
CONSTANTS
    r1 = r1
    r2 = r2
    n1 = n1
    k1 = k1
    k2 = k2
    m1 = m1
    m2 = m2
    NoId = NoId
    NoSlot = NoSlot
    Prompt = Prompt
    Id <- MCId
    Snap <- MCId
    MaxEntries = 2
    Rid <- MCRid
    NewRid <- MCNone
    Conv <- MCConv1
    Slot <- MCSlot
    MaxRunning = 2
    MaxQueued = 2
    MaxTokens = 2
    Feature <- OnlyRefuse
INVARIANT
    RestoredStateIsUsed
CHECK_DEADLOCK FALSE
