SPECIFICATION FairSpec
CONSTANTS
    r1 = r1
    r2 = r2
    n1 = n1
    k1 = k1
    k2 = k2
    m1 = m1
    m2 = m2
    NoId = NoId
    NoSlot = NoSlot
    Prompt = Prompt
    Id <- MCId
    Snap <- MCId
    MaxEntries = 1
    Rid <- MCRid
    NewRid <- MCNone
    Conv <- MCConv1
    Slot <- MCSlot
    MaxRunning = 2
    MaxQueued = 3
    MaxTokens = 3
    Feature <- Squeeze
INVARIANT
    NoSlotLeaks
PROPERTIES
    EveryRequestIsAdmitted
    EveryRequestCompletes
