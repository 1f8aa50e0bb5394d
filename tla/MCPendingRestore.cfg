SPECIFICATION Spec
CONSTANTS
    i1 = i1
    i2 = i2
    i3 = i3
    s1 = s1
    s2 = s2
    Id <- MCId
    NoId = NoId
    Snap <- MCSnap
    MaxEntries = 2
INVARIANTS
    TypeOK
    AliasesResolve
    EntryStaysReachable
    OneEntryPerConversation
    HydratedStateIsOwn
PROPERTIES
    StageEvictsOnlyRelated
    HydratedSurvivesNextStaging
