SPECIFICATION Spec
CONSTANTS
    c1 = c1
    c2 = c2
    c3 = c3
    Call = {c1, c2, c3}
    Kind = {"save", "restore"}
    AbortReq = AbortReq
    MaxAborts = 1
INVARIANTS
    TypeOK
    NoAnswerLeftOver
    AnswersTakenOnce
    LoneCallGetsItsAnswer
    NoLostWakeup
PROPERTY CallsReturn
CHECK_DEADLOCK FALSE
