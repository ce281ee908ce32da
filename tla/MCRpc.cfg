CONSTANTS
    r1 = r1
    r2 = r2
    NoReq = NoReq
    Requests = {r1, r2}
    Idempotent = {r2}
    Large = {r1}
    MaxConns = 3
    MaxNotes = 1
SPECIFICATION FairSpec
INVARIANTS
    AtMostOnce
    AnswersAreOwn
PROPERTIES
    ServiceSpec
    CallsEnd
CHECK_DEADLOCK FALSE
