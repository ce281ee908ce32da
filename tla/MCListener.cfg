CONSTANTS
    c1 = c1
    c2 = c2
    Conns = {c1, c2}
    NoConn = NoConn
    MCPD_MAX_CLIENTS = 1
    BACKLOG = 1
    MaxBreaks = 1
SPECIFICATION FairSpec
INVARIANTS
    TypeOK
    SlotAccounting
    WorkerCap
    ReadyBeforeReachable
    SocketOwnership
PROPERTIES
    GonePeerEndsWorker
    NoWorkerParkedInFrame
CHECK_DEADLOCK FALSE
