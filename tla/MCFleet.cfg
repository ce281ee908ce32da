SPECIFICATION Spec
CONSTANTS
    a = a
    b = b
    d = d
    Targets = {a, b, d}
    Disabled = {d}
    Tagged = {a, b}
    Stranger = x
    Lists <- MCLists
    MaxCalls = 2
    MaxFaults = 1
INVARIANTS EntriesTrue QuorumHonest LocksMatchTasks
PROPERTY FanOutReturns
CHECK_DEADLOCK FALSE
