SPECIFICATION Spec
CONSTANTS
    c1 = c1
    c2 = c2
    Calls = {c1, c2}
    MaxPids = 2
    MaxForeign = 1
    MaxWrites = 1
    MaxCalls = 2
    MaxFaults = 1
SYMMETRY CallSymmetry
INVARIANTS StopKeepsWrites ResetReplaces NoOrphans
CHECK_DEADLOCK FALSE
