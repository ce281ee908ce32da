SPECIFICATION Spec
CONSTANTS
    d1 = d1
    d2 = d2
    Calls = {d1, d2}
    None = None
    MaxFrames = 2
    MaxConns = 3
    MaxFaults = 2
SYMMETRY CallSymmetry
INVARIANTS RepliesAreOwn StepsRunOnce
CHECK_DEADLOCK FALSE
