SPECIFICATION SerialSpec
CONSTANTS
    c1 = c1
    c2 = c2
    Calls = {c1, c2}
    MaxReaders = 2
    MaxBytes = 1
    MaxCalls = 3
    MaxFaults = 2
SYMMETRY CallSymmetry
INVARIANTS StoppedMeansQuiet GuardedMcuIsNotWedged
CHECK_DEADLOCK FALSE
