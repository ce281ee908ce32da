CONSTANTS
    c1 = c1
    c2 = c2
    Calls = {c1, c2}
    NoCall = NoCall
    old = old
    dst = dst
    Paths = {old, dst}
    NoPath = NoPath
    DEFAULT_AOS_SEARCH <- Search
    DeployPath = dst
    SANDBOXVM_MAX_GUESTS = 2
    Overrides <- Named
    GuestRC <- Codes
    RetryCount = 2
    MaxLines = 3
    RingSize = 3
SPECIFICATION Spec
SYMMETRY CallSymmetry
INVARIANTS
    OutputIsOwn
    AllCleanIsTrue
CHECK_DEADLOCK FALSE
