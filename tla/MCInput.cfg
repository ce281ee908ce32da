SPECIFICATION InputSpec
CONSTANTS
    w1 = w1
    w2 = w2
    Workers = {w1, w2}
    INPUT_MAX_EVENTS = 8
    INPUT_MAX_BUDGET_MS = 10
    Delays = {0, 2}
    BUTTON_MS = 1
    Texts = {1, 4, 5}
    Chords <- MCChords
    Clicks = {2}
    Steps = {1, 5}
    Wheel = {6}
    max_events = 10
    allow_drag = TRUE
    MaxCalls = 3
    MaxKills = 1
SYMMETRY WorkerSymmetry
INVARIANT NothingStaysHeld
CHECK_DEADLOCK FALSE
