CONSTANTS
    JOB_SLOTS = 2
    w1 = w1
    w2 = w2
    Workers = {w1, w2}
    MaxJobs = 3
    MaxPolls = 1
    MaxBreaks = 1
    ReturnCodes = {20}
    SandboxedJobs = {2}
SPECIFICATION Spec
CONSTRAINT ShutdownBound
SYMMETRY WorkerSymmetry
INVARIANTS
    OnlyLateJobsOutliveTable
    TypeOK
    SlotStaysWithProcess
    ExitedRecordIsTrue
    RepliesAreTrue
    EmptyOutputOnlyWhenDropped
    NoOrphanFiles
CHECK_DEADLOCK FALSE
