CONSTANTS
    JOB_SLOTS = 1
    w1 = w1
    w2 = w2
    Workers = {w1, w2}
    MaxJobs = 2
    MaxPolls = 1
    MaxBreaks = 0
    ReturnCodes = {0}
    SandboxedJobs = {2}
SPECIFICATION FairSpec
PROPERTY HandlersReply
CHECK_DEADLOCK FALSE
