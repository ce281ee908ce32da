SPECIFICATION TransferSpec
CONSTANTS
    Totals = {0, 3, 5}
    ChunkSize = 2
    Retries = 1
    MaxCalls = 2
    MaxFaults = 3
INVARIANTS TransferExact ResumablePart
PROPERTY CallsEnd
CHECK_DEADLOCK FALSE
