\* The swap fails once the write-ahead log is gone.
SPECIFICATION Spec
CONSTANTS
    Writes = {w1}
    w1 = w1
    MaxRestores = 1
    MaxFaults = 2
    MaxCrashes = 1
    SwapFaults = TRUE
INVARIANTS
    OriginalRestored
CHECK_DEADLOCK FALSE
