\* A replacement that could not be proven.
SPECIFICATION Spec
CONSTANTS
    Writes = {w1}
    w1 = w1
    MaxRestores = 1
    MaxFaults = 1
    MaxCrashes = 1
    SwapFaults = FALSE
INVARIANTS
    ChangeIsReported
CHECK_DEADLOCK FALSE
