\* A killed restore, and what recover says of it.
SPECIFICATION Spec
CONSTANTS
    Writes = {w1}
    w1 = w1
    MaxRestores = 1
    MaxFaults = 1
    MaxCrashes = 1
    SwapFaults = FALSE
INVARIANTS
    NoActionMeansServing
CHECK_DEADLOCK FALSE
