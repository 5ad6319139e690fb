\* A crash between the active manifest and the end of its operation.
SPECIFICATION Spec
CONSTANTS
    MaxRel = 1
    MaxOps = 3
    Writes = {w1}
    w1 = w1
    Faults = {"crash"}
INVARIANTS
    ExecutablePlanTakesRelease
CHECK_DEADLOCK FALSE
