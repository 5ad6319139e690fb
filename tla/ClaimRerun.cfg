\* A crash while a recovery takes over from another recovery.
SPECIFICATION Spec
CONSTANTS
    MaxRel = 1
    MaxOps = 4
    Writes = {w1}
    w1 = w1
    Faults = {"crash"}
INVARIANTS
    RecoverCanBeRerun
CHECK_DEADLOCK FALSE
