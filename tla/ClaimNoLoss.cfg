\* A reboot after the rollback let users in again.
SPECIFICATION Spec
CONSTANTS
    MaxRel = 1
    MaxOps = 3
    Writes = {w1}
    w1 = w1
    Faults = {"crash", "reboot"}
INVARIANTS
    NoAcknowledgedWriteLost
CHECK_DEADLOCK FALSE
