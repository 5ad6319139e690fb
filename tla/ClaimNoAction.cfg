\* A crash between the terminal record and the release of the lock.
SPECIFICATION Spec
CONSTANTS
    MaxRel = 1
    MaxOps = 3
    Writes = {w1}
    w1 = w1
    Faults = {"crash"}
INVARIANTS
    NoActionMeansAdmitted
CHECK_DEADLOCK FALSE
