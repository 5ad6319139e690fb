CONSTANTS
    Commands = {c1, c2}
    Status = status
    NoOne = noone
    MaxOps = 2
    MaxEvents = 3
    Faults = {"crash", "interrupt", "io"}
SPECIFICATION Spec
INVARIANTS TypeOK IdleReportIsTrue
PROPERTIES LockIsReleased
CHECK_DEADLOCK FALSE
