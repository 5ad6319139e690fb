CONSTANTS
    Commands = {c1}
    Status = status
    NoOne = noone
    MaxOps = 2
    MaxEvents = 3
    Faults = {}
SPECIFICATION Spec
INVARIANTS AlarmIsTrue
CHECK_DEADLOCK FALSE
