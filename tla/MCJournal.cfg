CONSTANTS
    Commands = {c1, c2}
    Status = status
    NoOne = noone
    MaxOps = 4
    MaxEvents = 3
    Faults = {"crash", "interrupt", "io"}
SPECIFICATION CommandsSpec
INVARIANTS RecordAccepted
PROPERTIES ImplementsRecords
CHECK_DEADLOCK FALSE
