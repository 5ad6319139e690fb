\* Every fault, and the properties that survive all of them.
SPECIFICATION Spec
CONSTANTS
    MaxRel = 2
    MaxOps = 4
    Writes = {w1}
    w1 = w1
    Faults = {"crash", "interrupt", "reboot", "orphan"}
INVARIANTS
    TypeOK
    OneAppOnDatabase
    NoSilentMaintenance
    IntentBeforeEffect
    AdmittedOnlyWhenSettled
    AtMostOneUnfinished
    DeployWritesAccepted
    RecoveredReleaseIsMarked
    PointersConsistent
PROPERTIES
    TerminalEvidenceKept
    ImplementsContract
    CommandEnds
CHECK_DEADLOCK FALSE
