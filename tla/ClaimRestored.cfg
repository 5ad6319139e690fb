\* A migration that outlives the command that started it.
SPECIFICATION Spec
CONSTANTS
    MaxRel = 1
    MaxOps = 3
    Writes = {w1}
    w1 = w1
    Faults = {"crash", "orphan"}
INVARIANTS
    TerminalOutcomeIsTrue
CHECK_DEADLOCK FALSE
