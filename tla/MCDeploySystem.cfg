\* Two releases, crashes and interrupts at every step.
SPECIFICATION Spec
CONSTANTS
    MaxRel = 2
    MaxOps = 4
    Writes = {w1, w2}
    w1 = w1
    w2 = w2
    Faults = {"crash", "interrupt"}
INVARIANTS
    NoAcknowledgedWriteLost
    TerminalOutcomeIsTrue
PROPERTIES
    RestoreOnlyQuiesced
    NoWayBackAfterActivation
SYMMETRY WriteSymmetry
CHECK_DEADLOCK FALSE
