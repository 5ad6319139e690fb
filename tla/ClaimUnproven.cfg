\* A migration that floods its output and cannot be killed.
SPECIFICATION Spec
CONSTANTS
    MaxStages = 1
    MaxFaults = 1
    MaskedKill = TRUE
INVARIANTS
    UnprovenNeedsRecovery
CHECK_DEADLOCK FALSE
