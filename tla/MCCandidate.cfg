\* One validation after another; three calls fail or are interrupted.
SPECIFICATION Spec
CONSTANTS
    MaxStages = 2
    MaxFaults = 3
    MaskedKill = FALSE
INVARIANTS
    SafeEndIsClean
PROPERTIES
    BeginsClean
    StageEnds
CHECK_DEADLOCK FALSE
