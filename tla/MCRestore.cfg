\* One restore request after another; three calls fail, two crashes.
SPECIFICATION Spec
CONSTANTS
    Writes = {w1, w2}
    w1 = w1
    w2 = w2
    MaxRestores = 2
    MaxFaults = 3
    MaxCrashes = 2
    SwapFaults = FALSE
INVARIANTS
    TypeOK
    NoWriteDiscarded
    LogBelongsToDatabase
    EvidenceBeforeReplacement
PROPERTIES
    QuiescedReplacement
    NoReplacementAfterExposure
    OutcomeIsTrue
    ImplementsPromise
    RestoreEnds
CHECK_DEADLOCK FALSE
