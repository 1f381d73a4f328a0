SPECIFICATION MCSpec
CONSTANTS
    x1 = x1
    x2 = x2
    Readers <- MCReaders
    Recorder = Recorder
    Pruner = Pruner
    NoOwner = NoOwner
    MaxPartialLine = 2
    PrefixSize = 1
    MaxOutput = 6
    MaxBytes = 4
    MaxShared = 1
    MayFail = TRUE
CHECK_DEADLOCK FALSE
INVARIANTS
    TypeOK
    RecordsAreTheOutput
    FinishedIsComplete
    TailNeverFails
    ShownIsComplete
    StatusIsTruthful
PROPERTIES
    FollowReturns
