SPECIFICATION Spec
CONSTANTS
    Readers = {x1}
    Recorder = Recorder
    Pruner = Pruner
    NoOwner = NoOwner
    MaxPartialLine = 2
    PrefixSize = 1
    MaxOutput = 6
    MaxBytes = 4
    MayFail = TRUE
CHECK_DEADLOCK FALSE
INVARIANTS
    OnlyLongLinesSplit
