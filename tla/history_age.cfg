SPECIFICATION Spec
CONSTANTS
    a = a
    b = b
    Runs = {1, 2, 3}
    Tasks = {a, b}
    TaskOf <- OneTask
    NoOwner = NoOwner
    Grace = 1
    MaxAge = 1
    MaxSize = 0
    MaxClock = 2
    MayFail = TRUE
CONSTRAINTS
    OneOldRun
    FewFailures
CHECK_DEADLOCK FALSE
INVARIANTS
    TypeOK
    LiveRunsKept
PROPERTIES
    OnlyExpiredPruned
