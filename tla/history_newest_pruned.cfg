SPECIFICATION Spec
CONSTANTS
    a = a
    b = b
    Runs = {1, 2, 3}
    Tasks = {a, b}
    TaskOf <- OneTask
    NoOwner = NoOwner
    Grace = 1
    MaxAge = 0
    MaxSize = 1
    MaxClock = 1
    MayFail = FALSE
CHECK_DEADLOCK FALSE
INVARIANTS
    NewestRunKept
