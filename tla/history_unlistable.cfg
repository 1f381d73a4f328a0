SPECIFICATION Spec
CONSTANTS
    a = a
    b = b
    Runs = {1, 2}
    Tasks = {a, b}
    TaskOf <- OneTask
    NoOwner = NoOwner
    Grace = 1
    MaxAge = 0
    MaxSize = 0
    MaxClock = 0
    MayFail = FALSE
CHECK_DEADLOCK FALSE
INVARIANTS
    HistoryListable
