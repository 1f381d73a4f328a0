SPECIFICATION FairSpec
CONSTANTS
    Task = Task
    b1 = b1
    b2 = b2
    Background = {b1, b2}
CONSTRAINTS
    OneOfEachPair
INVARIANTS
    TypeOK
    SucceededUntouched
    UnwarnedIsComplete
PROPERTIES
    EndedRunReturns
CHECK_DEADLOCK FALSE
