SPECIFICATION FairSpec
CONSTANTS
    Interactive = TRUE
    Backlog = 1
    PipeSize = 1
    MaxTyped = 3
    MaxSignals = 3
CHECK_DEADLOCK FALSE
INVARIANTS
    TypeOK
    InputInOrder
    IDFileRemoved
PROPERTIES
    HangUpHandled
    CommandReturns
