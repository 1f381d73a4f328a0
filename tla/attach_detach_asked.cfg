SPECIFICATION Spec
CONSTANTS
    Interactive = TRUE
    Backlog = 1
    PipeSize = 1
    MaxTyped = 2
    MaxSignals = 3
CHECK_DEADLOCK FALSE
INVARIANTS
    DetachedLeftRunning
