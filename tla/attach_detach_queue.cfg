SPECIFICATION Spec
CONSTANTS
    Interactive = TRUE
    Backlog = 1
    PipeSize = 1
    MaxTyped = 3
    MaxSignals = 2
CHECK_DEADLOCK FALSE
INVARIANTS
    QueuedInputDelivered
