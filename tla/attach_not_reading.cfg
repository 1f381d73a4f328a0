SPECIFICATION FairSpec
CONSTANTS
    Interactive = TRUE
    Backlog = 1
    PipeSize = 1
    MaxTyped = 3
    MaxSignals = 1
CHECK_DEADLOCK FALSE
PROPERTIES
    HangUpHandledUnread
