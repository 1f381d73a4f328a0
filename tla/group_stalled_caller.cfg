SPECIFICATION FairSpec
CONSTANTS
    Task = Task
    Background = {b1}
CHECK_DEADLOCK FALSE
PROPERTIES
    StalledCallerForgiven
