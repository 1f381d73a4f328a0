SPECIFICATION Spec
CONSTANTS
    Task = Task
    Background = {b1, b2}
CHECK_DEADLOCK FALSE
INVARIANTS
    CutCaptureWarned
