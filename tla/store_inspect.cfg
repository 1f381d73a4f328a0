SPECIFICATION Spec
CONSTANTS
    Procs = {p1, p2}
    Dirs = {d1}
    Contents = {c1, c2, c3}
    Invalid = {c3}
    NoProc = NoProc
    InitialHome = "kept"
    Absent = Absent
    NotRegular = NotRegular
    NoRecord = NoRecord
    NoFile = NoFile
    Corrupt = Corrupt
SYMMETRY ProcSymmetry
INVARIANTS
    RunsOnlyApproved
    ApprovedParses
