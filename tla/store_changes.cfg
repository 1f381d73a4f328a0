SPECIFICATION Spec
CONSTANTS
    Procs = {p1, p2}
    Dirs = {d1, d2}
    Contents = {c1}
    Invalid = {}
    NoProc = NoProc
    InitialHome = "kept"
    Absent = Absent
    NotRegular = NotRegular
    NoRecord = NoRecord
    NoFile = NoFile
    Corrupt = Corrupt
SYMMETRY Symmetry
CONSTRAINT ChangesOnly
INVARIANTS
    TypeOK
    PromisesKept
    RenameCommitsOneChange
    OneStagedFile
PROPERTIES
    ImplementsAuthorizations
