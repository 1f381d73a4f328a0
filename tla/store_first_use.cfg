SPECIFICATION FairSpec
CONSTANTS
    Procs = {p1, p2}
    Dirs = {d1}
    Contents = {c1}
    Invalid = {}
    NoProc = NoProc
    InitialHome = "missing"
    Absent = Absent
    NotRegular = NotRegular
    NoRecord = NoRecord
    NoFile = NoFile
    Corrupt = Corrupt
INVARIANTS
    CreatorFlushesHome
PROPERTIES
    LockWaitEnds
