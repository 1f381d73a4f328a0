SPECIFICATION Spec
CONSTANTS
    Procs = {p1, p2}
    NoProc = NoProc
    MaxVersion = 3
    MaxEdits = 1
    MaxKills = 1
SYMMETRY Symmetry
INVARIANTS
    UserLinesSurviveKills
