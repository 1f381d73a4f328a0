SPECIFICATION MCSpec
CONSTANTS
    one = one
    other = other
    bad = bad
    Dirs <- MCDirs
    Contents <- MCContents
    Valid <- MCValid
    Commands <- MCCommands
    Missing = missing
    Unreadable = unreadable
    NoRecord = norecord
    Collapse = TRUE
    QuotingAlphabet <- MCAlphabet
    QuotingLength = 1
    MaxStep = 3
    MaxParts = 1
CHECK_DEADLOCK FALSE
INVARIANTS
    DescribedAsFired
