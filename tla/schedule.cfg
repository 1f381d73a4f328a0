SPECIFICATION MCSpec
CONSTANTS
    one = one
    other = other
    bad = bad
    Dirs <- MCDirs
    Contents <- MCContents
    Valid <- MCValid
    Commands <- MCCommands
    Missing = missing
    Unreadable = unreadable
    NoRecord = norecord
    Collapse = TRUE
    QuotingAlphabet <- MCAlphabet
    QuotingLength = 4
    MaxStep = 3
    MaxParts = 2
CONSTRAINTS
    OneContentThere
CHECK_DEADLOCK FALSE
INVARIANTS
    TypeOK
    QuotingRoundTrips
    WeekdaysKept
    StartsOnlyApproved
PROPERTIES
    SyncIsExact
