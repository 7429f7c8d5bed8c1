SPECIFICATION Safety
CONSTANTS
    Budget = 1
    Overshoot = 0
    MaxAttempts = 2
    SalvageReserve = 1
    ReviewFloor = 1
    RebutCap = 1
    Extraction = 1
    Verdict = 1
    Lenses = 1
    ProbeSessions = 0
    VerdictSessions = 1
    StartSpends = {}
    NotesWorthAsking = TRUE
    RedSuites = {"form", "tests"}
    FormRed = {"form"}
    TurnCommits = {0, 1}
    TurnLeaves = {FALSE, TRUE}
    Raises = TRUE
INVARIANTS
    TypeOK
    ReadyIsJudged
    CutWorkIsKept
PROPERTIES
    SettlesInOrder
CHECK_DEADLOCK TRUE
