SPECIFICATION Spec
CONSTANTS
    Budget = 2
    Overshoot = 1
    MaxAttempts = 2
    SalvageReserve = 1
    ReviewFloor = 1
    RebutCap = 1
    Extraction = 1
    Verdict = 1
    Lenses = 1
    ProbeSessions = 1
    VerdictSessions = 1
    StartSpends = {1}
    TurnCommits = {1}
    TurnLeaves = {FALSE}
    Raises = FALSE
    NotesWorthAsking = TRUE
    RedSuites = {"form"}
    FormRed = {"form"}
INVARIANTS
    ReportedSpend
    SpendCeiling
    StageFunded
PROPERTIES
    Terminates
CHECK_DEADLOCK TRUE
