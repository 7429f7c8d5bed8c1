SPECIFICATION Spec
CONSTANTS
    Tasks <- MCTasks
    Diff <- MCDiff
    HeadLines <- MCHeadLines
    CommonWords = {"the"}
    SpecText = {"a", "b"}
    Ceiling = 2
CHECK_DEADLOCK FALSE
INVARIANTS
    ReadyIsAccountedFor
    RowsSayWhatWasSaid
    StandingIsCounted
