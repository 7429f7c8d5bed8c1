SPECIFICATION Spec
CONSTANTS
    MaxCells = 2
    MaxCommits = 2
    MaxForeign = 1
    Mishaps = {"kill", "ghFails", "exportFails", "noUrl"}
INVARIANTS
    NoRowLeftInFlight
    ReadyTaskIsFresh
    ApprovedHeadWasReadied
PROPERTIES
    OthersHeadStands
    MergedHeadSettles
CHECK_DEADLOCK FALSE
