SPECIFICATION Spec
CONSTANTS
    MaxCells = 2
    MaxCommits = 3
    MaxForeign = 0
    Mishaps = {}
INVARIANTS
    ShippedIsThisCells
CHECK_DEADLOCK FALSE
