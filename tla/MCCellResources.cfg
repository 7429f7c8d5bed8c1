SPECIFICATION Spec
CONSTANTS
    MaxRuns = 3
    MaxShortCells = 2
INVARIANTS
    LeakShows
    OrdersSuffice
CHECK_DEADLOCK FALSE
