SPECIFICATION Spec
CONSTANTS
    Repos <- MCRepos
    MaxMoves = 1
    Budget = 5
    Costs <- MCCosts
PROPERTY MergedParentIsUnder
CHECK_DEADLOCK FALSE
