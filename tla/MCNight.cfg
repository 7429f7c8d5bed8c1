SPECIFICATION Spec
CONSTANTS
    Repos <- MCRepos
    MaxMoves = 1
    Budget = 5
    Costs <- MCCosts
INVARIANTS EveryRunIsCounted RemovalWaitsAlone
PROPERTIES KeepsItsPromise ChildIsOverItsParents LiveRowStands DrainedNightWasSound
CHECK_DEADLOCK FALSE
