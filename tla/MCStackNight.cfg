SPECIFICATION Spec
CONSTANTS
    Plans <- MCPlans
    Budget = 12
    Reserve = 3
    Writer = 3
    MaxReviseRounds = 2
    SpecBudget = 2
    CellCosts <- MCCellCosts
    Session = 1
    Lens = 1
INVARIANTS StackIsAChain RunsTheTextReviewed
CHECK_DEADLOCK FALSE
PROPERTIES KeepsItsPromise UnreviewedIsHandedOn NightEnds
