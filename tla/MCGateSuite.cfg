SPECIFICATION Spec
CONSTANTS
    Tasks <- MCTasks
    MaxFaults = 2
INVARIANTS
    GreenIsSound
    BlameIsFair
    ProbeSaysWhatItSaw
PROPERTIES
    EditsStand
CHECK_DEADLOCK FALSE
