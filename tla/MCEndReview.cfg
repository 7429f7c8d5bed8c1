SPECIFICATION Spec
CONSTANTS
    Cases <- MCCases
    MaxMoves = 2
INVARIANTS RangeIsItsOwn OneHeadThroughout FindingIsFollowedOrPooled
CHECK_DEADLOCK FALSE
