SPECIFICATION Spec
CONSTANTS
    p1 = p1
    Procs = {p1}
    States = {"EXHAUSTED"}
    MaxWrites = 4
    Mishaps = {"crash", "appendFails", "pushFails", "mirrorLost", "ledgerLost", "elsewhere"}
INVARIANTS
    NothingLostRebuilds
    ExitLeavesNothingUnpushed
    MigratedIsWholeButForThePush
PROPERTIES
    RefIsAHistory
CHECK_DEADLOCK FALSE
