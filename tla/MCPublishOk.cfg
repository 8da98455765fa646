CONSTANTS
    Export = {e1}
    Seed = seed
    Hole = hole
    MaxTrouble = 1
    MaxTroubleShared = 1
SPECIFICATION Spec
INVARIANTS PrepareOkIsComplete
CHECK_DEADLOCK FALSE
