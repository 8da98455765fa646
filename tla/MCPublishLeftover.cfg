CONSTANTS
    Export = {e1, e2}
    Seed = seed
    Hole = hole
    MaxTrouble = 1
    MaxTroubleShared = 0
SPECIFICATION Spec
PROPERTIES OkIsInstalled
CHECK_DEADLOCK FALSE
