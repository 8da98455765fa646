CONSTANTS
    Proc = {p1}
    MaxVersion = 3
    MaxTouch = 0
    MaxUnlink = 0
    MaxKill = 0
SPECIFICATION Spec
INVARIANTS AlwaysFresh
CHECK_DEADLOCK FALSE
