CONSTANTS
    p1 = p1
    p2 = p2
    Proc = {p1, p2}
    MaxVersion = 3
    MaxTouch = 1
    MaxUnlink = 1
    MaxKill = 1
    c1 = c1
    c2 = c2
    d1 = d1
    Nobody = nobody
    EvqueLen = 2
    MaxFd = 1
    Backlog = 1
    Conn = {c1, c2}
    Dgram = {d1}
SPECIFICATION LiveSpec
INVARIANTS TypeOK NeverDeaf StaleIsTold FreshAnswer
PROPERTIES NeverBack ImplementsService TurnsToNews ClientsServed
CHECK_DEADLOCK FALSE
