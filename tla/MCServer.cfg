CONSTANTS
    here = here
    there = there
    m1 = m1
    m2 = m2
    a1 = a1
    a2 = a2
    a3 = a3
    a4 = a4
    a5 = a5
    MaxLines = 2
    Label = {"z", "w", "x", "n", "v", "o", "*", "SRV", "ns", "mx"}
    Anywhere = anywhere
    NoMatch = nomatch
    NoAddress = noaddress
    Negative = 6
    Data <- Files
    Query <- Queries
    Geo <- GeoOf
    MaxAddr = 2
    Question = 1
    Clip = 4
    Whole = 6
    Silence = silence
    Pending = pending
    c1 = c1
    c2 = c2
    d1 = d1
    Nobody = nobody
    EvqueLen = 3
    MaxFd = 2
    Backlog = 1
    Conn = {c1, c2}
    Dgram = {d1}
SPECIFICATION ServerSpec
SYMMETRY Symmetry
INVARIANTS ServerTypeOK EventsAreCurrent NothingForgotten GeoOfAsker MomentsMeet NoTwice
PROPERTIES ImplementsDnsAnswer
CHECK_DEADLOCK FALSE
