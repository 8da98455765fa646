CONSTANTS
    k1 = k1
    k2 = k2
    k3 = k3
    Key = {k1, k2, k3}
    NoKey = nokey
    HashVal = {0, 2, 6, 3}
    Tables = 2
    Final = 4
    Field = 2
    Limit = 40
    HpList = 2
    Sizes = {1, 12}
    MaxAdd = 4
    sa = sa
    us = us
    m1 = m1
    m2 = m2
    p1 = p1
    p2 = p2
    W = 2
    Country = {sa, us}
    Geo <- GeoSmall
    Block = block
    MapName = {m1, m2}
    Place = {p1, p2}
    NoMatch = nomatch
    MaxAsked = 3
SPECIFICATION DataSpec
CONSTRAINT FirstLookup
SYMMETRY Symmetry
INVARIANTS DataTypeOK DataIsSound
PROPERTIES ImplementsMultiMap ImplementsGeoMap
CHECK_DEADLOCK FALSE
