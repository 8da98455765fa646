CONSTANTS
  a1 = a1
  a2 = a2
  a3 = a3
  b1 = b1
  h1 = h1
  h2 = h2
  n1 = n1
  n2 = n2
  x1 = x1
  x2 = x2
  r1 = r1
  r2 = r2
  d1 = d1
  d2 = d2
  d3 = d3
  q1 = q1
  q2 = q2
  none = none
  Addr <- MCKnockers
  Port <- MCKnocked
  Knocks <- MCKnocks
  Minute = 2
  GcExpir = 2
  NoRule = none
  MaxTick = 6
  MaxLoads = 3
  Inside <- MCInside
  Prefix <- MCPrefixes
  Pool <- MCPool
  PostNat <- MCPostNat
  Rules <- MCMaps
  Nobody = none
  MaxNow = 1
  MaxMade = 2
  Source <- MCSources
  Hash <- MCHash
  Weight <- MCWeight
  ListSize = 2
  HashMax = 2
  PortMax = 2
  WeightMax = 5
  Threshold = 4
  Delay = 0
  Unused = none
  Reached <- MCReached
  MaxClock = 1
SPECIFICATION NetfilterSpec
INVARIANTS NetfilterTypeOK BooksAgree
PROPERTIES JudgedAsMeant
CHECK_DEADLOCK FALSE
