CONSTANTS
  Slots = 2
  Rounds = 3
  Questions = {"q1", "q2"}
  Ids = {1}
  MaxAsks = 2
  MaxStrays = 1
  NameSet <- MCNames
  LocalNames <- MCLocal
  Truth <- MCTruth
  Zones <- MCZones
  Serves <- MCServes
  Worlds <- MCWorlds
  LiesAn <- MCLiesAn
  LiesAu <- MCLiesAu
  LiesAd <- MCLiesAd
  Wanted <- MCWanted
  MaxLevel = 2
  MaxAlias = 2
  MaxNs = 2
  MaxLies = 1
  LoopMax = 10
  MaxQueries = 2
  MaxForget = 1
  Radix = 8
  Names <- MCNamesOnWire
  Received <- MCReceived
  Header = 2
  Fillers = {3}
  MaxLen = 20
  NAMES = 3
  Remembered = 5
  ReadLoop = 15
  NameMax = 9
  LabelMax = 2
  Texts <- MCTexts
  HostNames <- MCHostNames
  Exact <- MCExact
  Envs <- MCEnvs
  Files <- MCFiles
  Packets <- MCPackets
  Missing = missing
  Unread = unread
  Numbers = {"1"}
  Life = 0
  Uses = 2
  MaxTime = 1
  MaxEdits = 1
  MaxCalls = 2
SPECIFICATION ResolverSpec
INVARIANTS ResolverTypeOK NothingLeaks AnswersTheQuestion GivesUpLast LiesAreKeptOut NamesSurvive
PROPERTIES ResolverEnds
CHECK_DEADLOCK FALSE
