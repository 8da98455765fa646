----------------------------- MODULE MCNetfilter -----------------------------
(* The extensions of iptables, one at a time: knocking at ports (PortKnock),    *)
(* counting packets (Account), binding addresses (Dnetmap), finding scans       *)
(* (Psd), reading and printing options (XtOptions), spreading questions over    *)
(* the backends (Spread), what rules share (SharedObjects) and answering in the *)
(* place of a server (Decoy).                                                   *)
EXTENDS Integers, Sequences, TLC

CONSTANTS a1, a2, a3, b1, h1, h2, n1, n2, x1, x2, r1, r2, d1, d2, d3, q1, q2, none

\* What the parts that are proved about leave open
CONSTANTS
  Addr, Port, Knocks, Minute, GcExpir, NoRule, MaxTick, MaxLoads,
  Inside, Prefix, Pool, PostNat, Rules, Nobody, MaxNow, MaxMade,
  Source, Hash, Weight, ListSize, HashMax, PortMax, WeightMax, Threshold, Delay, Unused, Reached,
  MaxClock

VARIABLES
  part,  \* the extension that runs, fixed
  rule, loaded, peers, gc, todo, doomed, corrupt, tick, loads, sent, elder, passed,
  table, rules, handle, reader, seen, gone, cleared, dangling, steps,
  prefixes, active, entry, hashed, lru, broken, now, made,
  list, head, next, index, clock, tried, scan,
  ext, line, words,
  packet, stage, meant,
  ruleset, objects, chain, run, leaked, edits, packets,
  target, tcp, asked, answers, told

knockVars == <<rule, loaded, peers, gc, todo, doomed, corrupt, tick, loads, sent, elder, passed>>
acctVars == <<table, rules, handle, reader, seen, gone, cleared, dangling, steps>>
mapVars == <<prefixes, active, entry, hashed, lru, broken, now, made>>
psdVars == <<list, head, next, index, clock, tried, scan>>
optVars == <<ext, line, words>>
spreadVars == <<packet, stage, meant>>
sharedVars == <<ruleset, objects, chain, run, leaked, edits, packets>>
decoyVars == <<target, tcp, asked, answers, told>>
vars ==
  <<part, knockVars, acctVars, mapVars, psdVars, optVars, spreadVars, sharedVars, decoyVars>>

MCKnocks == {
  [option |-> {"KNOCKPORT", "TIME", "STRICT", "AUTOCLOSE"}, port |-> <<1, 2>>, max |-> 1,
   autoclose |-> 1, open |-> "none", close |-> "none"],
  [option |-> {"KNOCKPORT", "TIME", "STRICT"}, port |-> <<3, 2>>, max |-> 1, autoclose |-> 0,
   open |-> "none", close |-> "none"],
  [option |-> {"KNOCKPORT", "OPENSECRET", "CLOSESECRET"}, port |-> <<1>>, max |-> 0,
   autoclose |-> 0, open |-> "open", close |-> "close"],
  [option |-> {"CHECKIP"}, port |-> <<>>, max |-> 0, autoclose |-> 0, open |-> "none", close |-> "none"]}
MCKnockers == {"a"}
MCKnocked == 1 .. 3
K == INSTANCE PortKnock
ASSUME KnockConstants == K!KnockConstants

MCHosts == {<<10, 0, 0, 1>>, <<10, 0, 1, 1>>}
MCNets == {[ip |-> <<10, 0, 0, 0>>, depth |-> d, any |-> FALSE] : d \in {0, 2}}
            \cup {[ip |-> <<0, 0, 0, 0>>, depth |-> 0, any |-> TRUE]}
MCReaders == {r1, r2}
Accounting == INSTANCE Account WITH
       Host <- MCHosts, Net <- MCNets, Reader <- MCReaders, Unmade <- none, MaxHandles <- 1,
       MaxSteps <- 3, MaxRules <- 2

\* The prefixes overlap in the address x2.
MCPool == n1 :> <<d1, d2>> @@ n2 :> <<d3>>
MCPostNat == d1 :> x1 @@ d2 :> x2 @@ d3 :> x2
MCMaps == {[prefix |-> n1, ttl |-> 1, flags |-> {"PERSISTENT"}],
           [prefix |-> n1, ttl |-> -2, flags |-> {"STATIC"}],
           [prefix |-> n2, ttl |-> 0, flags |-> {}]}
MCInside == {h1, h2}
MCPrefixes == {n1, n2}
D == INSTANCE Dnetmap
ASSUME MapConstants == D!MapConstants

MCHash == a1 :> 1 @@ a2 :> 1 @@ a3 :> 1 @@ b1 :> 2
MCSources == {a1, a2, a3, b1}
MCWeight == <<1, 1, 1, 3, 3>>
MCReached == a1 :> {1, 2, 3} @@ a2 :> {1, 4} @@ a3 :> {2} @@ b1 :> {4, 5}
S == INSTANCE Psd
ASSUME PsdConstants == S!PsdConstants

MCExtensions ==
  {"psd", "quota2", "condition", "fuzzy", "length2", "lscan", "iface", "ipp2p", "ipv4options",
   "geoip", "dhcpmac", "gradm", "pknock", "TARPIT", "CHAOS", "TEE", "LOGMARK", "IPMARK", "ACCOUNT",
   "DNETMAP", "RAWDNAT", "RAWSNAT", "DHCPMAC", "CHECKSUM"}
MCValues == [kind \in {"none", "number", "list", "bits", "prefix"} |->
  CASE kind = "none" -> {<<>>}
    [] kind = "number" -> {<<0>>, <<1>>, <<3000>>}
    [] kind = "list" -> {<<1>>, <<2, 1>>, <<1, 1>>, <<0>>}
    [] kind = "bits" -> {<<2>>, <<-3, 35>>, <<32>>}
    [] kind = "prefix" -> {<<1, 24>>, <<1>>, <<1, 8>>, <<1, 24, 0>>, <<1, 24, 20>>}]
OptionTexts == INSTANCE XtOptions WITH
       rule <- words, Ones <- 4000, Rate <- 2000, MaxPorts <- 2, MaxCountries <- 2, Known <- {1, 2},
       Extensions <- MCExtensions, Values <- MCValues, MaxWords <- 4

MCPorts == [1 .. 2 -> 0 .. 3]
MCClients == {<<1, 2, 0, 3>>}
Spreading == INSTANCE Spread WITH
       Byte <- 2, Clients <- MCClients, Ports <- MCPorts, Frontend <- <<2, 0, 0, 1>>,
       Backnet <- <<3, 1, 2, 0>>, Bits <- 6, Words6 <- {0, 5}, Checks6 <- {0, 3}, Width6 <- 3

Shared(kind, keys, opts, quota) == [kind |-> kind, keys |-> keys, opts |-> opts, quota |-> quota]
MCRulesets == {
  {Shared("quota2", <<"n">>, {}, 3), Shared("quota2", <<"n">>, {"grow"}, 0),
   Shared("quota2", <<"">>, {"packets"}, 2), Shared("quota2", <<"n">>, {"no-change"}, 1)},
  {Shared("condition", <<"n">>, {}, 0), Shared("condition", <<"m">>, {"invert"}, 0)},
  {Shared("geoip", <<"A">>, {"invert"}, 0), Shared("geoip", <<"A", "B">>, {}, 0),
   Shared("geoip", <<"B", "C">>, {}, 0)}}
MCRanges == [c \in {"A", "B", "C"} |->
  CASE c = "A" -> <<<<1, 2>>, <<4, 4>>, <<6, 7>>>> [] c = "B" -> <<<<5, 5>>>> [] c = "C" -> <<>>]
MCProcs == {q1, q2}
SharedState == INSTANCE SharedObjects WITH
       table <- chain, Procs <- MCProcs, Rulesets <- MCRulesets, Ranges <- MCRanges,
       Addresses <- 0 .. 8, Lengths <- {1, 2}, Given <- {0, 1, 3}, MaxQuota <- 4, MaxObjects <- 8,
       MaxRules <- 2, MaxEdits <- 3, MaxPackets <- 2

Target(name, variant, family) == [target |-> name, variant |-> variant, family |-> family]
MCTargets ==
  {Target("TARPIT", v, f) : v \in {"tarpit", "honeypot", "reset"}, f \in {4, 6}}
    \cup {Target("CHAOS", v, 4) : v \in {"normal", "tarpit", "delude"}} \cup {Target("DELUDE", "", 4)}
Decoys == INSTANCE Decoy WITH
       rule <- target, sent <- told, Rules <- MCTargets, Space <- 16, First <- 2, Enough <- 2,
       DeadBeef <- 7, Random <- {3, 9}, Isns <- {13}, Window <- 2, Lengths <- {1, 2},
       Options <- {0, 2}, MaxSent <- 4, MaxFlight <- 2

-----------------------------------------------------------------------------
Parts == {"knock", "account", "map", "psd", "options", "spread", "shared", "decoy"}

\* The parts that do not run have one initial state.
NetfilterInit ==
  /\ part \in Parts
  /\ K!KnockInit /\ Accounting!AcctInit /\ D!MapInit /\ S!PsdInit
  /\ IF part = "options" THEN OptionTexts!OptInit ELSE ext = "" /\ line = 0 /\ words = none
  /\ IF part = "spread" THEN Spreading!SpreadInit ELSE packet = none /\ stage = "" /\ meant = none
  /\ SharedState!SharedInit /\ (part # "shared" => ruleset = CHOOSE s \in MCRulesets : TRUE)
  /\ IF part = "decoy" THEN Decoys!DecoyInit
     ELSE target = none /\ tcp = none /\ asked = {} /\ answers = {} /\ told = 0

KnockOnly ==
  /\ part = "knock" /\ K!KnockNext
  /\ UNCHANGED <<part, acctVars, mapVars, psdVars, optVars, spreadVars, sharedVars, decoyVars>>
AccountOnly ==
  /\ part = "account" /\ Accounting!AcctNext
  /\ UNCHANGED <<part, knockVars, mapVars, psdVars, optVars, spreadVars, sharedVars, decoyVars>>
MapOnly ==
  /\ part = "map" /\ D!MapNext
  /\ UNCHANGED <<part, knockVars, acctVars, psdVars, optVars, spreadVars, sharedVars, decoyVars>>
PsdOnly ==
  /\ part = "psd" /\ S!PsdNext
  /\ UNCHANGED <<part, knockVars, acctVars, mapVars, optVars, spreadVars, sharedVars, decoyVars>>
OptionsOnly ==
  /\ part = "options" /\ OptionTexts!OptNext
  /\ UNCHANGED <<part, knockVars, acctVars, mapVars, psdVars, spreadVars, sharedVars, decoyVars>>
SpreadOnly ==
  /\ part = "spread" /\ Spreading!SpreadNext
  /\ UNCHANGED <<part, knockVars, acctVars, mapVars, psdVars, optVars, sharedVars, decoyVars>>
SharedOnly ==
  /\ part = "shared" /\ SharedState!SharedNext
  /\ UNCHANGED <<part, knockVars, acctVars, mapVars, psdVars, optVars, spreadVars, decoyVars>>
DecoyOnly ==
  /\ part = "decoy" /\ Decoys!DecoyNext
  /\ UNCHANGED <<part, knockVars, acctVars, mapVars, psdVars, optVars, spreadVars, sharedVars>>

NetfilterNext ==
  \/ KnockOnly \/ AccountOnly \/ MapOnly \/ PsdOnly
  \/ OptionsOnly \/ SpreadOnly \/ SharedOnly \/ DecoyOnly

NetfilterSpec == NetfilterInit /\ [][NetfilterNext]_vars

-----------------------------------------------------------------------------
\* The types of the parts.
NetfilterTypeOK ==
  CASE part = "knock" -> K!KnockTypeOK [] part = "account" -> Accounting!AcctTypeOK
    [] part = "map" -> D!MapTypeOK [] part = "psd" -> S!PsdTypeOK
    [] part = "options" -> OptionTexts!OptTypeOK [] part = "spread" -> Spreading!SpreadTypeOK
    [] part = "shared" -> SharedState!SharedTypeOK [] part = "decoy" -> Decoys!DecoyTypeOK

\* xt_pknock.c, xt_ACCOUNT.c, xt_DNETMAP.c, xt_psd.c, xt_quota2.c, xt_condition.c,
\* xt_geoip.c, xt_RAWNAT.c, xt_TARPIT.c, xt_DELUDE.c, xt_CHAOS.c, libxt_*.c: what a
\* module keeps more than once agrees:
\* counts of references with the rules, counters with the packets, tables with
\* lists, chains with addresses, quotas with what passed, ranges with the search
\* in them, addresses with checksums and with the backend their packets go to,
\* a client's connection with what its rule is to make of it, and what iptables-save
\* prints with the rule.
BooksAgree ==
  CASE part = "knock" -> K!RuleCounted [] part = "account" -> Accounting!CountsAgree
    [] part = "map" -> D!BindingsOneToOne [] part = "psd" -> S!ChainsSound
    [] part = "options" -> OptionTexts!OptionsReadBack
    [] part = "spread" -> Spreading!ChecksumsKept /\ Spreading!BackendsShare /\ Spreading!PrefixesOfV6
    [] part = "shared" -> SharedState!RefsCounted /\ SharedState!QuotaNotExceeded /\ SharedState!GeoJudgedRight
    [] part = "decoy" -> Decoys!DecoysDoAsSaid

\* xt_pknock.c, xt_psd.c, xt_DNETMAP.c, the verdicts: who is let in has knocked in
\* order, who is said to scan has tried ports enough, and no packet takes an
\* address from a binding that is alive.
Verdict ==
  CASE part = "knock" -> K!KnockedInOrder [] part = "psd" -> S!ScansAreScans
    [] part = "map" -> D!LiveBindingsKept [] OTHER -> TRUE
JudgedAsMeant == [][Verdict]_vars
=============================================================================
