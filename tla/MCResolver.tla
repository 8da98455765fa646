----------------------------- MODULE MCResolver -----------------------------
(***************************************************************************)
(* The resolver in four parts: one question after another put to two          *)
(* servers (Transmit); a recursive engine with servers that lie, in a world   *)
(* where the protected zone is found by a truthful root, and in one where it  *)
(* is configured because the root lies (Query); names on the wire and in text *)
(* with bytes of three bits (Packet); host names as people give them, while   *)
(* the files that say how they are meant change (Qualify).                    *)
(***************************************************************************)
EXTENDS Transmit, Query, TLC

CONSTANTS
    Radix, Names, Received, Header, Fillers, MaxLen, NAMES, Remembered, ReadLoop,
    NameMax, LabelMax, Texts,
    HostNames, Exact, Envs, Files, Missing, Unread, Numbers, Packets, Life, Uses,
    MaxTime, MaxEdits, MaxCalls

VARIABLES
    part,           \* "transmit", "query", "packet" or "qualify", fixed
    ours, msg, remembered, written,
    env, files, clock, rules, resolvers, call, was, edits, calls

packetVars == <<ours, msg, remembered, written>>
qualifyVars == <<env, files, clock, rules, resolvers, call, was, edits, calls>>

P == INSTANCE Packet WITH name <- remembered

Host == INSTANCE Qualify

ASSUME PacketConstants == P!PacketConstants
ASSUME QualifyConstants == Host!QualifyConstants

Fact(owner, t, data) == [owner |-> owner, type |-> t, data |-> data]
V == <<"v">>
W == <<"w", "v">>
NV == <<"n", "v">>
ZV == <<"z", "v">>      \* there is no such name
E == <<"e">>
NE == <<"n", "e">>
X == <<"x", "e">>
LocalHost == <<"localhost">>
RootIp == <<"ip0">>
VIp == <<"ip1">>
EIp == <<"ip2">>
Bad == <<"ip6">>

MCNames == {Root, V, W, NV, ZV, E, NE, X, LocalHost}
MCServes == [a \in {RootIp, VIp, EIp, <<"ip9">>, Bad, <<"127.0.0.1">>} |->
               CASE a = RootIp -> Root [] a = VIp -> V [] OTHER -> E]
MCTruth == {Fact(V, "NS", NV), Fact(NV, "A", VIp), Fact(W, "A", <<"ip9">>),
            Fact(E, "NS", NE), Fact(NE, "A", EIp), Fact(X, "CNAME", W)}
(* Either the root is truthful and leads to v, or it lies and v is configured. *)
MCWorlds == {
  [roots |-> (Root :> {RootIp}), honest |-> {RootIp, VIp}, protects |-> V, leads |-> {NV}],
  [roots |-> (Root :> {RootIp} @@ V :> {VIp}), honest |-> {VIp}, protects |-> V, leads |-> {NV}]}
MCWanted == {[name |-> W, type |-> "A"], [name |-> X, type |-> "A"]}
MCLiesAn == {Fact(W, "A", Bad), Fact(X, "CNAME", NE), Fact(X, "CNAME", ZV), Fact(NE, "CNAME", X), Fact(NV, "A", EIp)}
MCLiesAu == {Fact(V, "NS", NE), Fact(E, "NS", NV), Fact(E, "NS", LocalHost), Fact(X, "SOA", <<"soa">>)}
MCLiesAd == {Fact(W, "A", Bad), Fact(NV, "A", EIp), Fact(W, "CNAME", X)}
MCLocal == {LocalHost}
MCZones == {Root, V, E}

MCNamesOnWire == {<<<<1>>>>, <<<<2>>, <<1>>>>, <<<<3>>, <<2>>, <<1>>>>, <<<<3>>>>}
MCReceived == UNION {[1..n -> {0, 1, 2, 6, 7}] : n \in 1..4}
MCTexts == UNION {[1..n -> UNION {[1..k -> {97, 65, 46, 92, 48, 55, 200, 32}] : k \in 1..2}] : n \in 0..1}
            \cup {<<<<97, 49>>, <<0, 49>>>>, <<<<92>>, <<46>>>>}

(* Texts: with dots, with alternatives, in numbers.                           *)
MCHostNames == {<<"h">>, <<"h", ".", "d", "+", "+", "e", ".">>,
                <<"[", "1", ".", "1", ".", "1", ".", "1", "]">>}
MCExact == {<<"h">>}
MCEnvs == {
  [localdomain |-> Missing, cacheip |-> <<>>, host |-> <<".", "d">>],
  [localdomain |-> <<<<"d">>, <<>>, <<"e">>>>, cacheip |-> <<"ip9">>, host |-> <<>>]}
Rewrite(kind, from, to) == [kind |-> kind, from |-> from, to |-> to]
MCFiles == {
  [rewrite |-> Missing, resolv |-> Missing],
  [rewrite |-> Missing, resolv |-> Unread],
  [rewrite |-> Unread, resolv |-> Missing],
  [rewrite |-> Missing,
   resolv |-> [search |-> <<<<"e">>, <<"d">>>>, servers |-> <<"ip1", "0.0.0.0">>]],
  [rewrite |-> <<Rewrite("=", <<"h">>, <<"1", ".", "1", "+", "]", "+", ".", "1", ".", "1">>),
                 Rewrite("#", <<>>, <<"d">>),
                 Rewrite("-", <<"d">>, <<"x", "+", ".", "e", "+", ".", "d">>),
                 Rewrite("*", <<".">>, <<>>)>>,
   resolv |-> [search |-> Missing, servers |-> <<>>]]}
Item(t, data) == [type |-> t, data |-> data]
MCPackets == {Unread, <<>>,
  <<Item("A", "ip1"), Item("CNAME", "c"), Item("A", "ip2"), Item("MX", "m"), Item("PTR", "p"), Item("TXT", <<"t">>)>>}

TransmitOnly ==
    part = "transmit" /\ Next /\ UNCHANGED <<part, qvars, packetVars, qualifyVars>>
QueryOnly == part = "query" /\ QNext /\ UNCHANGED <<part, vars, packetVars, qualifyVars>>
PacketOnly == part = "packet" /\ P!PNext /\ UNCHANGED <<part, vars, qvars, qualifyVars>>
QualifyOnly == part = "qualify" /\ Host!QualifyNext /\ UNCHANGED <<part, vars, qvars, packetVars>>

\* The parts that do not run have one initial state.
ResolverInit ==
    /\ part \in {"transmit", "query", "packet", "qualify"}
    /\ Init /\ QInit /\ P!PInit /\ Host!QualifyInit
    /\ part # "query" => world = CHOOSE w \in Worlds : TRUE
    /\ part # "packet" => ours
    /\ part # "qualify" => files = (CHOOSE f \in Files : TRUE) /\ env = CHOOSE e \in Envs : TRUE

ResolverSpec ==
    /\ ResolverInit
    /\ [][TransmitOnly \/ QueryOnly \/ PacketOnly \/ QualifyOnly]_<<part, vars, qvars, packetVars,
                                                                  qualifyVars>>
    /\ WF_vars(part = "transmit" /\ Loop)
    /\ WF_vars(part = "transmit" /\ TimedOut)
    /\ WF_qvars(part = "query" /\ Runs)

-----------------------------------------------------------------------------
\* The types of the four parts.
ResolverTypeOK ==
    CASE part = "transmit" -> TypeOK
      [] part = "query" -> QTypeOK
      [] part = "packet" -> P!PTypeOK
      [] part = "qualify" -> Host!QualifyTypeOK

\* response.c, dns_packet.c, dns_dfd.c, dns_dtda.c: names survive being written
\* with pointers and read, in any message only names are read, and the text
\* form of a name is read back as that name.  dns_ipq.c, dns_rcrw.c, dns_rcip.c:
\* a host name is asked for as the files of the last ten minutes mean it, in the
\* order they say, and of the servers they name.
NamesSurvive ==
    /\ part = "packet" => P!NamesReadBack /\ P!ReadsNamesOnly /\ (written = {} => P!TextReadsBack)
    /\ part = "qualify" => Host!FirstThatAnswers /\ Host!AsksRecentServers

\* response.c: every remembered name lies where a pointer can point.
PointersInRange == P!PointersInRange

\* dns_transmit.c, query.c: every question ends, every query ends.
ResolverEnds == TransmitEnds /\ QueryDone
=============================================================================
