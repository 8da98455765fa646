------------------------------- MODULE Query -------------------------------
(* The recursive engine, query.c: a question is chased from the configured  *)
(* roots down the referrals, the addresses of name servers are questions of *)
(* a lower level, aliases begin again, and what the packets say goes into a *)
(* cache that later questions are answered from.  Who may speak for which   *)
(* name is decided here; dns_transmit and the cache are the outside.        *)
EXTENDS Naturals, Sequences, FiniteSets

CONSTANTS
  NameSet,       \* the names that occur, as sequences of labels
  LocalNames,    \* answered without asking: localhost, a dotted address
  Truth,         \* the records of the world, as their owners would have them
  Zones,         \* the zones of the world
  Serves,        \* the zone each address serves
  Worlds,        \* what the program may run in, each with roots, the files of servers/
                 \* (addresses by zone), honest, the addresses that answer truly,
                 \* protects, a zone, and leads, the name servers that lead to it
  LiesAn, LiesAu, LiesAd, \* records the others put into the sections
  Wanted,        \* what clients ask: names and types
  MaxLies,       \* bound: how many of them in one section
  MaxLevel, MaxAlias, MaxNs, LoopMax, \* QUERY_MAXLEVEL, _MAXALIAS, _MAXNS and the 100 of loop
  MaxQueries, MaxForget \* bounds: questions, and entries the cache drops

Root == <<>>
Levels == 0..(MaxLevel - 1)
Types == {"A", "X", "NS", "CNAME"}
AnyRecord == Truth \cup LiesAn \cup LiesAu \cup LiesAd

dns_domain_suffix(big, little) ==
  \E i \in 0..Len(big) : SubSeq(big, i + 1, Len(big)) = little
SuffixesOf(n) == {SubSeq(n, i + 1, Len(n)) : i \in 0..Len(n)}

(* The configured zone nearest above a name                                 *)
Nearest(roots, n) ==
  CHOOSE z \in SuffixesOf(n) \cap DOMAIN roots :
     \A y \in SuffixesOf(n) \cap DOMAIN roots : Len(y) <= Len(z)
SameNearest(roots, n, m) == Nearest(roots, n) = Nearest(roots, m)

(* The names of the zone a world protects, and the names whose servers can be *)
(* led to, or believed, when one of those is looked for                      *)
ProtectedIn(w) == {n \in NameSet : w.protects \in SuffixesOf(n)}
GuardedIn(w, z) ==
  \E n \in ProtectedIn(w) : dns_domain_suffix(n, z) /\ SameNearest(w.roots, n, z)

ASSUME QueryConstants ==
  /\ MaxLevel \in Nat \ {0} /\ MaxAlias \in Nat \ {0} /\ MaxNs \in Nat
  /\ LoopMax \in Nat /\ MaxQueries \in Nat /\ MaxLies \in Nat
  /\ NameSet \subseteq Seq(STRING) /\ \A n \in NameSet : SuffixesOf(n) \subseteq NameSet
  /\ Root \in NameSet
  /\ Zones \subseteq NameSet
  /\ \A r \in AnyRecord : r.owner \in NameSet /\ (r.type \in {"NS", "CNAME"} => r.data \in NameSet)
  /\ \A q \in Wanted : q.name \in NameSet /\ q.type \in Types

(* Every zone of the world has name servers; "user misconfiguration" (no      *)
(* servers for the root) is left out.                                        *)
ASSUME Configured ==
  /\ \A z \in Zones \ {Root} : \E r \in Truth : r.owner = z /\ r.type = "NS"
  /\ \A w \in Worlds : Root \in DOMAIN w.roots /\ DOMAIN w.roots \subseteq NameSet

(* What protects a zone: only truthful servers lead to it, by their addresses *)
(* in servers/ or by names that lead to no other names.                      *)
ASSUME OnlyTruthLeads ==
  \A w \in Worlds :
    /\ \A z \in DOMAIN w.roots : GuardedIn(w, z) => w.roots[z] \subseteq w.honest
    /\ \A n \in w.leads : n \in NameSet \ LocalNames /\ GuardedIn(w, n)
    /\ \A r \in Truth :
         /\ r.type = "NS" /\ GuardedIn(w, r.owner) => r.data \in w.leads
         /\ r.type = "CNAME" /\ r.owner \in w.leads => r.data \in w.leads
         /\ r.type = "A" /\ r.owner \in w.leads => r.data \in w.honest

VARIABLES
  at,       \* the label the code has come to: NEWNAME, HAVENS, WAIT, LOWERLEVEL, ... or "idle"
  loop, level, name, control, ns, zservers, alias, type, cname,
  cache,    \* cache.c: type and name to [data, or nothing]
  world,    \* the one of Worlds the program runs in
  reply,    \* the response built last: the chain of names and the records
  queries, forgot

qvars == <<at, loop, level, name, control, ns, zservers, alias, type, cname,
           cache, world, reply, queries, forgot>>
rarely == <<world, queries, forgot>>

Absent == [known |-> FALSE, data |-> {}]
NoReply == [chain |-> <<>>, data |-> {}, rcode |-> "none"]

roots_search(n) == Nearest(world.roots, n)
roots_same(n, m) == SameNearest(world.roots, n, m)

typematch(rtype, qtype) == rtype = qtype
Dtype == IF level = 0 THEN type ELSE "A"
Dname == name[level]
Cached(t, n) == cache[<<t, n>>].known
Store(c, t, n, data) == [c EXCEPT ![<<t, n>>] = [known |-> TRUE, data |-> data]]

-----------------------------------------------------------------------------
(* cleanup() and the ways out: a response, or DIE without one.              *)
cleanup ==
  /\ at' = "idle" /\ level' = 0
  /\ name' = [l \in Levels |-> Root] /\ control' = [l \in Levels |-> Root]
  /\ ns' = [l \in Levels |-> {}] /\ zservers' = [l \in Levels |-> {}]
  /\ alias' = <<>> /\ cname' = Root

(* rqa(): the question as the client put it, then every alias in turn.      *)
rqa(data, rcode) ==
  reply' = [chain |-> alias \o <<name[0]>>, data |-> data, rcode |-> rcode]

Answer(data, rcode) == cleanup /\ rqa(data, rcode) /\ UNCHANGED type /\ UNCHANGED rarely
DIE == cleanup /\ reply' = NoReply /\ UNCHANGED <<type, rarely>>

Goto(label) == at' = label /\ UNCHANGED <<type, reply, rarely>>

query_start ==
  /\ at = "idle" /\ queries < MaxQueries /\ queries' = queries + 1
  /\ \E w \in Wanted : name' = [name EXCEPT ![0] = w.name] /\ type' = w.type
  /\ at' = "NEWNAME" /\ loop' = 0 /\ level' = 0 /\ reply' = NoReply
  /\ UNCHANGED <<control, ns, zservers, alias, cname, cache, world, forgot>>

-----------------------------------------------------------------------------
(* NEWNAME: what is known without asking, in the order of the code.         *)
InTime == loop + 1 < LoopMax /\ loop' = loop + 1

TooLong ==
  /\ at \in {"NEWNAME", "WAIT"} /\ loop + 1 = LoopMax /\ loop' = LoopMax
  /\ DIE /\ UNCHANGED cache

(* Addresses found at a level serve the level above it.                     *)
LowerWith(addresses) ==
  /\ zservers' = [zservers EXCEPT ![level - 1] = @ \cup addresses]
  /\ Goto("LOWERLEVEL") /\ UNCHANGED <<level, name, control, ns, alias, cname>>

Known(data) ==
  IF level > 0 THEN LowerWith(data) ELSE Answer(data, "ok")

globalip ==
  /\ at = "NEWNAME" /\ InTime /\ Dname \in LocalNames
  /\ Known(IF typematch("A", Dtype) THEN {<<"127.0.0.1">>} ELSE {})
  /\ UNCHANGED cache

CachedNxdomain ==
  /\ at = "NEWNAME" /\ InTime /\ Dname \notin LocalNames /\ Cached("ANY", Dname)
  /\ Goto("NXDOMAIN") /\ UNCHANGED <<level, name, control, ns, zservers, alias, cname, cache>>

CachedCname ==
  /\ at = "NEWNAME" /\ InTime /\ Dname \notin LocalNames
  /\ ~Cached("ANY", Dname) /\ Cached("CNAME", Dname)
  /\ IF typematch("CNAME", Dtype) THEN Answer(cache[<<"CNAME", Dname>>].data, "ok")
     ELSE /\ cname' \in cache[<<"CNAME", Dname>>].data
          /\ Goto("CNAME") /\ UNCHANGED <<level, name, control, ns, zservers, alias>>
  /\ UNCHANGED cache

CachedAnswer ==
  /\ at = "NEWNAME" /\ InTime /\ Dname \notin LocalNames
  /\ ~Cached("ANY", Dname) /\ ~Cached("CNAME", Dname) /\ Cached(Dtype, Dname)
  /\ Known(cache[<<Dtype, Dname>>].data)
  /\ UNCHANGED cache

(* Nothing is known: the nearest configured zone, or the nearest one below  *)
(* it whose name servers the cache has, unless the level is too deep.       *)
NearestCached ==
  {z \in SuffixesOf(Dname) : level < 2 /\ Cached("NS", z) /\ cache[<<"NS", z>>].data # {}}

(* Of many name servers MaxNs are kept.                                     *)
SomeNs(S) ==
  {T \in SUBSET S : IF Cardinality(S) <= MaxNs THEN T = S ELSE Cardinality(T) = MaxNs}

StartAt(z) == \A y \in NearestCached \cup {roots_search(Dname)} : Len(y) <= Len(z)

ChooseServers ==
  /\ at = "NEWNAME" /\ InTime /\ Dname \notin LocalNames
  /\ ~Cached("ANY", Dname) /\ ~Cached("CNAME", Dname) /\ ~Cached(Dtype, Dname)
  /\ \/ /\ StartAt(roots_search(Dname))
        /\ control' = [control EXCEPT ![level] = roots_search(Dname)]
        /\ zservers' = [zservers EXCEPT ![level] = world.roots[roots_search(Dname)]]
        /\ ns' = [ns EXCEPT ![level] = {}]
     \/ \E z \in NearestCached \ {roots_search(Dname)} :
          /\ StartAt(z)
          /\ control' = [control EXCEPT ![level] = z]
          /\ zservers' = [zservers EXCEPT ![level] = {}]
          /\ \E some \in SomeNs(cache[<<"NS", z>>].data) : ns' = [ns EXCEPT ![level] = some]
  /\ Goto("HAVENS") /\ UNCHANGED <<level, name, alias, cname, cache>>

-----------------------------------------------------------------------------
(* HAVENS: the addresses of the name servers first, while there are levels; *)
(* then the question is sent.                                               *)
NextNs ==
  /\ at = "HAVENS"
  /\ \E n \in ns[level] :
       /\ ns' = [ns EXCEPT ![level] = @ \ {n}]
       /\ IF level + 1 < MaxLevel
          THEN level' = level + 1 /\ name' = [name EXCEPT ![level + 1] = n] /\ Goto("NEWNAME")
          ELSE UNCHANGED <<level, name>> /\ Goto("HAVENS")
  /\ UNCHANGED <<loop, control, zservers, alias, cname, cache>>

Send ==
  /\ at = "HAVENS" /\ ns[level] = {}
  /\ IF zservers[level] = {} THEN Goto("SERVFAIL") ELSE Goto("WAIT")
  /\ UNCHANGED <<loop, level, name, control, ns, zservers, alias, cname, cache>>

NotSent ==
  /\ at = "HAVENS" /\ ns[level] = {} /\ zservers[level] # {}
  /\ DIE /\ UNCHANGED <<loop, cache>>

LOWERLEVEL ==
  /\ \/ at = "LOWERLEVEL"
     \/ at \in {"NXDOMAIN", "SERVFAIL"} /\ level > 0
  /\ name' = [name EXCEPT ![level] = Root] /\ ns' = [ns EXCEPT ![level] = {}]
  /\ level' = level - 1 /\ Goto("HAVENS")
  /\ UNCHANGED <<loop, control, zservers, alias, cname, cache>>

NoName ==
  /\ at \in {"NXDOMAIN", "SERVFAIL"} /\ level = 0
  /\ Answer({}, at) /\ UNCHANGED <<loop, cache>>

(* CNAME: at level 0 the name becomes an alias of the answer; below, the    *)
(* name is only replaced.                                                   *)
CNAME ==
  /\ at = "CNAME"
  /\ IF level = 0 /\ Len(alias) = MaxAlias THEN DIE
     ELSE /\ alias' = IF level = 0 THEN Append(alias, name[0]) ELSE alias
          /\ name' = [name EXCEPT ![level] = cname]
          /\ Goto("NEWNAME") /\ UNCHANGED <<level, control, ns, zservers, cname>>
  /\ UNCHANGED <<loop, cache>>

-----------------------------------------------------------------------------
(* A packet: rcode and the records of its three sections.  A truthful server*)
(* speaks for its zone only: the records, no such name, nothing of the type,*)
(* or the name servers of the zone below with their addresses.              *)
Record(owner, t, data) == [owner |-> owner, type |-> t, data |-> data]
Has(t) == {r \in Truth : r.owner = Dname /\ r.type \in {t, "CNAME"}}
ZonesBelow(z) == {y \in Zones \cap SuffixesOf(Dname) : y # z /\ dns_domain_suffix(y, z)}

(* There is such a name when something belongs to it or to a name below.     *)
Exists(n) == \E r \in Truth : dns_domain_suffix(r.owner, n)

Truthful(z) ==
  IF ~dns_domain_suffix(Dname, z) THEN {}
  ELSE IF ZonesBelow(z) = {} THEN
    {[rcode |-> IF Exists(Dname) THEN 0 ELSE 3,
      an |-> Has(Dtype), ad |-> {},
      au |-> IF Has(Dtype) = {} THEN {Record(z, "SOA", <<"soa">>)} ELSE {}]}
  ELSE LET child == CHOOSE y \in ZonesBelow(z) : \A x \in ZonesBelow(z) : Len(y) <= Len(x)
           nsrr == {r \in Truth : r.owner = child /\ r.type = "NS"}
       IN {[rcode |-> 0, an |-> {}, au |-> nsrr,
            ad |-> {r \in Truth : r.type = "A" /\ \E s \in nsrr : s.data = r.owner}]}

SomeOf(S) == {T \in SUBSET S : Cardinality(T) <= MaxLies}
Lies == [rcode : {0, 3}, an : SomeOf(LiesAn), au : SomeOf(LiesAu), ad : SomeOf(LiesAd)]
Says(a) == IF a \in world.honest THEN Truthful(Serves[a]) ELSE Lies

(* HAVEPACKET: what the answer and the authority section show.              *)
Out(p) == \E r \in p.an : r.owner = Dname /\ typematch(r.type, Dtype)
Cnames(p) == {r.data : r \in {x \in p.an : x.owner = Dname /\ x.type = "CNAME" /\ Dtype # "CNAME"}}
Soa(p) == \E r \in p.au : r.type = "SOA"
Referrals(p) == {r.owner : r \in {x \in p.au : x.type = "NS"}}
OnlyReferral(p) == ~Out(p) /\ ~Soa(p) /\ Referrals(p) # {}

(* A server that sends us no further down its zone is struck off the list.  *)
LameFor(p, ref) ==
  /\ Cnames(p) = {} /\ p.rcode = 0 /\ OnlyReferral(p)
  /\ ref = control[level] \/ ~dns_domain_suffix(ref, control[level])

(* Of all sections, what lies in the zone the server was asked about, and not*)
(* below another configured root, goes into the cache.                      *)
SlipBelieved(p) ==
  {r \in p.an \cup p.au \cup p.ad : r.type \in Types /\ roots_same(r.owner, control[level])}
Believed(p) ==
  {r \in p.an \cup p.au \cup p.ad :
     /\ r.type \in Types
     /\ dns_domain_suffix(r.owner, control[level])
     /\ roots_same(r.owner, control[level])}

CachedFrom(p) ==
  [k \in DOMAIN cache |->
     LET data == {r.data : r \in {x \in Believed(p) : x.type = k[1] /\ x.owner = k[2]}}
     IN IF data = {} THEN cache[k] ELSE [known |-> TRUE, data |-> data]]

NoData(p) == ~Out(p) /\ Soa(p) /\ Dtype # "CNAME"

(* Actions on the packet of one server.                                     *)
Lame(a, p) ==
  /\ \E ref \in Referrals(p) : LameFor(p, ref)
  /\ zservers' = [zservers EXCEPT ![level] = @ \ {a}]
  /\ Goto("HAVENS") /\ UNCHANGED <<level, name, control, ns, alias, cname, cache>>

HaveCname(p) ==
  /\ cname' \in Cnames(p) /\ cache' = CachedFrom(p)
  /\ Goto("CNAME") /\ UNCHANGED <<level, name, control, ns, zservers, alias>>

HaveNxdomain(p) ==
  /\ Cnames(p) = {} /\ p.rcode = 3
  /\ cache' = Store(CachedFrom(p), "ANY", Dname, {})
  /\ Goto("NXDOMAIN") /\ UNCHANGED <<level, name, control, ns, zservers, alias, cname>>

HaveAnswer(p) ==
  /\ Cnames(p) = {} /\ p.rcode = 0 /\ ~OnlyReferral(p)
  /\ cache' = IF NoData(p) THEN Store(CachedFrom(p), Dtype, Dname, {}) ELSE CachedFrom(p)
  /\ Known({r.data : r \in {x \in p.an : x.owner = Dname /\ typematch(x.type, Dtype)}})

GoesDown(ref) == dns_domain_suffix(Dname, ref)

HaveReferral(p) ==
  \E ref \in Referrals(p) :
    /\ Cnames(p) = {} /\ p.rcode = 0 /\ OnlyReferral(p) /\ ~LameFor(p, ref)
    /\ cache' = CachedFrom(p)
    /\ IF ~GoesDown(ref) THEN DIE
       ELSE /\ control' = [control EXCEPT ![level] = ref]
            /\ zservers' = [zservers EXCEPT ![level] = {}]
            /\ \E some \in SomeNs({r.data : r \in {x \in p.au : x.owner = ref /\ x.type = "NS"}}) :
                 ns' = [ns EXCEPT ![level] = some]
            /\ Goto("HAVENS") /\ UNCHANGED <<level, name, alias, cname>>

HAVEPACKET ==
  /\ at = "WAIT" /\ InTime
  /\ \E a \in zservers[level] : \E p \in Says(a) :
       Lame(a, p) \/ HaveCname(p) \/ HaveNxdomain(p) \/ HaveAnswer(p) \/ HaveReferral(p)

(* A packet whose records cannot be read ends the query.                    *)
Unreadable ==
  /\ at = "WAIT" /\ InTime /\ ~(zservers[level] \subseteq world.honest)
  /\ DIE /\ UNCHANGED cache

(* query_get() with -1: no server of the list answered.                     *)
Unanswered ==
  /\ at = "WAIT" /\ Goto("SERVFAIL")
  /\ UNCHANGED <<loop, level, name, control, ns, zservers, alias, cname, cache>>

(* cache.c is a ring: an entry goes when its time or its space is over.     *)
Forgotten ==
  /\ forgot < MaxForget /\ forgot' = forgot + 1
  /\ \E k \in DOMAIN cache : cache[k].known /\ cache' = [cache EXCEPT ![k] = Absent]
  /\ UNCHANGED <<at, loop, level, name, control, ns, zservers, alias, type, cname, world, reply, queries>>

-----------------------------------------------------------------------------
QInit ==
  /\ at = "idle" /\ loop = 0 /\ level = 0
  /\ name = [l \in Levels |-> Root] /\ control = [l \in Levels |-> Root]
  /\ ns = [l \in Levels |-> {}] /\ zservers = [l \in Levels |-> {}]
  /\ alias = <<>> /\ type = "A" /\ cname = Root
  /\ cache = [k \in (Types \cup {"ANY"}) \X NameSet |-> Absent]
  /\ world \in Worlds /\ reply = NoReply /\ queries = 0 /\ forgot = 0

Runs ==
  \/ TooLong \/ globalip \/ CachedNxdomain \/ CachedCname \/ CachedAnswer \/ ChooseServers
  \/ NextNs \/ Send \/ NotSent \/ LOWERLEVEL \/ NoName \/ CNAME \/ HAVEPACKET \/ Unreadable \/ Unanswered

QNext == query_start \/ Runs \/ Forgotten

(* doit() runs until it sends, and what is sent ends (Transmit).            *)
QSpec == QInit /\ [][QNext]_qvars /\ WF_qvars(Runs)

-----------------------------------------------------------------------------
SomeData == {r.data : r \in AnyRecord} \cup {<<"127.0.0.1">>} \cup UNION {world.roots[z] : z \in DOMAIN world.roots}

QTypeOK ==
  /\ at \in {"idle", "NEWNAME", "HAVENS", "WAIT", "LOWERLEVEL", "NXDOMAIN", "SERVFAIL", "CNAME"}
  /\ loop \in 0..LoopMax /\ level \in Levels /\ Len(alias) <= MaxAlias
  /\ \A l \in Levels : /\ name[l] \in NameSet /\ control[l] \in NameSet
                        /\ ns[l] \subseteq SomeData /\ zservers[l] \subseteq SomeData
  /\ \A k \in DOMAIN cache : cache[k].data \subseteq SomeData

(* What the program thinks it may ask the servers of a level about is always*)
(* above the name of that level, through aliases, referrals and the return  *)
(* from a lower level: control points into the name it was found in.        *)
ControlAboveName ==
  at \in {"HAVENS", "WAIT"} => \A l \in 0..level : dns_domain_suffix(name[l], control[l])

(* The protected names: those of a zone whose own servers tell the truth,   *)
(* and to which only truthful servers lead.                                 *)
Protected == ProtectedIn(world)
TrueData(t, n) == {r.data : r \in {x \in Truth : x.owner = n /\ x.type = t}}

(* What may be remembered of a name under a type: its data; under ANY, that  *)
(* there is no such name.                                                    *)
Right(t, n, data) == IF t = "ANY" THEN ~Exists(n) ELSE data = TrueData(t, n)

(* Whatever lying servers of other zones put into their packets, with       *)
(* whatever order of questions, aliases and forgotten entries, nothing false*)
(* is remembered of a protected name: neither records that it has not, nor   *)
(* that it lacks a type which it has, nor that it does not exist.            *)
NeverPoisoned ==
  \A k \in DOMAIN cache : k[2] \in Protected /\ cache[k].known =>
    Right(k[1], k[2], cache[k].data)

(* An answer begins with the name the client asked and follows aliases; what*)
(* it says of protected names is true, "no such name" included.             *)
AnswerIsTrue ==
  at = "idle" /\ reply.rcode # "none" =>
    LET last == reply.chain[Len(reply.chain)]
    IN /\ last \in Protected \ LocalNames =>
            /\ reply.rcode = "ok" => reply.data = TrueData(type, last)
            /\ reply.rcode = "NXDOMAIN" => ~Exists(last)
       /\ \A i \in 1..(Len(reply.chain) - 1) :
            reply.chain[i] \in Protected => reply.chain[i + 1] \in TrueData("CNAME", reply.chain[i])

(* query.c: lying servers neither steer the search out of the names they were *)
(* asked about, nor poison the cache, nor the answers given from it.         *)
LiesAreKeptOut == ControlAboveName /\ NeverPoisoned /\ AnswerIsTrue

(* Every query ends, whatever the servers say.                              *)
QueryDone == at # "idle" ~> at = "idle"

-----------------------------------------------------------------------------
(* The inductive invariant of LiesAreKeptOut                                *)
Guarded(z) == GuardedIn(world, z)

(* The levels whose control and servers count: the one that runs, once they   *)
(* are found, and those that wait for an address                            *)
InUse == 0..(IF at \in {"HAVENS", "WAIT"} THEN level ELSE level - 1)

(* A level asks about names below its control, under the same configured     *)
(* zone, and has truthful servers when a guarded name may be there.          *)
Steered ==
  \A l \in InUse :
    /\ dns_domain_suffix(name[l], control[l]) /\ roots_same(name[l], control[l])
    /\ Guarded(control[l]) => zservers[l] \subseteq world.honest /\ ns[l] \subseteq world.leads

(* A level below such a one looks for the address of a server that leads there. *)
Led == \A l \in 1..level : Guarded(control[l - 1]) => name[l] \in world.leads

(* What is remembered of a guarded name is true, more than NeverPoisoned asks. *)
TrueCache ==
  \A k \in DOMAIN cache : Guarded(k[2]) /\ cache[k].known =>
    Right(k[1], k[2], cache[k].data)

(* The alias just found, or that there is no such name; and the aliases found *)
(* before                                                                    *)
TrueFound ==
  Guarded(Dname) => /\ at = "CNAME" => cname \in TrueData("CNAME", Dname)
                    /\ at = "NXDOMAIN" => ~Exists(Dname)

TrueChain ==
  LET chain == alias \o <<name[0]>>
  IN \A i \in 1..Len(alias) :
       chain[i] \in Protected => chain[i + 1] \in TrueData("CNAME", chain[i])

(* The fields have their types.                                              *)
Fields ==
  /\ at \in {"idle", "NEWNAME", "HAVENS", "WAIT", "LOWERLEVEL", "NXDOMAIN", "SERVFAIL", "CNAME"}
  /\ loop \in 0..LoopMax /\ level \in Levels /\ (at = "idle" => level = 0 /\ alias = <<>>)
  /\ (at = "LOWERLEVEL" => level > 0)
  /\ name \in [Levels -> NameSet] /\ control \in [Levels -> NameSet]
  /\ ns \in [Levels -> SUBSET (NameSet \cap SomeData)] /\ zservers \in [Levels -> SUBSET SomeData]
  /\ alias \in Seq(NameSet) /\ Len(alias) <= MaxAlias
  /\ type \in Types /\ cname \in NameSet /\ world \in Worlds
  /\ cache \in [(Types \cup {"ANY"}) \X NameSet -> [known : BOOLEAN, data : SUBSET SomeData]]
  /\ \A n \in NameSet : cache[<<"NS", n>>].data \cup cache[<<"CNAME", n>>].data \subseteq NameSet

QueryIInv ==
  /\ Fields /\ Steered /\ Led /\ TrueCache /\ TrueFound /\ TrueChain /\ AnswerIsTrue
=============================================================================
