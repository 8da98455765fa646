------------------------------- MODULE Lookup -------------------------------
(***************************************************************************)
(* How vdnsd finds an answer: doit in server.c, respond and doit in          *)
(* tdlookup.c, with the message built by response.c.                         *)
(*                                                                         *)
(* respond chooses the asker's place by the LOQ record of what is asked.     *)
(* doit climbs from the name to the zone it is in (control), climbs again    *)
(* from the name to the wildcards above it (wild), and then fills the        *)
(* authority and the additional section.  The message is three sequences of  *)
(* records; its size is counted in records.                                  *)
(***************************************************************************)
EXTENDS ZoneData, Integers, FiniteSets, Order

CONSTANTS
    Label,          \* what names are made of
    Data,           \* the data files, each a sequence of lines
    Query,          \* the queries
    Geo,            \* Geo[client][map]: what ipdb_get finds
    MaxAddr,        \* 8: places in addr
    Question,       \* the size of header and question
    Clip,           \* 512
    Whole,          \* 65535
    Silence,        \* no answer
    Pending         \* no answer yet

ASSUME LookupConstants ==
    /\ MaxAddr \in Nat \ {0}
    /\ Question \in Nat /\ Clip \in Nat /\ Whole \in Nat
    /\ Question <= Clip /\ Clip <= Whole
    /\ Silence # Pending /\ NoMatch # Anywhere
    /\ {"ns", "mx"} \subseteq Label
    /\ Negative \in Nat
    /\ \A q \in Query : q.time \in Nat /\ q.name \in Seq(Label)
    /\ \A lines \in Data :
        /\ lines \in Seq(ToSet(lines))
        /\ \A l \in ToSet(lines) :
            /\ l.kind \in Kinds /\ l.ttl \in Nat /\ l.ttd \in Nat
            /\ l.name \in Seq(Label) /\ l.to \in Seq(Label)
            /\ l.kind = ":" => l.to[1] \notin {"NS", "MX"}
            /\ \A q \in Query : Geo[q.client][l.map] # Anywhere

VARIABLES
    db, loq,        \* the database, fixed
    query,          \* the query
    pc,
    clientloc,      \* the asker's place
    control,        \* the name of the zone
    authoritative,  \* flagauthoritative
    wild,           \* the name the answer is looked for under
    an, au, ar,     \* the sections of the message
    aa, rcode,      \* of its header
    bpos,           \* how many of its records were looked through
    reply

message == <<an, au, ar, aa, rcode>>
search == <<clientloc, control, authoritative, wild, bpos>>
vars == <<db, loq, query, pc, search, message, reply>>

RR(owner, of, ttl) == [owner |-> owner, of |-> of, ttl |-> ttl]
TypeOf(i) == db[i].type

-----------------------------------------------------------------------------
(* find                                                                    *)

\* Slip: a record that starts now is taken as well as the one that ends now.
InTime_Both(r) ==
    r.ttd = 0 \/ IF r.ttl = 0 THEN ~(r.ttd < query.time) ELSE ~(query.time < r.ttd)

\* The moment a record ends, when it has no ttl, or starts.
InTime(r) ==
    r.ttd = 0 \/ IF r.ttl = 0 THEN ~(r.ttd < query.time) ELSE r.ttd < query.time

\* A record that ends is given no longer than that: 2 to 3600 seconds.
Ttl(r) ==
    IF r.ttd = 0 \/ r.ttl # 0 THEN r.ttl
    ELSE LET left == r.ttd - query.time
         IN  IF left <= 2 THEN 2 ELSE IF left >= 3600 THEN 3600 ELSE left

\* The records find yields, one call after the other, until there are no more
Found(name, flagwild) ==
    InOrder({i \in DOMAIN db :
                /\ db[i].key = name
                /\ db[i].loc \in {Anywhere, clientloc}
                /\ db[i].wild = flagwild
                /\ InTime(db[i])})

Yields(name, type) == \E i \in ToSet(Found(name, FALSE)) : TypeOf(i) = type

\* want: nothing of that type was said of owner yet.
Want(owner, type) ==
    ~ \E rr \in ToSet(an \o au \o ar) : rr.owner = owner /\ TypeOf(rr.of) = type

GiveAll(owner, records) ==
    [i \in 1 .. Len(records) |-> RR(owner, records[i], Ttl(db[records[i]]))]

-----------------------------------------------------------------------------
(* The message                                                             *)

Size(a, u, r) == Question + Len(a) + Len(u) + Len(r)

Reply(what) == reply' = what /\ pc' = "idle"

\* Records are added.  When the message is full there is no answer at all.
Put(a, u, r, next) ==
    IF Size(a, u, r) <= Whole
    THEN an' = a /\ au' = u /\ ar' = r /\ pc' = next /\ UNCHANGED reply
    ELSE Reply(Silence) /\ UNCHANGED <<an, au, ar>>

Header(code, bit) ==
    [rcode |-> code, aa |-> bit, tc |-> FALSE, an |-> <<>>, au |-> <<>>, ar |-> <<>>]

-----------------------------------------------------------------------------
(* doit in server.c and respond                                            *)

\* A query comes; response_query and the flags.
Begin(q, next) ==
    /\ pc = "idle"
    /\ q.proper
    /\ query' = q
    /\ an' = <<>> /\ au' = <<>> /\ ar' = <<>>
    /\ aa' = (q.class = "IN")
    /\ reply' = Pending
    /\ pc' = next
    /\ UNCHANGED <<db, loq, search>>

\* NOQ: too long, an answer, not one question, or it cannot be read.
Ignore(q) ==
    /\ pc = "idle"
    /\ ~q.proper
    /\ query' = q
    /\ reply' = Silence
    /\ UNCHANGED <<db, loq, pc, search, message>>

Known(q) == q.class \in {"IN", "ANY"}

Ask(q) ==
    /\ Known(q)
    /\ q.opcode = 0 /\ q.type # "AXFR"
    /\ Begin(q, "respond")
    /\ rcode' = 0

\* WEIRDCLASS and NOTIMP, in that order
Refuse(q) ==
    /\ ~Known(q) \/ q.opcode # 0 \/ q.type = "AXFR"
    /\ Begin(q, "refused")
    /\ rcode' = IF Known(q) THEN 4 ELSE 1

Refused ==
    /\ pc = "refused"
    /\ Reply(Header(rcode, aa))
    /\ UNCHANGED <<db, loq, query, search, message>>

\* The asker's place, when there is a LOQ record for what it asks
Respond ==
    /\ pc = "respond"
    /\ LET first == SelectInSeq(loq, LAMBDA l :
                        l.type = query.type /\ l.name = query.name)
       IN  clientloc' = IF first = 0 THEN NoMatch ELSE Geo[query.client][loq[first].map]
    /\ control' = query.name
    /\ pc' = "climb"
    /\ UNCHANGED <<db, loq, query, authoritative, wild, bpos, message, reply>>

-----------------------------------------------------------------------------
(* doit in tdlookup.c                                                      *)

Climb ==
    /\ pc = "climb"
    /\ ~Yields(control, "NS")
    /\ control # <<>>
    /\ control' = Tail(control)
    /\ UNCHANGED <<db, loq, query, pc, clientloc, authoritative, wild, bpos, message, reply>>

\* "q is not within our bailiwick"
Outside ==
    /\ pc = "climb"
    /\ ~Yields(control, "NS")
    /\ control = <<>>
    /\ Reply(Silence)
    /\ UNCHANGED <<db, loq, query, search, message>>

\* The zone is ours, or "q is in a child zone".
ZoneFound ==
    /\ pc = "climb"
    /\ Yields(control, "NS")
    /\ authoritative' = Yields(control, "SOA")
    /\ wild' = IF authoritative' THEN query.name ELSE wild
    /\ aa' = (aa /\ authoritative')
    /\ pc' = IF authoritative' THEN "answer" ELSE "authority"
    /\ UNCHANGED <<db, loq, query, clientloc, control, bpos, an, au, ar, rcode, reply>>

\* What find yields under wild, the wildcards there except in the first pass
Pass == Found(wild, wild # query.name)

\* Slip: an alias is only for those that ask for it.
Chosen_NoAlias(records) ==
    Kept(records, {i \in ToSet(records) : TypeOf(i) = query.type \/ query.type = "ANY"})

\* One SOA is enough; a CNAME goes with everything.
Chosen(records) ==
    LET soas == {i \in ToSet(records) : TypeOf(i) = "SOA"}
    IN  Kept(records, {i \in ToSet(records) :
            /\ TypeOf(i) \in {query.type, "CNAME"} \/ query.type = "ANY"
            /\ TypeOf(i) = "SOA" => \A j \in soas : i <= j})

OfType(records, type) == Kept(records, {i \in ToSet(records) : TypeOf(i) = type})

\* The n-th address is put at a random place: into addr, whose own address
\* there moves to its end while there is room, or nowhere.
Shuffle(addr, n, a) ==
    (IF n > MaxAddr THEN {addr} ELSE {})
    \cup {IF n > MaxAddr THEN [addr EXCEPT ![i] = a]
          ELSE [Append(addr, IF i < n THEN addr[i] ELSE a) EXCEPT ![i] = a] :
            i \in 1 .. IF n < MaxAddr THEN n ELSE MaxAddr}

\* All that addr may be after the addresses of the list
Drawn(list) ==
    LET after[n \in 0 .. Len(list)] ==
            IF n = 0 THEN {<<>>} ELSE UNION {Shuffle(s, n, list[n]) : s \in after[n - 1]}
    IN  after[Len(list)]

\* Other records first, then the addresses, with the ttl of the last of them
Answer(records) ==
    LET found == OfType(records, "A")
        others == Kept(records, {i \in ToSet(records) : TypeOf(i) # "A"})
    IN  {GiveAll(query.name, others)
         \o [i \in 1 .. Len(s) |-> RR(query.name, s[i], Ttl(db[found[Len(found)]]))] :
            s \in Drawn(found)}

SomethingThere ==
    /\ pc = "answer"
    /\ Pass # <<>>
    /\ \E a \in Answer(Chosen(Pass)) : Put(a, au, ar, "authority")
    /\ UNCHANGED <<db, loq, query, search, aa, rcode>>

\* Slip: the wildcards above the zone are looked at as well.
WildUp_Root ==
    /\ pc = "answer"
    /\ Pass = <<>>
    /\ wild # <<>>
    /\ wild' = Tail(wild)
    /\ UNCHANGED <<db, loq, query, pc, clientloc, control, authoritative, bpos, message, reply>>

WildUp ==
    /\ pc = "answer"
    /\ Pass = <<>>
    /\ wild # control
    /\ wild' = Tail(wild)
    /\ UNCHANGED <<db, loq, query, pc, clientloc, control, authoritative, bpos, message, reply>>

\* response_nxdomain
NxDomain ==
    /\ pc = "answer"
    /\ Pass = <<>>
    /\ wild = control
    /\ rcode' = 3
    /\ aa' = TRUE
    /\ pc' = "authority"
    /\ UNCHANGED <<db, loq, query, search, an, au, ar, reply>>

\* Slip: the name servers are added even when they are the answer.
Authority_Always ==
    /\ pc = "authority"
    /\ Put(an, GiveAll(control, OfType(Found(control, FALSE), "NS")), ar, "additional")
    /\ bpos' = 0
    /\ UNCHANGED <<db, loq, query, clientloc, control, authoritative, wild, aa, rcode>>

\* The SOA when there is no answer, else the name servers if they are wanted
Authority ==
    /\ pc = "authority"
    /\ LET top == Found(control, FALSE)
           given == IF authoritative /\ an = <<>>
                    THEN SubSeq(OfType(top, "SOA"), 1, 1)
                    ELSE IF Want(control, "NS") THEN OfType(top, "NS")
                    ELSE <<>>
       IN  Put(an, GiveAll(control, given), ar, "additional")
    /\ bpos' = 0
    /\ UNCHANGED <<db, loq, query, clientloc, control, authoritative, wild, aa, rcode>>

\* The next record of the answer and the authority section: when it names a
\* server whose address is wanted, that is looked up.
Additional ==
    /\ pc = "additional"
    /\ bpos < Len(an \o au)
    /\ bpos' = bpos + 1
    /\ LET i == (an \o au)[bpos + 1].of
           more == IF TypeOf(i) \in {"NS", "MX"} /\ Want(db[i].data, "A")
                   THEN GiveAll(db[i].data, OfType(Found(db[i].data, FALSE), "A"))
                   ELSE <<>>
       IN  Put(an, au, ar \o more, "additional")
    /\ UNCHANGED <<db, loq, query, clientloc, control, authoritative, wild, aa, rcode>>

\* An authoritative answer is cut to Clip, and response_tc empties a datagram
\* that is still too long (the counts of its header are not modelled).
Send ==
    /\ pc = "additional"
    /\ bpos = Len(an \o au)
    /\ LET short == IF authoritative /\ Size(an, au, ar) > Clip THEN <<>> ELSE ar
           brief == IF authoritative /\ Size(an, au, short) > Clip THEN <<>> ELSE au
           full == [Header(rcode, aa) EXCEPT !.an = an, !.au = brief, !.ar = short]
       IN  Reply(IF query.udp /\ Size(an, brief, short) > Clip
                 THEN [Header(rcode, aa) EXCEPT !.tc = TRUE] ELSE full)
    /\ UNCHANGED <<db, loq, query, search, message>>

-----------------------------------------------------------------------------
Init ==
    /\ \E lines \in Data : db = RecordsOf(lines) /\ loq = LoqsOf(lines)
    /\ query \in Query
    /\ pc = "idle"
    /\ clientloc = NoMatch
    /\ control = <<>>
    /\ authoritative = FALSE
    /\ wild = <<>>
    /\ an = <<>> /\ au = <<>> /\ ar = <<>>
    /\ aa = FALSE
    /\ rcode = 0
    /\ bpos = 0
    /\ reply = Silence

LookUp ==
    \/ Refused \/ Respond \/ Climb \/ Outside \/ ZoneFound
    \/ SomethingThere \/ WildUp \/ NxDomain \/ Authority \/ Additional \/ Send

Next ==
    \/ LookUp
    \/ \E q \in Query : Ask(q) \/ Refuse(q) \/ Ignore(q)

Spec == Init /\ [][Next]_vars
-----------------------------------------------------------------------------
RRs == [owner : Seq(Label), of : 1 .. Len(db), ttl : Nat]

TypeOK ==
    /\ query \in Query
    /\ pc \in {"idle", "refused", "respond", "climb", "answer", "authority", "additional"}
    /\ clientloc # Anywhere
    /\ pc \in {"climb", "answer", "authority", "additional"} =>
        control \in Suffixes(query.name)
    /\ pc = "answer" => wild \in Suffixes(query.name) /\ Len(wild) >= Len(control)
    /\ authoritative \in BOOLEAN
    /\ \A rr \in ToSet(an \o au \o ar) : rr \in RRs
    /\ aa \in BOOLEAN
    /\ rcode \in {0, 1, 3, 4}
    /\ pc = "additional" => bpos \in 0 .. Len(an \o au)

\* Of a record that ends at some moment and one that takes its place then,
\* find yields exactly one at any time, that moment included.
HandOver ==
    pc # "idle" =>
        \A i, j \in 1 .. Len(db) :
            /\ db[i].ttd # 0 /\ db[i].ttd = db[j].ttd
            /\ db[i].ttl = 0 /\ db[j].ttl # 0
            => InTime(db[i]) # InTime(db[j])

\* Nobody that was given a record caches it for more than two seconds after its
\* end.  (Addresses that share the ttl of a record after them are excepted.)
NotCachedPastItsEnd ==
    reply # Silence =>
        \A rr \in ToSet(an \o au \o ar) :
            LET r == db[rr.of]
            IN  r.ttd # 0 /\ r.ttl = 0 /\ (r.type = "A" => rr.ttl = Ttl(r))
                => query.time + rr.ttl <= r.ttd + 2

Same(a, b) == a.owner = b.owner /\ a.of = b.of
Once(s) == \A i, j \in 1 .. Len(s) : Same(s[i], s[j]) => i = j

\* A record is in a message once, whatever sections ask for it.
NoTwice == Once(an \o au \o ar)

\* At the moment a record ends one takes its place, and no cache keeps it longer.
MomentsMeet == HandOver /\ NotCachedPastItsEnd

\* The answer found by climbing, drawing, wanting and clipping is the one the
\* records mean.
Sections(m) ==
    IF m \in {Silence, Pending} THEN m
    ELSE [m EXCEPT !.an = ToSet(@), !.au = ToSet(@), !.ar = ToSet(@)]

Meaning == INSTANCE DnsAnswer WITH reply <- Sections(reply)

ImplementsDnsAnswer == Meaning!Spec
-----------------------------------------------------------------------------
(* The inductive invariant of what is said once and of how long it is said    *)
(* to last.                                                                  *)

\* The times of the records and of the query are times.
Timed ==
    /\ Len(db) \in Nat /\ DOMAIN db = 1 .. Len(db)
    /\ \A i \in DOMAIN db : db[i].ttl \in Nat /\ db[i].ttd \in Nat
    /\ query.time \in Nat

\* A record of the message is one find yielded, with its ttl.
Sound(rr) ==
    /\ rr.of \in DOMAIN db
    /\ reply # Silence =>
        InTime(db[rr.of]) /\ (TypeOf(rr.of) # "A" => rr.ttl = Ttl(db[rr.of]))

SoundSection(s) == s \in Seq(ToSet(s)) /\ \A rr \in ToSet(s) : Sound(rr)

\* Until there is an answer it is awaited.
Busy == pc # "idle" => reply = Pending

\* A section is empty until its turn has come.
InTurn ==
    /\ pc \in {"respond", "climb", "answer"} => an = <<>>
    /\ pc \in {"respond", "climb", "answer", "authority"} => au = <<>> /\ ar = <<>>

\* A zone that is ours has an SOA.
Ours == pc \in {"answer", "authority"} /\ authoritative => Yields(control, "SOA")

\* Name servers and mail exchangers have names, and every map has a place for
\* everybody, if only NoMatch.
Named ==
    /\ \A i \in DOMAIN db : TypeOf(i) \in {"NS", "MX"} => db[i].data \in Seq(Label)
    /\ Len(loq) \in Nat
    /\ \A i \in 1 .. Len(loq), q \in Query : Geo[q.client][loq[i].map] # Anywhere

LookupIInv ==
    /\ Timed /\ Busy /\ SoundSection(an) /\ SoundSection(au) /\ SoundSection(ar)
    /\ InTurn /\ Ours /\ NoTwice
=============================================================================
