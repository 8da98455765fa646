----------------------------- MODULE DnsAnswer ------------------------------
(***************************************************************************)
(* What an answer has to be, given the records.  The asker's place decides   *)
(* which records exist for it, the moment which of those are in force.  The   *)
(* closest name above that has NS records is the zone.  Without its SOA the   *)
(* zone is someone else's: the answer is a referral.  With it the answer is   *)
(* what stands at the name or, when nothing does, at the closest wildcard     *)
(* above it in the zone; nothing at either is NXDOMAIN.                       *)
(***************************************************************************)
EXTENDS Naturals, FiniteSets, Sequences, SequencesExt, FiniteSetsExt

CONSTANTS
    Anywhere, NoMatch,  \* no location, and that of an unknown asker
    Geo,                \* Geo[client][map]: the place of a client in a map
    MaxAddr,            \* how many addresses one answer holds
    Question, Clip, Whole, \* sizes: the question, a small and a whole message
    Silence, Pending    \* no answer, and none yet

VARIABLES
    db, loq,            \* the records and the LOQ records (ZoneData)
    query,              \* the query
    reply               \* Silence, Pending or the answer, sections as sets

vars == <<db, loq, query, reply>>

\* A resource record of an answer: record of of the database, given to owner.
RR(owner, of, ttl) == [owner |-> owner, of |-> of, ttl |-> ttl]

TypeOf(i) == db[i].type

\* The asker's place in the map of the first LOQ record for what it asks.
Place ==
    LET hits == {i \in 1 .. Len(loq) :
                    loq[i].type = query.type /\ loq[i].name = query.name}
    IN  IF hits = {} THEN NoMatch ELSE Geo[query.client][loq[Min(hits)].map]

\* A record with a moment and no ttl ends then, with a ttl it starts after it.
InForce(r) ==
    r.ttd = 0 \/ IF r.ttl = 0 THEN query.time <= r.ttd ELSE r.ttd < query.time

Remaining(r) ==
    IF r.ttd # 0 /\ r.ttl = 0 THEN Max({2, Min({3600, r.ttd - query.time})}) ELSE r.ttl

Exists(r) == r.loc \in {Anywhere, Place} /\ InForce(r)

At(n, wild) ==
    {i \in 1 .. Len(db) : db[i].key = n /\ db[i].wild = wild /\ Exists(db[i])}

Above(n) == Suffixes(n)

Zones == {n \in Above(query.name) : \E i \in At(n, FALSE) : TypeOf(i) = "NS"}
Longest(names) == CHOOSE n \in names : \A m \in names : Len(m) <= Len(n)
Zone == Longest(Zones)
Ours == \E i \in At(Zone, FALSE) : TypeOf(i) = "SOA"

Wildcards ==
    {n \in Above(query.name) \ {query.name} : Len(n) >= Len(Zone) /\ At(n, TRUE) # {}}

Source ==
    IF At(query.name, FALSE) # {} THEN At(query.name, FALSE)
    ELSE IF Wildcards # {} THEN At(Longest(Wildcards), TRUE)
    ELSE {}

Wanted ==
    {i \in Source :
        /\ TypeOf(i) \in {query.type, "CNAME"} \/ query.type = "ANY"
        /\ TypeOf(i) = "SOA" => \A j \in Source : TypeOf(j) = "SOA" => i <= j}

Give(owner, records) == {RR(owner, i, Remaining(db[i])) : i \in records}

\* Of the addresses as many as an answer holds, whichever; they all get the ttl
\* of the last one.
Answers ==
    LET as == {i \in Wanted : TypeOf(i) = "A"}
        some == {s \in SUBSET as : Cardinality(s) = Min({MaxAddr, Cardinality(as)})}
    IN  {Give(query.name, Wanted \ as)
         \cup {RR(query.name, i, Remaining(db[Max(as)])) : i \in s} : s \in some}

NameServers == {i \in At(Zone, FALSE) : TypeOf(i) = "NS"}
FirstSoa == {Min({i \in At(Zone, FALSE) : TypeOf(i) = "SOA"})}

Has(rrs, owner, type) == \E rr \in rrs : rr.owner = owner /\ TypeOf(rr.of) = type

Authority(answer) ==
    IF Ours /\ answer = {} THEN Give(Zone, FirstSoa)
    ELSE IF Has(answer, Zone, "NS") THEN {}
    ELSE Give(Zone, NameServers)

\* The addresses of the servers that are named, unless they are there already.
Additional(rrs) ==
    LET named == {db[rr.of].data : rr \in {rr \in rrs : TypeOf(rr.of) \in {"NS", "MX"}}}
        missing == {n \in named : ~Has(rrs, n, "A")}
    IN  UNION {Give(n, {i \in At(n, FALSE) : TypeOf(i) = "A"}) : n \in missing}

Size(an, au, ar) == Question + Cardinality(an) + Cardinality(au) + Cardinality(ar)

Message(rcode, aa, tc, an, au, ar) ==
    [rcode |-> rcode, aa |-> aa, tc |-> tc, an |-> an, au |-> au, ar |-> ar]

\* What an authoritative answer has too much is left out from the end; what a
\* datagram still has too much is left out as a whole, and the answer says so.
Sent(rcode, aa, an, au, ar) ==
    LET short == IF Ours /\ Size(an, au, ar) > Clip THEN {} ELSE ar
        brief == IF Ours /\ Size(an, au, short) > Clip THEN {} ELSE au
    IN  IF Size(an, au, ar) > Whole THEN Silence
        ELSE IF query.udp /\ Size(an, brief, short) > Clip
        THEN Message(rcode, aa, TRUE, {}, {}, {})
        ELSE Message(rcode, aa, FALSE, an, brief, short)

Authoritative ==
    LET gone == Source = {}
    IN  {LET au == Authority(an)
         IN  Sent(IF gone THEN 3 ELSE 0, gone \/ query.class = "IN", an, au,
                  Additional(an \cup au)) : an \in Answers}

Referral ==
    Sent(0, FALSE, {}, Give(Zone, NameServers), Additional(Give(Zone, NameServers)))

Replies ==
    IF query.class \notin {"IN", "ANY"} THEN {Message(1, FALSE, FALSE, {}, {}, {})}
    ELSE IF query.opcode # 0 \/ query.type = "AXFR"
    THEN {Message(4, query.class = "IN", FALSE, {}, {}, {})}
    ELSE IF Zones = {} THEN {Silence}
    ELSE IF Ours THEN Authoritative ELSE {Referral}

-----------------------------------------------------------------------------
Init == reply = Silence

Ask ==
    /\ reply # Pending
    /\ query'.proper
    /\ reply' = Pending
    /\ UNCHANGED <<db, loq>>

\* What is no query is not answered.
Ignore ==
    /\ reply # Pending
    /\ ~query'.proper
    /\ reply' = Silence
    /\ UNCHANGED <<db, loq>>

Reply ==
    /\ reply = Pending
    /\ reply' \in Replies
    /\ UNCHANGED <<db, loq, query>>

Next == Ask \/ Ignore \/ Reply

Spec == Init /\ [][Next]_vars
=============================================================================
