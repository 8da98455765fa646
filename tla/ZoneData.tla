------------------------------ MODULE ZoneData ------------------------------
(***************************************************************************)
(* What vdnsdb (main in vdnsdb.c) makes of the lines of a data file:        *)
(* resource records, stored under their owner, and LOQ records, which say    *)
(* for a type and a name which geo map chooses among the records there.      *)
(*                                                                         *)
(* A name is the sequence of its labels, <<>> the root.  A '%' line of a geo *)
(* map is not here (see IpDb).                                              *)
(***************************************************************************)
EXTENDS Naturals, Sequences, SequencesExt

CONSTANTS
    Anywhere,       \* no location: hash 0
    NoMatch,        \* NOMATCH_HASH, the location of those no map knows
    NoAddress,      \* a field without an IP address
    Negative        \* TTL_NEGATIVE: the ttl of the SOA of a '.' line

Star == "*"

\* The leading characters of lines; any other ends vdnsdb.
Kinds == {"Z", ".", "&", "+", "=", "@", "C", "^", "'", ":"}

\* One line: its leading character, its owner, the name and the address it
\* points to, ttl, the moment it starts or ends (0: none), location, geo map.
Line(kind, name, to, ip, ttl, ttd, loc, map) ==
    [kind |-> kind, name |-> name, to |-> to, ip |-> ip, ttl |-> ttl,
     ttd |-> ttd, loc |-> loc, map |-> map]

\* rr_start and rr_finish: a record under its owner, in lower case; one for
\* *.name is stored under name and marked.
Record(owner, type, ttl, data, l) ==
    LET wild == owner # <<>> /\ owner[1] = Star
    IN  [key |-> IF wild THEN Tail(owner) ELSE owner,
         wild |-> wild, type |-> type, loc |-> l.loc, ttl |-> ttl,
         ttd |-> l.ttd, data |-> data]

\* rr_addloq: only a default line names the map.
Loq(type, name, l) ==
    IF l.loc = NoMatch
    THEN <<[type |-> type, name |-> name, map |-> l.map]>> ELSE <<>>

\* A target without a dot is a short name: x.ns.owner, x.mx.owner, or just
\* ns.owner and mx.owner when the field is empty.  Lines give a target of one
\* label without a dot, and the root never.
Target(l, infix) ==
    IF Len(l.to) <= 1 THEN l.to \o <<infix>> \o l.name ELSE l.to

\* The owner of the reverse record of an address
Reverse4(ip) == <<ip, "in-addr", "arpa">>

\* The address of a target, when the line gives one
GlueOf(name, l) ==
    IF l.ip = NoAddress THEN [rrs |-> <<>>, loqs |-> <<>>]
    ELSE [rrs |-> <<Record(name, "A", l.ttl, l.ip, l)>>, loqs |-> Loq("A", name, l)]

With(a, b) == [rrs |-> a.rrs \o b.rrs, loqs |-> a.loqs \o b.loqs]

Soa(ttl, server, l) ==
    [rrs |-> <<Record(l.name, "SOA", ttl, server, l)>>, loqs |-> Loq("SOA", l.name, l)]

\* The LOQ of a name server's record goes under the server's name.
NameServer(l) ==
    LET ns == Target(l, "ns")
    IN  With([rrs |-> <<Record(l.name, "NS", l.ttl, ns, l)>>, loqs |-> Loq("NS", ns, l)],
             GlueOf(ns, l))

Mail(l) ==
    LET mx == Target(l, "mx")
    IN  With([rrs |-> <<Record(l.name, "MX", l.ttl, mx, l)>>, loqs |-> Loq("MX", l.name, l)],
             GlueOf(mx, l))

\* The LOQ of a reverse record goes under the name it points to.
Host(l) ==
    IF l.kind = "=" /\ l.ip # NoAddress
    THEN With(GlueOf(l.name, l),
              [rrs |-> <<Record(Reverse4(l.ip), "PTR", l.ttl, l.name, l)>>,
               loqs |-> Loq("PTR", l.name, l)])
    ELSE GlueOf(l.name, l)

\* A CNAME is looked for by those that ask for an address as well.
Alias(l) ==
    [rrs |-> <<Record(l.name, "CNAME", l.ttl, l.to, l)>>,
     loqs |-> Loq("A", l.name, l) \o Loq("CNAME", l.name, l)]

Pointer(l) ==
    [rrs |-> <<Record(l.name, "PTR", l.ttl, l.to, l)>>, loqs |-> Loq("PTR", l.name, l)]

Text(l) ==
    [rrs |-> <<Record(l.name, "TXT", l.ttl, l.ip, l)>>, loqs |-> Loq("TXT", l.name, l)]

\* A line of any type but those that have lines of their own
Generic(l) ==
    [rrs |-> <<Record(l.name, l.to[1], l.ttl, l.ip, l)>>, loqs |-> Loq(l.to[1], l.name, l)]

Compiled(l) ==
    CASE l.kind = "Z" -> Soa(l.ttl, l.to, l)
      [] l.kind = "." ->
            With(Soa(IF l.ttl = 0 THEN 0 ELSE Negative, Target(l, "ns"), l), NameServer(l))
      [] l.kind = "&" -> NameServer(l)
      [] l.kind \in {"+", "="} -> Host(l)
      [] l.kind = "@" -> Mail(l)
      [] l.kind = "C" -> Alias(l)
      [] l.kind = "^" -> Pointer(l)
      [] l.kind = "'" -> Text(l)
      [] l.kind = ":" -> Generic(l)

\* The records of a whole file, in its order
RecordsOf(lines) == FlattenSeq([i \in 1 .. Len(lines) |-> Compiled(lines[i]).rrs])
LoqsOf(lines) == FlattenSeq([i \in 1 .. Len(lines) |-> Compiled(lines[i]).loqs])
=============================================================================
