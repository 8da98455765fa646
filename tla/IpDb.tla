-------------------------------- MODULE IpDb --------------------------------
(***************************************************************************)
(* The geo maps: ipdb_compile (db.pm, ip4.pm) turns ipmaps.xml into '%'      *)
(* lines, one CIDR block each, vdnsdb stores them, and ipdb_get (ipdb.c)     *)
(* looks an address up by trying the masks one after the other.             *)
(*                                                                         *)
(* The addresses modelled are those of one block of 2^W: the bits above are  *)
(* the same for all of them, and the masks are 32 - W to 32.                *)
(***************************************************************************)
EXTENDS Integers, Sequences, SequencesExt

CONSTANTS
    W,              \* how many low bits of an address vary
    Country,        \* the countries of the master database
    Geo,            \* Geo[c]: the ranges <<first, last>> of country c
    Block,          \* the entry that is not a country's: an ip class
    MapName,        \* the maps of ipmaps.xml
    Place,          \* what an address may be mapped to
    NoMatch,        \* defloc, the place of an address no map knows
    MaxAsked        \* bound: mapit inputs and exceptions, together

IpDbConstants ==
    /\ W \in 0 .. 31
    /\ "none" \notin MapName
    /\ Block \notin Country
    /\ NoMatch \notin Place
    /\ MaxAsked \in Nat

Address == 0 .. 2 ^ W - 1
Mask == 32 - W .. 32

GeoRanges ==
    \A c \in Country :
        /\ Geo[c] \in Seq(Address \X Address)
        /\ \A i \in 1 .. Len(Geo[c]) : Geo[c][i][1] <= Geo[c][i][2]

VARIABLES
    current,        \* the map being compiled, or "none"
    part,           \* what of it: "mapits", "exception" (the first one),
                    \* "exceptions"; "died" when the compiler has
    compiled,       \* the maps that were compiled
    rs,             \* $rs: the ranges of the current map
    lines,          \* loc.data, and the database made of it
    phase,          \* "compile" or "serve"
    asked,          \* history: what was asked for (GeoMap)
    answer          \* the last lookup

vars == <<current, part, compiled, rs, lines, phase, asked, answer>>

Size(m) == 2 ^ (32 - m)

\* The network an address is in, under a mask
Net(a, m) == a - (a % Size(m))

-----------------------------------------------------------------------------
(* ipdb_compile                                                            *)

NextMap(m) ==
    /\ phase = "compile"
    /\ current = "none"
    /\ m \notin compiled
    /\ current' = m
    /\ part' = "mapits"
    /\ UNCHANGED <<compiled, rs, lines, phase, asked, answer>>

Asked(kind, range, to) ==
    /\ Len(asked) < MaxAsked
    /\ asked' = Append(asked, [kind |-> kind, map |-> current,
                               range |-> range, to |-> to])

Entry(lo, hi, to, of) == [lo |-> lo, hi |-> hi, to |-> to, of |-> of]

\* A country: the entries of the master database themselves are pushed, so a
\* country that was named before in this map moves to the new place there too.
MapCountry(c, to) ==
    /\ current # "none"
    /\ part = "mapits"
    /\ Asked("mapit", UNION {Geo[c][i][1] .. Geo[c][i][2] : i \in 1 .. Len(Geo[c])}, to)
    /\ rs' = [i \in 1 .. Len(rs) |->
                IF rs[i].of = c THEN [rs[i] EXCEPT !.to = to] ELSE rs[i]]
             \o [i \in 1 .. Len(Geo[c]) |->
                    Entry(Geo[c][i][1], Geo[c][i][2], to, c)]
    /\ UNCHANGED <<current, part, compiled, lines, phase, answer>>

\* An ip class, which ip2db turns into a range
MapIp(a, m, to) ==
    /\ current # "none"
    /\ part = "mapits"
    /\ Asked("mapit", Net(a, m) .. Net(a, m) + Size(m) - 1, to)
    /\ rs' = Append(rs, Entry(Net(a, m), Net(a, m) + Size(m) - 1, to, Block))
    /\ UNCHANGED <<current, part, compiled, lines, phase, answer>>

\* What the exception e leaves of t: t itself when they do not meet (the
\* intersection is Number::Interval's), else what lies left and right of it.
Pieces(t, e) ==
    IF t.hi < e.lo \/ e.hi < t.lo THEN <<t>>
    ELSE (IF t.lo < e.lo THEN <<Entry(t.lo, e.lo - 1, t.to, Block)>> ELSE <<>>)
         \o (IF e.hi < t.hi THEN <<Entry(e.hi + 1, t.hi, t.to, Block)>> ELSE <<>>)

\* chk_except_match takes the targets from the end.
ChkExceptMatch(targets, e) ==
    FlattenSeq([i \in 1 .. Len(targets) |-> Pieces(Reverse(targets)[i], e)])

\* The elements <except> of a map: XMLin makes an array of two or more.
NextExcept == IF part = "mapits" THEN "exception" ELSE "exceptions"

\* Exceptions come after all mappings, and cut earlier exceptions as well.
Except(a, m, to) ==
    /\ current # "none"
    /\ part # "died"
    /\ Asked("except", Net(a, m) .. Net(a, m) + Size(m) - 1, to)
    /\ part' = NextExcept
    /\ LET e == Entry(Net(a, m), Net(a, m) + Size(m) - 1, to, Block)
       IN  rs' = Append(ChkExceptMatch(rs, e), e)
    /\ UNCHANGED <<current, compiled, lines, phase, answer>>

\* ForceArray names "exception", but the element is <except>: the only one of a
\* map is a hash and no array, and @{$map->{exceptions}} dies.
OneException ==
    /\ current # "none"
    /\ part = "exception"
    /\ part' = "died"
    /\ UNCHANGED <<current, compiled, rs, lines, phase, asked, answer>>

\* How many bits follow the common prefix of two addresses
Differing(a, b) ==
    CHOOSE k \in 0 .. W :
        /\ a \div 2 ^ k = b \div 2 ^ k
        /\ \A j \in 0 .. k - 1 : a \div 2 ^ j # b \div 2 ^ j

\* After the prefix the first address has 0s only and the last has 1s only.
IsBlock(a, b) ==
    LET size == 2 ^ Differing(a, b) IN a % size = 0 /\ (b + 1) % size = 0

Interval == {p \in Address \X Address : p[1] <= p[2]}

\* do_chunk: a range that is no block is split where the bit after the prefix
\* changes from 0 to 1.
ToCidr[r \in Interval] ==
    IF IsBlock(r[1], r[2])
    THEN <<[net |-> r[1], mask |-> 32 - Differing(r[1], r[2])]>>
    ELSE LET middle == r[2] - (r[2] % 2 ^ (Differing(r[1], r[2]) - 1))
         IN  ToCidr[<<r[1], middle - 1>>] \o ToCidr[<<middle, r[2]>>]

Line(c, to) == [key |-> [map |-> current, net |-> c.net, mask |-> c.mask], to |-> to]

LinesOf(t) ==
    LET chunks == ToCidr[<<t.lo, t.hi>>]
    IN  [i \in 1 .. Len(chunks) |-> Line(chunks[i], t.to)]

\* The map is written, the last range first.
Emit ==
    /\ current # "none"
    /\ part \in {"mapits", "exceptions"}
    /\ lines' = lines \o FlattenSeq([i \in 1 .. Len(rs) |-> LinesOf(Reverse(rs)[i])])
    /\ rs' = <<>>
    /\ compiled' = compiled \cup {current}
    /\ current' = "none"
    /\ UNCHANGED <<part, phase, asked, answer>>

\* zexport sends loc.data to vdnsdb, and vdnsd maps the database.
Install ==
    /\ phase = "compile"
    /\ current = "none"
    /\ phase' = "serve"
    /\ UNCHANGED <<current, part, compiled, rs, lines, asked, answer>>

-----------------------------------------------------------------------------
(* ipdb_get                                                                *)

\* The masks in the order they are tried: the likely ones first, 0 never.
MaskOrder == <<24, 28, 29, 27, 32, 23, 26, 30, 25, 22, 19, 21, 20, 16, 18, 31, 17,
               15, 14, 13, 12, 11, 10, 9, 8, 7, 6, 5, 4, 3, 2, 1>>

\* cdb_find yields the first record stored under the key.
Stored(m, a, mask) ==
    SelectInSeq(lines, LAMBDA l :
        l.key = [map |-> m, net |-> Net(a, mask), mask |-> mask])

\* Slip: single addresses are not tried.
FirstHit_ShortMask(m, a) ==
    SelectInSeq(MaskOrder, LAMBDA mask : mask \in Mask \ {32} /\ Stored(m, a, mask) # 0)

\* Which mask is the first under which something is stored for a, or 0
FirstHit(m, a) ==
    SelectInSeq(MaskOrder, LAMBDA mask : mask \in Mask /\ Stored(m, a, mask) # 0)

IpdbGet(m, a) ==
    /\ phase = "serve"
    /\ LET hit == FirstHit(m, a)
           place == IF hit = 0 THEN NoMatch ELSE lines[Stored(m, a, MaskOrder[hit])].to
       IN  answer' = <<m, a, place>>
    /\ UNCHANGED <<current, part, compiled, rs, lines, phase, asked>>

-----------------------------------------------------------------------------
Init ==
    /\ current = "none"
    /\ part = "mapits"
    /\ compiled = {}
    /\ rs = <<>>
    /\ lines = <<>>
    /\ phase = "compile"
    /\ asked = <<>>
    /\ answer = <<>>

Compile ==
    \/ \E m \in MapName : NextMap(m)
    \/ \E c \in Country, p \in Place : MapCountry(c, p)
    \/ \E a \in Address, m \in Mask, p \in Place : MapIp(a, m, p) \/ Except(a, m, p)
    \/ OneException
    \/ Emit

Next ==
    \/ Compile
    \/ Install
    \/ \E m \in MapName, a \in Address : IpdbGet(m, a)

Spec == Init /\ [][Next]_vars
-----------------------------------------------------------------------------
DbKey == [map : MapName, net : Address, mask : Mask]

TypeOK ==
    /\ current \in MapName \cup {"none"}
    /\ part \in {"mapits", "exception", "exceptions", "died"}
    /\ compiled \subseteq MapName
    /\ rs \in Seq([lo : Address, hi : Address, to : Place, of : Country \cup {Block}])
    /\ \A i \in 1 .. Len(rs) : rs[i].lo <= rs[i].hi
    /\ lines \in Seq([key : DbKey, to : Place])
    /\ \A i \in 1 .. Len(lines) :
        lines[i].key.net = Net(lines[i].key.net, lines[i].key.mask)
    /\ phase \in {"compile", "serve"}

BlockOf(c) == c.net .. c.net + Size(c.mask) - 1

\* What ip4.pm says of do_chunk: the blocks of a range are the fewest there are,
\* that is, those that fit into the range while the block around them does not.
FewestBlocks ==
    \A i \in 1 .. Len(rs) :
        LET range == rs[i].lo .. rs[i].hi
            blocks == [net : Address, mask : Mask]
            fits == {c \in blocks : c.net = Net(c.net, c.mask) /\ BlockOf(c) \subseteq range}
            around(c) == [net |-> Net(c.net, c.mask - 1), mask |-> c.mask - 1]
            chunks == ToCidr[<<rs[i].lo, rs[i].hi>>]
        IN  /\ ToSet(chunks) = {c \in fits : c.mask = 32 - W \/ around(c) \notin fits}
            /\ IsInjective(chunks)

\* From the XML file to the answer, an address gets the place it was meant for.
Promise == INSTANCE GeoMap WITH sealed <- phase = "serve"

ImplementsGeoMap == Promise!Spec

\* The ranges of the current map that an address is in
Under(a) == {i \in 1 .. Len(rs) : a \in rs[i].lo .. rs[i].hi}

\* While a map is compiled an address under an exception is in one range only,
\* however exceptions and mappings overlap: this is why it does not matter that
\* ipdb_get does not try the masks from the longest to the shortest.
ExceptionsApart ==
    \A a \in Address :
        current # "none" /\ Promise!Covers("except", current, a) # {} =>
            \E i \in Under(a) : Under(a) = {i}

-----------------------------------------------------------------------------
(* Why addresses get the right places: the parts of an inductive invariant  *)

\* The maps are compiled one after the other, the exceptions of each at its end.
InTurn ==
    /\ asked \in Seq(Promise!Request)
    /\ \A i \in 1 .. Len(asked) :
        /\ asked[i].map \in compiled \cup {current}
        /\ asked[i].map = current /\ part = "mapits" => asked[i].kind = "mapit"
    /\ current \notin compiled
    /\ phase = "serve" => current = "none"
    /\ current = "none" => rs = <<>>

\* What is under a country's name is a range of that country.
OfCountry ==
    \A i \in 1 .. Len(rs) :
        rs[i].of # Block =>
            \E j \in 1 .. Len(Geo[rs[i].of]) : Geo[rs[i].of][j] = <<rs[i].lo, rs[i].hi>>

\* The places an address has so far are among those it is meant to have.
MeantFor(places, m, a) ==
    /\ places \subseteq Promise!Wanted(m, a)
    /\ places = {} => NoMatch \in Promise!Wanted(m, a)

RangePlaces(a) == {rs[i].to : i \in Under(a)}

RangesRight ==
    current # "none" => \A a \in Address : MeantFor(RangePlaces(a), current, a)

\* The lines of a map whose block an address is in
LinesFor(m, a) ==
    {i \in 1 .. Len(lines) :
        lines[i].key.map = m /\ lines[i].key.net = Net(a, lines[i].key.mask)}

LinePlaces(m, a) == {lines[i].to : i \in LinesFor(m, a)}

LinesRight ==
    /\ \A i \in 1 .. Len(lines) : lines[i].key.map \in compiled
    /\ \A m \in MapName \ {current}, a \in Address : MeantFor(LinePlaces(m, a), m, a)

GeoIInv ==
    /\ TypeOK
    /\ InTurn
    /\ OfCountry
    /\ RangesRight
    /\ LinesRight
    /\ ExceptionsApart
=============================================================================
