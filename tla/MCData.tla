------------------------------- MODULE MCData --------------------------------
(***************************************************************************)
(* The two data structures of a database, in runs of their own: the constant *)
(* database (two hash tables, every hash function into few values, short     *)
(* links); geo maps over four addresses (one country with one crooked range, *)
(* one with two; a country may be named in both maps); the compilation of one *)
(* map over sixteen addresses.                                               *)
(***************************************************************************)
EXTENDS Cdb

CONSTANTS
    k1, k2, k3,
    sa, us, m1, m2, p1, p2,
    W, Country, Geo, Block, MapName, Place, NoMatch, MaxAsked

VARIABLES
    which,          \* "cdb", "maps" or "wide", fixed
    current, part, compiled, rs, lines, stage, asked, answer,
    askedWide

mapVars == <<current, part, compiled, rs, lines, stage, answer>>

Maps == INSTANCE IpDb WITH phase <- stage

GeoSmall == (sa :> <<<<1, 2>>>>) @@ (us :> <<<<0, 0>>, <<3, 3>>>>)
GeoWide == (sa :> <<<<1, 13>>>>) @@ (us :> <<<<0, 0>>, <<14, 15>>>>)

Wide == INSTANCE IpDb WITH phase <- stage, W <- 4, Geo <- GeoWide, MaxAsked <- 2,
                           MapName <- {m1}, asked <- askedWide

ASSUME IpDbConstants == Maps!IpDbConstants /\ Wide!IpDbConstants
ASSUME GeoRanges == Maps!GeoRanges /\ Wide!GeoRanges

CdbOnly == which = "cdb" /\ Next /\ UNCHANGED <<which, mapVars, asked, askedWide>>
MapsOnly == which = "maps" /\ Maps!Next /\ UNCHANGED <<which, vars, askedWide>>
WideOnly == which = "wide" /\ Wide!Compile /\ UNCHANGED <<which, vars, asked>>

DataInit ==
    /\ which \in {"cdb", "maps", "wide"}
    /\ Init /\ Maps!Init /\ Wide!Init
    /\ which # "cdb" => hash = [k \in Key |-> 0]

DataSpec ==
    DataInit /\ [][CdbOnly \/ MapsOnly \/ WideOnly]_<<which, vars, mapVars, asked, askedWide>>

\* Nothing reads the last lookup: what follows it is what could follow without it.
FirstLookup == answer = <<>>

Symmetry == Permutations(Key) \cup Permutations(MapName) \cup Permutations(Place)

-----------------------------------------------------------------------------
\* The types of both parts.
DataTypeOK ==
    CASE which = "cdb" -> TypeOK [] which = "maps" -> Maps!TypeOK [] OTHER -> Wide!TypeOK

\* cdb_make_add, cdb_make_finish: file, positions and tables agree, and the walk
\* of every search passes every record with its key.
\* chk_except_match, ip4_tocidr: no address under an exception is left under what
\* it is an exception to, and a range is cut into the fewest blocks.
DataIsSound ==
    /\ which = "cdb" => FileInStep /\ EveryRecordReachable
    /\ which = "maps" => Maps!ExceptionsApart
    /\ which = "wide" => Wide!FewestBlocks

\* db.pm, ip4.pm, ipdb.c: from ipmaps.xml to the answer of ipdb_get, an address
\* gets the place it was meant for (GeoMap).
ImplementsGeoMap == Maps!ImplementsGeoMap
=============================================================================
