------------------------------ MODULE ZoneFile ------------------------------
(***************************************************************************)
(* The lines that zones are edited as and shipped in.  The management        *)
(* scripts read them with cdb2xxx and write them with xxx2cdb (zone.pm);      *)
(* vdnsdb reads what they write (vdnsdb.c).  A line is its first character    *)
(* and the sequence of its fields, the name first; every reader and writer    *)
(* has a column of its own for each thing.                                   *)
(***************************************************************************)
EXTENDS Naturals, Sequences

CONSTANT Undef      \* Perl's undef, NULL in the database

\* A row of the table records.  aux is the mail exchanger's distance or the
\* SOA's mailbox; mid is the geo map.
Row(rid, name, data, aux, ttl, loq, loc, mid) ==
    [rid |-> rid, name |-> name, data |-> data, aux |-> aux, ttl |-> ttl,
     loq |-> loq, loc |-> loc, mid |-> mid]

\* rr_handlers: the lines the scripts know.  vdnsdb knows others, too.
Handled == {"Z", "+", "C", "@", "&", "^", "'"}

-----------------------------------------------------------------------------
(* cdb2soa, cdb2a, cdb2cname, cdb2mx, cdb2ns, cdb2ptr, cdb2txt              *)

\* The fields that are read, counted from 0 after the name; the map's name
\* stands behind the location.
Cdb2soa == [data |-> 0, aux |-> 1, ttl |-> 7, loc |-> 9]
Cdb2mx  == [data |-> 1, aux |-> 2, ttl |-> 3, loc |-> 5]
Cdb2ns  == [data |-> 1, ttl |-> 2, loc |-> 4]
Cdb2a   == [data |-> 0, ttl |-> 1, loc |-> 3]

Cdb2(kind) ==
    CASE kind = "Z" -> Cdb2soa
      [] kind = "@" -> Cdb2mx
      [] kind = "&" -> Cdb2ns
      [] OTHER -> Cdb2a

\* split drops what is empty at the end: those fields are undefined.
Split(fields) ==
    LET full == {i \in 1 .. Len(fields) : fields[i] # ""}
        last == IF full = {} THEN 0 ELSE CHOOSE i \in full : \A j \in full : j <= i
    IN  SubSeq(fields, 1, last)

Field(fields, i) == IF i + 2 <= Len(fields) THEN fields[i + 2] ELSE Undef

\* A row has a location when the field is there, even an empty one (check_loq).
Read(line) ==
    LET f == Split(line.fields)
        at == Cdb2(line.kind)
        loc == Field(f, at.loc)
    IN  Row(line.kind, f[1], Field(f, at.data),
            IF "aux" \in DOMAIN at THEN Field(f, at.aux) ELSE Undef,
            Field(f, at.ttl), loc # Undef, loc,
            IF loc # Undef THEN Field(f, at.loc + 1) ELSE Undef)

-----------------------------------------------------------------------------
(* soa2cdb, a2cdb, cname2cdb, mx2cdb, ns2cdb, ptr2cdb, txt2cdb              *)

\* An undefined value prints as nothing.
Text(value) == IF value = Undef THEN "" ELSE value

\* The serial now is the time of an export, and undefined in a dump.
Columns(rr, now) ==
    CASE rr.rid = "Z" ->
            <<rr.data, rr.aux, now, "", "", "", "", rr.ttl>>
      [] rr.rid = "@" -> <<"", rr.data, rr.aux, rr.ttl>>
      [] rr.rid = "&" -> <<"", rr.data, rr.ttl>>
      [] OTHER -> <<rr.data, rr.ttl>>

\* Slip: no empty field for the timestamp, as in the line of a record without one.
Located_NoTimestamp(rr, user) ==
    IF rr.loq THEN <<rr.loc, rr.mid, user>> ELSE <<>>

Located(rr, user) ==
    IF rr.loq THEN <<"", rr.loc, rr.mid, user>> ELSE <<>>

Write(rr, now, user) ==
    LET all == <<rr.name>> \o Columns(rr, now) \o Located(rr, user)
    IN  [kind |-> rr.rid, fields |-> [i \in DOMAIN all |-> Text(all[i])]]

-----------------------------------------------------------------------------
(* main of vdnsdb                                                          *)

\* The fields of main's cases, counted from 0 at the name.
VdnsdbAt(kind) ==
    CASE kind = "Z" -> [data |-> 1, aux |-> 2, ttl |-> 8, ttd |-> 9, loc |-> 10]
      [] kind = "@" -> [data |-> 2, aux |-> 3, ttl |-> 4, ttd |-> 5, loc |-> 6]
      [] kind = "&" -> [data |-> 2, ttl |-> 3, ttd |-> 4, loc |-> 5]
      [] OTHER -> [data |-> 1, ttl |-> 2, ttd |-> 3, loc |-> 4]

\* Missing fields are empty there.
Vdnsdb(line) ==
    LET at == VdnsdbAt(line.kind)
        f(i) == IF i + 1 <= Len(line.fields) THEN line.fields[i + 1] ELSE ""
    IN  [kind |-> line.kind, name |-> f(0), data |-> f(at.data),
         aux |-> IF "aux" \in DOMAIN at THEN f(at.aux) ELSE "",
         ttl |-> f(at.ttl), ttd |-> f(at.ttd), loc |-> f(at.loc),
         mid |-> f(at.loc + 1), uid |-> f(at.loc + 2)]

\* What vdnsdb has to read of a user's row
Meant(rr, user) ==
    [kind |-> rr.rid, name |-> rr.name, data |-> Text(rr.data),
     aux |-> Text(rr.aux), ttl |-> Text(rr.ttl), ttd |-> "",
     loc |-> Text(rr.loc), mid |-> Text(rr.mid),
     uid |-> IF rr.loq THEN user ELSE ""]

=============================================================================
