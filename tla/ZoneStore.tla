----------------------------- MODULE ZoneStore ------------------------------
(***************************************************************************)
(* The zones in PostgreSQL and the commands on them: zedit, znew, zimport,   *)
(* zdelete (scripts/, zone.pm, zone/db.pm).  Every statement commits by       *)
(* itself (AutoCommit), so a command is a sequence of steps that others may    *)
(* come between, and a command that ends in the middle leaves what it did.    *)
(* The lock of zedit and znew is a file $TMPDIR/zone.data.                    *)
(*                                                                         *)
(* A command's process is a session.  A file is read when it is opened.       *)
(***************************************************************************)
EXTENDS ZoneFile, FiniteSets, Functions, SequencesExt

CONSTANTS
    Session,        \* the processes that run at a time, each a command
    Origin,         \* zones
    User,           \* DNS_ADMIN
    Files,          \* what a file may hold: sequences of lines
    Refused,        \* data that a statement cannot store
    None,           \* no file
    Given,          \* the zones there are before: origin -> [uid, lines]
    MaxRuns,        \* bound: commands
    MaxDeaths       \* bound: commands that are killed

\* A file and a zone have an end; a zone of the table is one of Origin.
ZoneConstants ==
    /\ \A f \in Files : IsFiniteSet(DOMAIN f)
    /\ IsFiniteSet(DOMAIN Given) /\ DOMAIN Given \subseteq Origin
    /\ \A o \in DOMAIN Given : IsFiniteSet(DOMAIN Given[o].lines)

VARIABLES
    zones,          \* table zones: id -> [origin, uid]
    records,        \* table records: zone id -> its rows
    tmp,            \* the file being edited, or None
    pc, task,       \* a session: where it is, its [cmd, origin, user]
    file,           \* the lines it edits or imports
    zid, serial,    \* the zone's id; the last id of the sequence
    left,           \* rows that it has not inserted yet
    changed,        \* whether it changed the database
    meant,          \* history: <<the rows it is to leave>>, or <<>>
    kept,           \* history: what the last good command left of a zone
    spoilt,         \* zones a command left half done, and told so or was killed
    mixed,          \* zones that two commands worked on at a time
    runs, deaths

local == <<task, file, zid, left, changed, meant>>
history == <<kept, spoilt, mixed>>
tables == <<zones, records, serial>>
storeVars == <<tables, tmp, pc, local, history, runs, deaths>>

NoTask == [cmd |-> "none"]
Tasks == [cmd : {"zedit", "znew", "zimport", "zdelete"}, origin : Origin, user : User]

Running == {s \in Session : pc[s] # "idle"}
On(s) == task[s].origin

Zones(o) == {i \in DOMAIN zones : zones[i].origin = o}
Own(o, u) == {i \in Zones(o) : zones[i].uid = u}

\* The rows of a zone, whichever ids it has
Content(o) == UNION {Range(records[i]) : i \in Zones(o)}

\* The rows of the lines that have a handler
Rows(lines) ==
    LET known == {k \in DOMAIN lines : lines[k].kind \in Handled}
        nth(n) == CHOOSE k \in known : Cardinality({j \in known : j <= k}) = n
    IN  [n \in 1 .. Cardinality(known) |-> Read(lines[nth(n)])]

-----------------------------------------------------------------------------
(* The life of a session                                                   *)

Goto(s, where) == pc' = [pc EXCEPT ![s] = where]

Ends(s) ==
    /\ Goto(s, "idle")
    /\ task' = [task EXCEPT ![s] = NoTask]
    /\ file' = [file EXCEPT ![s] = <<>>]
    /\ zid' = [zid EXCEPT ![s] = 0]
    /\ left' = [left EXCEPT ![s] = <<>>]
    /\ changed' = [changed EXCEPT ![s] = FALSE]
    /\ meant' = [meant EXCEPT ![s] = <<>>]

\* Ended before its end, after a part of the work perhaps
Fails(s) ==
    /\ Ends(s)
    /\ spoilt' = IF changed[s] THEN spoilt \cup {On(s)} ELSE spoilt
    /\ UNCHANGED <<kept, mixed>>

Die(s) == Fails(s)

\* exit(0)
Exit(s) ==
    /\ Ends(s)
    /\ kept' = IF meant[s] = <<>> THEN kept
               ELSE [kept EXCEPT ![On(s)] = meant[s][1]]
    /\ spoilt' = IF meant[s] = <<>> THEN spoilt ELSE spoilt \ {On(s)}
    /\ UNCHANGED mixed

Start(s, t, f) ==
    /\ pc[s] = "idle"
    /\ runs < MaxRuns
    /\ runs' = runs + 1
    /\ task' = [task EXCEPT ![s] = t]
    /\ file' = [file EXCEPT ![s] = f]
    /\ mixed' = IF \E r \in Running : On(r) = t.origin
                THEN mixed \cup {t.origin} ELSE mixed
    /\ Goto(s, CASE t.cmd \in {"zedit", "znew"} -> "test" [] OTHER -> "select")
    /\ UNCHANGED <<tables, tmp, zid, left, changed, meant, kept, spoilt, deaths>>

Killed(s) ==
    /\ s \in Running
    /\ deaths < MaxDeaths
    /\ deaths' = deaths + 1
    /\ Fails(s)
    /\ UNCHANGED <<tables, tmp, runs>>

-----------------------------------------------------------------------------
(* zedit and znew: the file                                                *)

\* if (-f "$TMPDIR/$ARGV[0].data") die
Test(s) ==
    /\ pc[s] = "test"
    /\ IF tmp[On(s)] # None THEN Die(s)
       ELSE /\ Goto(s, IF task[s].cmd = "zedit" THEN "dump" ELSE "open")
            /\ UNCHANGED <<local, history>>
    /\ UNCHANGED <<tables, tmp, runs, deaths>>

\* select ... where u.username=? and z.origin=?: in no order that it asks for
OwnRows(s) == UNION {{i} \X DOMAIN records[i] : i \in Own(On(s), task[s].user)}

\* z_dump_rrs: the user's rows, whichever of the zones they belong to
DumpRrs(s) ==
    /\ pc[s] = "dump"
    /\ LET order == SetToSeq(OwnRows(s))
           row(k) == records[order[k][1]][order[k][2]]
           lines == [k \in 1 .. Cardinality(OwnRows(s)) |-> Write(row(k), "", task[s].user)]
       IN  IF OwnRows(s) = {} THEN Die(s)
           ELSE /\ file' = [file EXCEPT ![s] = lines]
                /\ Goto(s, "open")
                /\ UNCHANGED <<task, zid, left, changed, meant, history>>
    /\ UNCHANGED <<tables, tmp, runs, deaths>>

\* open ">", print, close; a template's lines are in file already.
Open(s) ==
    /\ pc[s] = "open"
    /\ tmp' = [tmp EXCEPT ![On(s)] = file[s]]
    /\ Goto(s, "edit")
    /\ UNCHANGED <<tables, local, history, runs, deaths>>

\* run_editor: the editor leaves the file as it is or writes another.
Edit(s) ==
    /\ pc[s] = "edit"
    /\ \E lines \in Files \cup {tmp[On(s)]} : tmp' = [tmp EXCEPT ![On(s)] = lines]
    /\ Goto(s, IF task[s].cmd = "zedit" THEN "select" ELSE "import")
    /\ UNCHANGED <<tables, local, history, runs, deaths>>

\* The editor says no.
EditFails(s) ==
    /\ pc[s] = "edit"
    /\ tmp' = [tmp EXCEPT ![On(s)] = None]
    /\ Die(s)
    /\ UNCHANGED <<tables, runs, deaths>>

-----------------------------------------------------------------------------
(* z_delete; what it returns is not looked at.                             *)

AfterDelete(s) == IF task[s].cmd = "zdelete" THEN "unlink" ELSE "import"

\* Slip: a zone of any user.
Select_AnyUser(s) ==
    /\ pc[s] = "select"
    /\ IF Zones(On(s)) = {}
       THEN Goto(s, AfterDelete(s)) /\ UNCHANGED <<zid, meant>>
       ELSE /\ \E i \in Zones(On(s)) : zid' = [zid EXCEPT ![s] = i]
            /\ meant' = [meant EXCEPT ![s] = <<{}>>]
            /\ Goto(s, "records")
    /\ UNCHANGED <<tables, tmp, task, file, left, changed, history, runs, deaths>>

\* select zones.id ... users.username=? and zones.origin=?
Select(s) ==
    /\ pc[s] = "select"
    /\ IF Own(On(s), task[s].user) = {}
       THEN Goto(s, AfterDelete(s)) /\ UNCHANGED <<zid, meant>>
       ELSE /\ \E i \in Own(On(s), task[s].user) : zid' = [zid EXCEPT ![s] = i]
            /\ meant' = [meant EXCEPT ![s] = <<{}>>]
            /\ Goto(s, "records")
    /\ UNCHANGED <<tables, tmp, task, file, left, changed, history, runs, deaths>>

\* delete from records where zid=?
DeleteRecords(s) ==
    /\ pc[s] = "records"
    /\ records' = [i \in DOMAIN records |-> IF i = zid[s] THEN <<>> ELSE records[i]]
    /\ changed' = [changed EXCEPT ![s] = TRUE]
    /\ Goto(s, "zone")
    /\ UNCHANGED <<zones, serial, tmp, task, file, zid, left, meant, history, runs, deaths>>

\* delete from zones where id=?, which the key of records may forbid
DeleteZone(s) ==
    /\ pc[s] = "zone"
    /\ LET gone == {i \in DOMAIN zones : i = zid[s] /\ records[i] = <<>>}
       IN  /\ zones' = Restrict(zones, DOMAIN zones \ gone)
           /\ records' = Restrict(records, DOMAIN records \ gone)
    /\ Goto(s, AfterDelete(s))
    /\ UNCHANGED <<serial, tmp, local, history, runs, deaths>>

-----------------------------------------------------------------------------
(* z_import                                                                *)

\* open: the file that was edited may be gone.
OpenImport(s) ==
    /\ pc[s] = "import"
    /\ IF task[s].cmd # "zimport" /\ tmp[On(s)] = None
       THEN Die(s)
       ELSE /\ LET lines == IF task[s].cmd = "zimport" THEN file[s] ELSE tmp[On(s)]
               IN  /\ left' = [left EXCEPT ![s] = Rows(lines)]
                   /\ meant' = [meant EXCEPT ![s] = <<Range(Rows(lines))>>]
            /\ Goto(s, "add")
            /\ UNCHANGED <<task, file, zid, changed, history>>
    /\ UNCHANGED <<tables, tmp, runs, deaths>>

\* add_zone: select uid from zones where origin=?; safe_die rolls nothing back.
AddZone(s) ==
    /\ pc[s] = "add"
    /\ IF Zones(On(s)) # {} THEN Die(s)
       ELSE Goto(s, "insert") /\ UNCHANGED <<local, history>>
    /\ UNCHANGED <<tables, tmp, runs, deaths>>

\* insert into zones
InsertZone(s) ==
    /\ pc[s] = "insert"
    /\ serial' = serial + 1
    /\ zones' = [i \in DOMAIN zones \cup {serial'} |->
                    IF i = serial' THEN [origin |-> On(s), uid |-> task[s].user] ELSE zones[i]]
    /\ records' = [i \in DOMAIN records \cup {serial'} |->
                    IF i = serial' THEN <<>> ELSE records[i]]
    /\ changed' = [changed EXCEPT ![s] = TRUE]
    /\ Goto(s, "id")
    /\ UNCHANGED <<tmp, task, file, zid, left, meant, history, runs, deaths>>

\* select id from zones where origin=?: any of them
SelectId(s) ==
    /\ pc[s] = "id"
    /\ IF Zones(On(s)) = {} THEN Die(s)
       ELSE /\ \E i \in Zones(On(s)) : zid' = [zid EXCEPT ![s] = i]
            /\ Goto(s, "rows")
            /\ UNCHANGED <<task, file, left, changed, meant, history>>
    /\ UNCHANGED <<tables, tmp, runs, deaths>>

\* A row that cannot be stored, or one whose zone is gone
NotStored(s) ==
    left[s] # <<>> /\ (Head(left[s]).data \in Refused \/ zid[s] \notin DOMAIN zones)

\* Slip: a row that is not stored is passed over.
AddRr_Careless(s) ==
    /\ pc[s] = "rows"
    /\ left[s] # <<>>
    /\ records' = IF NotStored(s) THEN records
                  ELSE [records EXCEPT ![zid[s]] = Append(@, Head(left[s]))]
    /\ left' = [left EXCEPT ![s] = Tail(@)]
    /\ UNCHANGED <<pc, task, file, zid, changed, meant, history>>
    /\ UNCHANGED <<zones, serial, tmp, runs, deaths>>

\* add_rrs: one insert after the other, up to the first that fails
AddRr(s) ==
    /\ pc[s] = "rows"
    /\ left[s] # <<>>
    /\ IF NotStored(s) THEN Die(s) /\ UNCHANGED records
       ELSE /\ records' = [records EXCEPT ![zid[s]] = Append(@, Head(left[s]))]
            /\ left' = [left EXCEPT ![s] = Tail(@)]
            /\ UNCHANGED <<pc, task, file, zid, changed, meant, history>>
    /\ UNCHANGED <<zones, serial, tmp, runs, deaths>>

\* All rows are in.  update_serial: what it returns is not looked at.
UpdateSerial(s) ==
    /\ pc[s] = "rows"
    /\ left[s] = <<>>
    /\ Goto(s, "unlink")
    /\ UNCHANGED <<tables, tmp, local, history, runs, deaths>>

\* unlink of the edited file, and exit(0)
Unlink(s) ==
    /\ pc[s] = "unlink"
    /\ tmp' = IF task[s].cmd \in {"zedit", "znew"}
              THEN [tmp EXCEPT ![On(s)] = None] ELSE tmp
    /\ Exit(s)
    /\ UNCHANGED <<tables, runs, deaths>>

-----------------------------------------------------------------------------
Init ==
    /\ LET o == SetToSeq(DOMAIN Given)
       IN  /\ zones = [i \in DOMAIN o |-> [origin |-> o[i], uid |-> Given[o[i]].uid]]
           /\ records = [i \in DOMAIN o |-> Rows(Given[o[i]].lines)]
           /\ serial = Cardinality(DOMAIN Given)
    /\ kept = [o \in Origin |-> IF o \in DOMAIN Given THEN Range(Rows(Given[o].lines)) ELSE {}]
    /\ tmp = [o \in Origin |-> None]
    /\ pc = [s \in Session |-> "idle"]
    /\ task = [s \in Session |-> NoTask]
    /\ file = [s \in Session |-> <<>>]
    /\ zid = [s \in Session |-> 0]
    /\ left = [s \in Session |-> <<>>]
    /\ changed = [s \in Session |-> FALSE]
    /\ meant = [s \in Session |-> <<>>]
    /\ spoilt = {}
    /\ mixed = {}
    /\ runs = 0
    /\ deaths = 0

Next ==
    \E s \in Session :
        \/ \E t \in Tasks, f \in Files : Start(s, t, f)
        \/ Test(s) \/ DumpRrs(s) \/ Open(s) \/ Edit(s) \/ EditFails(s)
        \/ Select(s) \/ DeleteRecords(s) \/ DeleteZone(s)
        \/ OpenImport(s) \/ AddZone(s) \/ InsertZone(s) \/ SelectId(s)
        \/ AddRr(s) \/ UpdateSerial(s) \/ Unlink(s)
        \/ Killed(s)

Spec == Init /\ [][Next]_storeVars

-----------------------------------------------------------------------------
TypeOK ==
    /\ DOMAIN records = DOMAIN zones
    /\ \A i \in DOMAIN zones : i \in 1 .. serial
    /\ \A s \in Running : task[s] \in Tasks /\ zid[s] \in 0 .. serial

\* Commands on a zone that follow one another leave it as the last one that
\* ended well meant it, unless one said that it failed half way (or was killed).
LeavesWhatItMeant ==
    \A o \in Origin \ (spoilt \cup mixed) :
        (\A s \in Running : On(s) # o) => Content(o) = kept[o]

\* Without a second command on the zone no statement changes the rows of a zone
\* that belongs to someone else than who runs the command.
OwnZonesOnly ==
    [][\A i \in DOMAIN zones, s \in Running :
            /\ zones[i].origin \notin mixed'
            /\ i \in DOMAIN zones' => records'[i] # records[i]
            /\ pc'[s] # pc[s] \/ left'[s] # left[s]
            => task[s].user = zones[i].uid]_storeVars

-----------------------------------------------------------------------------
(* The inductive invariant of the two.                                     *)

ASequence(q) == q \in Seq(Range(q))

\* A command has not touched the tables yet, empties a zone, fills one.
Early == {"test", "dump", "open", "edit", "select"}
Emptying == {"records", "zone"}
Filling == {"add", "insert", "id", "rows"}

StoreFields ==
    /\ serial \in Nat
    /\ DOMAIN zones \subseteq 1 .. serial /\ DOMAIN records = DOMAIN zones
    /\ \A i \in DOMAIN zones : ASequence(records[i])
    /\ pc \in [Session -> {"idle", "import", "unlink"} \cup Early \cup Emptying \cup Filling]
    /\ DOMAIN task = Session /\ zid \in [Session -> 0 .. serial] /\ changed \in [Session -> BOOLEAN]
    /\ DOMAIN file = Session /\ DOMAIN left = Session /\ DOMAIN meant = Session
    /\ DOMAIN tmp = Origin /\ DOMAIN kept = Origin
    /\ \A s \in Session :
        /\ IsFiniteSet(DOMAIN file[s]) /\ ASequence(left[s])
        /\ IF s \in Running THEN task[s] \in Tasks ELSE ~changed[s] /\ meant[s] = <<>>
    /\ \A o \in Origin : tmp[o] # None => IsFiniteSet(DOMAIN tmp[o])

\* A second command on a zone is known, and only then is there a second zone of
\* the name.
FewInv ==
    /\ \A r, s \in Running : r # s /\ On(r) = On(s) => On(s) \in mixed
    /\ \A i, j \in DOMAIN zones :
        i # j /\ zones[i].origin = zones[j].origin => zones[i].origin \in mixed

\* The zone that a command has the id of is one of its name, and it empties none
\* but its user's, or that zone is gone for good.
IdKnown(s) ==
    pc[s] \in Emptying \cup {"rows"} /\ zid[s] \in DOMAIN zones =>
        /\ zones[zid[s]].origin = On(s)
        /\ pc[s] # "rows" => zones[zid[s]].uid = task[s].user

\* What there is to do, and whether anything was done, is in the session.
Accounted(s) ==
    /\ pc[s] \in Early => ~changed[s] /\ meant[s] = <<>>
    /\ pc[s] \in {"zone", "id", "rows"} => changed[s]
    /\ pc[s] \in Emptying => meant[s] = <<{}>>
    /\ pc[s] \in Filling => meant[s] # <<>>
    /\ pc[s] \in {"add", "insert", "id"} => Range(left[s]) = meant[s][1]
    /\ pc[s] = "unlink" /\ meant[s] = <<>> => ~changed[s]

\* Where a command that is alone on its zone has come to
Progress(s) ==
    /\ pc[s] \in Emptying => zid[s] \in DOMAIN zones
    /\ pc[s] = "zone" => records[zid[s]] = <<>>
    /\ pc[s] = "insert" => Zones(On(s)) = {}
    /\ pc[s] = "id" => \A i \in Zones(On(s)) : records[i] = <<>>
    /\ pc[s] \in {"id", "rows"} => \A i \in Zones(On(s)) : zones[i].uid = task[s].user
    /\ pc[s] = "rows" =>
        zid[s] \in DOMAIN zones /\ Range(records[zid[s]]) \cup Range(left[s]) = meant[s][1]
    /\ pc[s] = "unlink" /\ meant[s] # <<>> => Content(On(s)) = meant[s][1]

SessionInv ==
    \A s \in Running : IdKnown(s) /\ Accounted(s) /\ (On(s) \notin mixed => Progress(s))

\* Until the command that is on it changes something a zone is what was kept.
KeptInv ==
    \A o \in Origin \ (spoilt \cup mixed) :
        (\A s \in Running : On(s) = o => ~changed[s]) => Content(o) = kept[o]

ZoneInv == StoreFields /\ FewInv /\ SessionInv /\ KeptInv

-----------------------------------------------------------------------------
\* What a dump gives to the editor reads back as the same rows.
DumpReadsBack ==
    \A i \in DOMAIN records : \A rr \in Range(records[i]) :
        Read(Write(rr, "", zones[i].uid)) = rr

\* vdnsdb takes from the lines of an export what the rows say.
ServerReadsTheSame ==
    \A i \in DOMAIN records : \A rr \in Range(records[i]) :
        LET seen == Vdnsdb(Write(rr, "now", zones[i].uid))
        IN  seen = Meant(rr, zones[i].uid)
=============================================================================
