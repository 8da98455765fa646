--------------------------------- MODULE Cdb ---------------------------------
(***************************************************************************)
(* The constant database: cdb_make.c as vdnsdb drives it, and the search of *)
(* cdb.c as vdnsd drives it.                                                *)
(*                                                                         *)
(* The file is a header (cdb_make's "final"), the records, and one hash      *)
(* table per value of the low part of the hash.  A table has two slots per   *)
(* record; a record goes to the first free slot from (hash >> 8) % slots on, *)
(* and a search walks the slots the same way until it meets an empty one.    *)
(* Positions in the file are 32 bit numbers (here: below Limit); the file    *)
(* itself may be longer, and then the positions are wrong.                    *)
(***************************************************************************)
EXTENDS Order, SequencesExt

CONSTANTS
    Key,            \* keys of records
    NoKey,          \* no key: nothing was sought yet
    HashVal,        \* what cdb_hash may return
    Tables,         \* 256: how many hash tables
    Final,          \* 2048: the size of the header
    Field,          \* 8: the size of two packed 32 bit numbers
    Limit,          \* 2^32: positions wrap here
    HpList,         \* CDB_HPLIST, 1000: pointers in one link of the list
    Sizes,          \* what a key and its data may occupy together
    MaxAdd          \* bound: records added

ASSUME CdbConstants ==
    /\ NoKey \notin Key
    /\ HashVal \subseteq Nat
    /\ Tables \in Nat \ {0}
    /\ Final \in Nat \ {0}
    /\ Field \in Nat \ {0}
    /\ Limit \in Nat /\ Final < Limit
    /\ HpList \in Nat \ {0}
    /\ Sizes \subseteq Nat \ {0}
    /\ MaxAdd \in Nat

VARIABLES
    hash,           \* cdb_hash, fixed
    phase,          \* of vdnsdb: "adding", "finished", "dead"
    head,           \* cdb_make.head: the links, newest first
    pos,            \* cdb_make.pos: where the next item goes, says cdb_make
    file,           \* the records, each with the place it is really at
    end,            \* where the file really ends
    table,          \* the hash tables: position and slots
    sound,          \* FALSE when a failed add was ignored
    loop, kpos, key, \* struct cdb: slots seen, slot to look at, key sought
    probing,        \* TRUE inside cdb_findnext
    reply           \* what the last call returned

makeVars == <<phase, head, pos, file, end, table, sound>>
findVars == <<loop, kpos, key, probing, reply>>
vars == <<hash, makeVars, findVars>>

NoReply == <<"none">>
NoMore == <<"no">>
Yield(d) == <<"yes", d>>

-----------------------------------------------------------------------------
(* cdb_make                                                                *)

\* Slip: the wrapped position is not noticed.
PosPlus_Wraps(p, len) == (p + len) % Limit

\* Slip: positions are wider than the 32 bits the file has room for.
PosPlus_Wide(p, len) == p + len

\* posplus: -1 when the 32 bit position would wrap.
PosPlus(p, len) ==
    LET newpos == (p + len) % Limit IN IF newpos < len THEN -1 ELSE newpos

\* cdb_make_addend: the pointer goes to the newest link, or to a new one.
Push(links, hp) ==
    IF links = <<>> \/ Len(links[1]) >= HpList
    THEN <<<<hp>>>> \o links
    ELSE <<Append(links[1], hp)>> \o Tail(links)

\* cdb_make_add of a record whose key and data occupy n: the record is written,
\* its pointer noted, and then the position is advanced.
AddRecord(k, n) ==
    /\ phase = "adding"
    /\ Len(file) < MaxAdd
    /\ file' = Append(file, [key |-> k, data |-> Len(file) + 1, at |-> end])
    /\ end' = end + Field + n
    /\ head' = Push(head, [h |-> hash[k], p |-> pos])
    /\ UNCHANGED <<hash, table, findVars>>

NewPos(n) == LET p == PosPlus(pos, Field) IN IF p = -1 THEN -1 ELSE PosPlus(p, n)

Add(k, n) ==
    /\ AddRecord(k, n)
    /\ NewPos(n) # -1
    /\ pos' = NewPos(n)
    /\ UNCHANGED <<phase, sound>>

\* rr_finish looks at the result and dies; the unfinished file is left behind.
AddFails(n) ==
    /\ phase = "adding"
    /\ Len(file) < MaxAdd
    /\ NewPos(n) = -1
    /\ phase' = "dead"
    /\ UNCHANGED <<hash, head, pos, file, end, table, sound, findVars>>

\* rr_addloq and the '%' lines do not look: the position stays where the last
\* posplus that worked left it (the key may still have fitted) and the file goes
\* on behind it.
AddFailsUnseen(k, n) ==
    /\ AddRecord(k, n)
    /\ NewPos(n) = -1
    /\ sound' = FALSE
    /\ pos' \in IF PosPlus(pos, Field) = -1 THEN {pos}
               ELSE pos + Field .. Limit - 1
    /\ UNCHANGED phase

\* cdb_make_finish walks the links from the newest, each from its end, ...
Walk == FlattenSeq([i \in 1 .. Len(head) |-> Reverse(head[i])])
Of(t) == {hp \in ToSet(Walk) : hp.h % Tables = t}

\* Slip: the links are walked backwards but the pointers are filled in forwards.
Split_Forward(t) == Kept(Walk, Of(t))

\* ... and fills the pointers of a table from the end: they are in order again.
Split(t) == Reverse(Kept(Walk, Of(t)))

FirstSlot(h, len) == (h \div Tables) % len

\* "if (++where == len) where = 0": the slot i places on from the first for h.
\* Slots are numbered from 1.
Nth(h, i, len) ==
    LET where == FirstSlot(h, len) + i IN 1 + (IF where < len THEN where ELSE where - len)

EmptySlot == [h |-> 0, p |-> 0]

\* The first free slot from FirstSlot on
PlaceIn(slots, hp) ==
    LET len == Len(slots)
        i == CHOOSE i \in 0 .. len - 1 :
                /\ slots[Nth(hp.h, i, len)].p = 0
                /\ \A j \in 0 .. i - 1 : slots[Nth(hp.h, j, len)].p # 0
    IN  [slots EXCEPT ![Nth(hp.h, i, len)] = hp]

\* One pointer after the other, in two slots for each
Filled(split) ==
    LET fill[n \in 0 .. Len(split)] ==
            IF n = 0 THEN [i \in 1 .. 2 * Len(split) |-> EmptySlot]
            ELSE PlaceIn(fill[n - 1], split[n])
    IN  fill[Len(split)]

Slots(t) == Filled(Split(t))

\* Every slot is written and the position advanced, table after table.
TablesFit == pos + Field * 2 * Len(FlattenSeq(head)) < Limit

Finish ==
    /\ phase = "adding"
    /\ TablesFit
    /\ phase' = "finished"
    /\ table' = [t \in 0 .. Tables - 1 |-> Slots(t)]
    /\ UNCHANGED <<hash, head, pos, file, end, sound, findVars>>

\* posplus fails among the tables: die_datatmp
FinishFails ==
    /\ phase = "adding"
    /\ ~TablesFit
    /\ phase' = "dead"
    /\ UNCHANGED <<hash, head, pos, file, end, table, sound, findVars>>

-----------------------------------------------------------------------------
(* cdb_find and cdb_findnext, on a file whose positions are right.         *)

Readable == phase = "finished" /\ sound

SlotsOf(k) == table[hash[k] % Tables]

\* cdb_find: cdb_findstart and the first part of cdb_findnext
Find(k) ==
    /\ Readable
    /\ ~probing
    /\ key' = k
    /\ loop' = 0
    /\ kpos' = IF SlotsOf(k) = <<>> THEN 0
               ELSE FirstSlot(hash[k], Len(SlotsOf(k)))
    /\ probing' = TRUE
    /\ reply' = NoReply
    /\ UNCHANGED <<hash, makeVars>>

\* The caller asks for the next record under the same key.
FindNext ==
    /\ Readable
    /\ ~probing
    /\ reply # NoReply /\ reply # NoMore
    /\ probing' = TRUE
    /\ reply' = NoReply
    /\ UNCHANGED <<hash, makeVars, loop, kpos, key>>

Here == SlotsOf(key)[kpos + 1]

\* Nothing is left: every slot was seen, or this one is empty.
Ends == loop < Len(SlotsOf(key)) => Here.p = 0

\* The key stored at p is compared only when the hashes agree.
Matches(hp) ==
    /\ hp.h = hash[key]
    /\ \E r \in 1 .. Len(file) : file[r].at = hp.p /\ file[r].key = key

\* Look at one slot and go to the next, from the last back to the first.
Advance ==
    /\ probing
    /\ ~Ends
    /\ loop' = loop + 1
    /\ kpos' = IF kpos + 1 = Len(SlotsOf(key)) THEN 0 ELSE kpos + 1
    /\ UNCHANGED <<hash, makeVars, key>>

Pass ==
    /\ Advance
    /\ ~Matches(Here)
    /\ UNCHANGED <<probing, reply>>

Hit ==
    /\ Advance
    /\ Matches(Here)
    /\ probing' = FALSE
    /\ \E r \in 1 .. Len(file) :
        file[r].at = Here.p /\ reply' = Yield(file[r].data)

Miss ==
    /\ probing
    /\ Ends
    /\ probing' = FALSE
    /\ reply' = NoMore
    /\ UNCHANGED <<hash, makeVars, loop, kpos, key>>

-----------------------------------------------------------------------------
Init ==
    /\ hash \in [Key -> HashVal]
    /\ phase = "adding"
    /\ head = <<>>
    /\ pos = Final
    /\ file = <<>>
    /\ end = Final
    /\ table = <<>>
    /\ sound = TRUE
    /\ loop = 0
    /\ kpos = 0
    /\ key = NoKey
    /\ probing = FALSE
    /\ reply = NoReply

Next ==
    \/ \E k \in Key, n \in Sizes : Add(k, n) \/ AddFailsUnseen(k, n)
    \/ \E n \in Sizes : AddFails(n)
    \/ Finish
    \/ FinishFails
    \/ \E k \in Key : Find(k)
    \/ FindNext
    \/ Pass
    \/ Hit
    \/ Miss

Spec == Init /\ [][Next]_vars
-----------------------------------------------------------------------------
TypeOK ==
    /\ hash \in [Key -> HashVal]
    /\ phase \in {"adding", "finished", "dead"}
    /\ head \in Seq(Seq([h : HashVal, p : Nat]))
    /\ pos \in 0 .. Limit - 1
    /\ file \in Seq([key : Key, data : 1 .. MaxAdd, at : Nat])
    /\ end \in Nat
    /\ sound \in BOOLEAN
    /\ loop \in 0 .. 2 * MaxAdd
    /\ kpos \in 0 .. 2 * MaxAdd
    /\ key \in Key \cup {NoKey}
    /\ probing \in BOOLEAN

\* As long as no failed add was ignored, cdb_make's idea of where the file ends
\* is right, for a file of any length: a position that would wrap is refused.
FileInStep == sound => pos = end

\* The pointer to a record that cdb_make notes
Pointer(i) == [h |-> hash[file[i].key], p |-> file[i].at]

\* A walk of the slots comes to hp after d others, none of them empty.
Placed(slots, hp, d) ==
    /\ d \in 0 .. Len(slots) - 1
    /\ slots[Nth(hp.h, d, Len(slots))] = hp
    /\ \A j \in 0 .. d - 1 : slots[Nth(hp.h, j, Len(slots))].p # 0

\* In a finished database a walk from the first slot of a record's hash comes to
\* the record before it comes to an empty slot, whatever hashes collide.
EveryRecordReachable ==
    Readable => \A i \in DOMAIN file :
                    LET slots == table[Pointer(i).h % Tables]
                    IN  \E d \in 0 .. Len(slots) - 1 : Placed(slots, Pointer(i), d)

\* How many slots a walk passes before it comes to record i
Offset(slots, i) == CHOOSE d \in 0 .. Len(slots) - 1 : Placed(slots, Pointer(i), d)

\* What the search under way will still find: the records under its key that lie
\* where it has not been.
Ahead == {i \in DOMAIN file : file[i].key = key /\ Offset(SlotsOf(key), i) >= loop}
Left == [n \in 1 .. Cardinality(Ahead) |-> file[InOrder(Ahead)[n]].data]

Abstract == INSTANCE MultiMap WITH
    Data <- 1 .. MaxAdd,
    added <- [i \in 1 .. Len(file) |->
                [key |-> file[i].key, data |-> file[i].data]],
    open <- phase = "adding",
    left <- Left

\* cdb_make.c, cdb.c: the database is a multimap: cdb_findstart and cdb_findnext
\* give the records of a key, duplicates in the order they were added (doit takes
\* the first records, the SOA of a zone among them).
ImplementsMultiMap == Abstract!Spec

-----------------------------------------------------------------------------
(* The inductive invariant.                                                 *)

\* A datum is the number of its record.
Numbered == Len(file) <= MaxAdd /\ \A i \in DOMAIN file : file[i].data = i

\* While the positions are right, records follow each other in the file, and the
\* walk of cdb_make_finish meets a pointer to each, the last first.
InStep ==
    sound =>
        /\ pos = end /\ end > 0
        /\ \A i \in DOMAIN file : file[i].at \in 1 .. end - 1
        /\ \A i, j \in DOMAIN file : i < j => file[i].at < file[j].at
        /\ Walk = [n \in 1 .. Len(file) |-> Pointer(Len(file) + 1 - n)]

TablesBuilt == phase = "finished" => table = [t \in 0 .. Tables - 1 |-> Slots(t)]

\* Nothing is sought before the database can be read, and then kpos is where so
\* many steps lead from the first slot.
Searching ==
    IF key = NoKey THEN ~probing /\ reply = NoReply /\ loop = 0 /\ kpos = 0
    ELSE /\ Readable
         /\ loop \in 0 .. Len(SlotsOf(key))
         /\ kpos = IF SlotsOf(key) = <<>> THEN 0
                   ELSE Nth(hash[key], loop, Len(SlotsOf(key))) - 1
         /\ probing => reply = NoReply

CdbInv == TypeOK /\ Numbered /\ InStep /\ TablesBuilt /\ Searching
=============================================================================
