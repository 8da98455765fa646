------------------------------- MODULE Publish -------------------------------
(***************************************************************************)
(* How a database reaches a name server.  zexport (z_export2 in zone.pm)   *)
(* streams the records through updateremote to "cdbupdate prepare" on the   *)
(* server, where vdnsdb writes tmp/data.tmp and renames it to tmp/data.cdb, *)
(* and then asks for "cdbupdate commit", which moves tmp/data.cdb over       *)
(* root/data.cdb, the file vdnsd maps.                                      *)
(*                                                                         *)
(* One server is modelled; an export is one run of zexport against it.  The *)
(* exporter and the vdnsdb it has started are two processes on two machines *)
(* and need not end together.  A file is an inode with three blocks, in the *)
(* order vdnsdb writes them; a block holds the name of the export that wrote *)
(* it last.  Names (tmp, ready, live) stand for inodes.                     *)
(***************************************************************************)
EXTENDS Naturals, FiniteSets

CONSTANTS
    Export,         \* the runs of zexport
    Seed,           \* the run that installed the first database
    Hole,           \* the content of a block nobody wrote
    MaxTrouble,     \* bound: streams cut, connections lost, processes killed
                    \* and power failures, together
    MaxTroubleShared \* the same bound while exports overlap

ASSUME PublishConstants ==
    /\ IsFiniteSet(Export)
    /\ Seed \notin Export
    /\ Hole \notin Export \cup {Seed}
    /\ MaxTrouble \in Nat
    /\ MaxTroubleShared \in Nat

VARIABLES
    alone,          \* TRUE when exports are run one after the other, fixed
    beside,         \* history: an export began beside a vdnsdb still at work
    names,          \* the three names, each an inode or 0
    diskNames,      \* what the names are after a power failure
    content,        \* content[i]: the blocks of inode i
    durable,        \* durable[i]: what of it is certainly on the disk
    inodes,         \* how many inodes were made
    exporter,       \* exporter[e]: where zexport is
    builder,        \* builder[e]: where the vdnsdb of e is
    fd,             \* fd[e]: the inode that vdnsdb has open
    cut,            \* the exports whose stream ended before its last record
    answer,         \* answer[e]: what prepare answered, as far as e can know
    trouble,
    outages,        \* history: how many of the troubles were power failures
    installed       \* history: the inodes that were live since the server started

fileVars == <<alone, beside, names, diskNames, content, durable, inodes, installed,
              outages>>
vars == <<fileVars, exporter, builder, fd, cut, answer, trouble, outages>>

Writer == Export \cup {Seed}
Block == {"records", "tables", "header"}
Inode == 1 .. Cardinality(Export) + 1
Empty == [b \in Block |-> Hole]
WrittenBy(e) == [b \in Block |-> e]

-----------------------------------------------------------------------------
(* zexport                                                                 *)

Ended(e) == builder[e] \in {"none", "exit"}
Quiet(e) == exporter[e] \in {"new", "done"} /\ Ended(e)

\* z_export2 opens the pipe; updateremote starts "cdbupdate prepare".  An
\* administrator can wait for a zexport to end; nothing tells whether the vdnsdb
\* of an earlier one is still at work on the server.
Begin(e) ==
    /\ exporter[e] = "new"
    /\ alone => \A f \in Export : exporter[f] \in {"new", "done"}
    /\ exporter' = [exporter EXCEPT ![e] = "stream"]
    /\ builder' = [builder EXCEPT ![e] = "open"]
    /\ beside' = (beside \/ \E f \in Export : ~Ended(f))
    /\ UNCHANGED <<alone, names, diskNames, content, durable, inodes, installed,
                   outages, fd, cut, answer, trouble>>

Trouble ==
    /\ trouble < IF alone THEN MaxTrouble ELSE MaxTroubleShared
    /\ trouble' = trouble + 1

\* The records after this point never arrive.
Unfinished(e) == IF builder[e] \in {"open", "records"} THEN {e} ELSE {}

\* The query for the records, or the local gzip, ends early: the remote gzip
\* fails, but cdbupdate only sees the exit code of vdnsdb, the last of the pipe.
StreamCut(e) ==
    /\ Trouble
    /\ exporter[e] = "stream"
    /\ Unfinished(e) # {}
    /\ cut' = cut \cup Unfinished(e)
    /\ UNCHANGED <<fileVars, exporter, builder, fd, answer>>

\* The connection is lost: close waits for the local ssh only, and z_export2
\* goes on to the commit while vdnsdb goes on with what it has.
ConnectionLost(e) ==
    /\ Trouble
    /\ exporter[e] = "stream"
    /\ exporter' = [exporter EXCEPT ![e] = "commit"]
    /\ cut' = cut \cup Unfinished(e)
    /\ UNCHANGED <<fileVars, builder, fd, answer>>

\* zexport dies, or cannot open the pipe to the server for the commit.
ExporterDies(e) ==
    /\ Trouble
    /\ exporter[e] \in {"stream", "commit"}
    /\ exporter' = [exporter EXCEPT ![e] = "done"]
    /\ cut' = cut \cup (IF exporter[e] = "stream" THEN Unfinished(e) ELSE {})
    /\ UNCHANGED <<fileVars, builder, fd, answer>>

\* close: prepare has ended.  Its answer is not looked at.
Prepared(e) ==
    /\ exporter[e] = "stream"
    /\ builder[e] = "exit"
    /\ exporter' = [exporter EXCEPT ![e] = "commit"]
    /\ UNCHANGED <<fileVars, builder, fd, cut, answer, trouble>>

\* Slip: the commit copies onto the live file instead of renaming.
Commit_Copy(e) ==
    /\ exporter[e] = "commit"
    /\ names.ready # 0
    /\ content' = [content EXCEPT ![names.live] = content[names.ready]]
    /\ names' = [names EXCEPT !.ready = 0]
    /\ exporter' = [exporter EXCEPT ![e] = "done"]
    /\ UNCHANGED <<alone, beside, diskNames, durable, inodes, builder, fd, cut,
                   answer, trouble, installed, outages>>

\* cdbupdate commit: COMMIT_OK_COMMITED
Commit(e) ==
    /\ exporter[e] = "commit"
    /\ names.ready # 0
    /\ names' = [names EXCEPT !.live = names.ready, !.ready = 0]
    /\ installed' = installed \cup {names.ready}
    /\ exporter' = [exporter EXCEPT ![e] = "done"]
    /\ UNCHANGED <<alone, beside, diskNames, content, durable, inodes, builder, fd,
                   cut, answer, trouble, outages>>

\* cdbupdate commit: COMMIT_FAILED_DATAFILENOTFOUND
CommitRefused(e) ==
    /\ exporter[e] = "commit"
    /\ names.ready = 0
    /\ exporter' = [exporter EXCEPT ![e] = "done"]
    /\ UNCHANGED <<fileVars, builder, fd, cut, answer, trouble>>

-----------------------------------------------------------------------------
(* vdnsdb tmp/data.tmp tmp/data.cdb                                        *)

Step(e, from, to) ==
    /\ builder[e] = from
    /\ builder' = [builder EXCEPT ![e] = to]

\* open_trunc makes data.tmp, or empties the one that is there.
Open(e) ==
    /\ Step(e, "open", "records")
    /\ IF names.tmp # 0
       THEN /\ fd' = [fd EXCEPT ![e] = names.tmp]
            /\ content' = [content EXCEPT ![names.tmp] = Empty]
            /\ UNCHANGED <<inodes, names>>
       ELSE /\ inodes' = inodes + 1
            /\ names' = [names EXCEPT !.tmp = inodes + 1]
            /\ fd' = [fd EXCEPT ![e] = inodes + 1]
            /\ content' = [content EXCEPT ![inodes + 1] = Empty]
    /\ UNCHANGED <<alone, beside, diskNames, durable, exporter, cut, answer, trouble,
                   installed, outages>>

WriteBlock(e, b) ==
    /\ content' = [content EXCEPT ![fd[e]][b] = e]
    /\ UNCHANGED <<alone, beside, names, diskNames, durable, inodes, exporter, fd,
                   cut, answer, trouble, installed, outages>>

\* The loop over the lines of the stream, up to its end.
Records(e) == Step(e, "records", "tables") /\ WriteBlock(e, "records")

\* cdb_make_finish: the hash tables, then the header at the front.
Tables(e) == Step(e, "tables", "header") /\ WriteBlock(e, "tables")
Header(e) == Step(e, "header", "fsync") /\ WriteBlock(e, "header")

\* Slip: no fsync.
Fsync_Skipped(e) ==
    /\ Step(e, "fsync", "rename")
    /\ UNCHANGED <<fileVars, exporter, fd, cut, answer, trouble>>

Fsync(e) ==
    /\ Step(e, "fsync", "rename")
    /\ durable' = [durable EXCEPT ![fd[e]] = content[fd[e]]]
    /\ UNCHANGED <<alone, beside, names, diskNames, content, inodes, exporter, fd,
                   cut, answer, trouble, installed, outages>>

\* prepare's answer reaches an exporter that is still connected.
Answered(e, a) ==
    answer' = IF exporter[e] = "stream" THEN [answer EXCEPT ![e] = a] ELSE answer

\* Slip: rename does not replace a data.cdb that is already there.
Rename_NoClobber(e) ==
    /\ Step(e, "rename", "exit")
    /\ names' = IF names.ready # 0 THEN [names EXCEPT !.tmp = 0]
                ELSE [names EXCEPT !.ready = names.tmp, !.tmp = 0]
    /\ Answered(e, "200")
    /\ UNCHANGED <<alone, beside, diskNames, content, durable, inodes, exporter, fd,
                   cut, trouble, installed, outages>>

\* Slip: the result of rename is not looked at.
Rename_Ignored(e) ==
    /\ Step(e, "rename", "exit")
    /\ names' = IF names.tmp = 0 THEN names
                ELSE [names EXCEPT !.ready = names.tmp, !.tmp = 0]
    /\ Answered(e, "200")
    /\ UNCHANGED <<alone, beside, diskNames, content, durable, inodes, exporter, fd,
                   cut, trouble, installed, outages>>

\* rename(data.tmp, data.cdb) moves whatever data.tmp is by then.
Rename(e) ==
    /\ Step(e, "rename", "exit")
    /\ IF names.tmp # 0
       THEN /\ names' = [names EXCEPT !.ready = names.tmp, !.tmp = 0]
            /\ Answered(e, "200")
       ELSE Answered(e, "500") /\ UNCHANGED names
    /\ UNCHANGED <<alone, beside, diskNames, content, durable, inodes, exporter, fd,
                   cut, trouble, installed, outages>>

\* Slip: the temporary file is put in place before vdnsdb gives up.
Dies_Cleanup(e) ==
    /\ Trouble
    /\ Step(e, "records", "exit")
    /\ names' = [names EXCEPT !.ready = names.tmp, !.tmp = 0]
    /\ Answered(e, "500")
    /\ UNCHANGED <<alone, beside, diskNames, content, durable, inodes, exporter, fd,
                   cut, installed, outages>>

\* Slip: vdnsdb's exit code is passed on as it is.
Dies_ExitCode(e) ==
    /\ Trouble
    /\ Step(e, "records", "exit")
    /\ Answered(e, "111")
    /\ UNCHANGED <<fileVars, exporter, fd, cut>>

\* A line vdnsdb cannot parse, or a full disk: it dies and leaves data.tmp.
Dies(e) ==
    /\ Trouble
    /\ builder[e] \in {"records", "tables", "header"}
    /\ builder' = [builder EXCEPT ![e] = "exit"]
    /\ Answered(e, "500")
    /\ UNCHANGED <<fileVars, exporter, fd, cut>>

-----------------------------------------------------------------------------
(* The disk.                                                               *)

\* Renames reach the disk in order, when the file system sees fit.
FlushNames ==
    /\ diskNames # names
    /\ diskNames' = names
    /\ UNCHANGED <<alone, beside, names, content, durable, inodes, installed, outages,
                   exporter, builder, fd, cut, answer, trouble>>

\* Power fails: each file has what was written, or only what was fsynced; the
\* programs on the server are gone, the exporters lose their connections.
PowerFails ==
    /\ Trouble
    /\ names' = diskNames
    /\ \E kept \in [Inode -> BOOLEAN] :
        content' = [i \in Inode |-> IF kept[i] THEN content[i] ELSE durable[i]]
    /\ durable' = content'
    /\ builder' = [e \in Export |->
                    IF builder[e] = "none" THEN "none" ELSE "exit"]
    /\ exporter' = [e \in Export |->
                    IF exporter[e] = "stream" THEN "commit" ELSE exporter[e]]
    /\ cut' = cut \cup UNION {Unfinished(e) : e \in Export}
    /\ installed' = {diskNames.live}
    /\ outages' = outages + 1
    /\ UNCHANGED <<alone, beside, diskNames, inodes, fd, answer>>

-----------------------------------------------------------------------------
Init ==
    /\ alone \in BOOLEAN
    /\ beside = FALSE
    /\ names = [tmp |-> 0, ready |-> 0, live |-> 1]
    /\ diskNames = names
    /\ content = [i \in Inode |-> IF i = 1 THEN WrittenBy(Seed) ELSE Empty]
    /\ durable = content
    /\ inodes = 1
    /\ exporter = [e \in Export |-> "new"]
    /\ builder = [e \in Export |-> "none"]
    /\ fd = [e \in Export |-> 0]
    /\ cut = {}
    /\ answer = [e \in Export |-> "none"]
    /\ trouble = 0
    /\ outages = 0
    /\ installed = {1}

Build(e) ==
    \/ Open(e) \/ Records(e) \/ Tables(e) \/ Header(e) \/ Fsync(e) \/ Rename(e)

Next ==
    \/ FlushNames
    \/ PowerFails
    \/ \E e \in Export :
        \/ Begin(e) \/ StreamCut(e) \/ ConnectionLost(e) \/ ExporterDies(e)
        \/ Prepared(e) \/ Commit(e) \/ CommitRefused(e)
        \/ Build(e) \/ Dies(e)

Spec == Init /\ [][Next]_vars
-----------------------------------------------------------------------------
Ref == Inode \cup {0}
Name == [tmp : Ref, ready : Ref, live : Ref]

TypeOK ==
    /\ alone \in BOOLEAN
    /\ beside \in BOOLEAN
    /\ names \in Name
    /\ diskNames \in Name
    /\ content \in [Inode -> [Block -> Writer \cup {Hole}]]
    /\ durable \in [Inode -> [Block -> Writer \cup {Hole}]]
    /\ inodes \in Inode
    /\ exporter \in [Export -> {"new", "stream", "commit", "done"}]
    /\ builder \in [Export -> {"none", "open", "records", "tables", "header",
                               "fsync", "rename", "exit"}]
    /\ fd \in [Export -> Ref]
    /\ cut \subseteq Export
    /\ answer \in [Export -> {"none", "200", "500"}]
    /\ trouble \in 0 .. IF alone THEN MaxTrouble ELSE MaxTroubleShared
    /\ outages \in 0 .. trouble
    /\ installed \subseteq Inode

Whole(i) == \E e \in Writer : content[i] = WrittenBy(e)

\* As long as no export is begun while the vdnsdb of another one is at work, only
\* whole databases come in front of vdnsd, each written by one vdnsdb from one
\* stream, whatever is cut, dies or loses power in between, and there always is
\* one.  It is for the administrator to see to that: to run zexport again after
\* a lost connection is enough to spoil it (OkIsInstalled).
LiveIsWhole == ~beside => names.live # 0 /\ Whole(names.live)

\* ... and what waits for a commit is whole too: a commit whose own prepare
\* failed still installs a consistent database (an older one).
ReadyIsWhole == ~beside /\ names.ready # 0 => Whole(names.ready)

\* As long as no two vdnsdb are at work together, a file that vdnsd has mapped, or
\* may map, is never written again (Reload takes a version to be a thing that
\* does not change).
NeverRewritten ==
    [][~beside => \A i \in installed : content'[i] = content[i]]_vars

\* e asks for its commit, and the live database becomes another one.
Installs(e) ==
    /\ exporter[e] = "commit" /\ exporter'[e] = "done"
    /\ names'.live # names.live

\* An export that got its 200 and did not lose power in between installs its
\* own records, not those of another export, when exports are run in turn and
\* none is begun while the vdnsdb of an earlier one is still at work.
CommitsOwn ==
    [][\A e \in Export :
        alone /\ ~beside /\ answer[e] = "200" /\ Installs(e)
        => outages # 0 \/ content'[names'.live] = WrittenBy(e)]_vars

\* What the README says of zexport, "commits the data to dns servers", for one
\* that was answered 200 and is run when every other zexport has ended.
OkIsInstalled ==
    [][\A e \in Export :
        alone /\ answer[e] = "200" /\ Installs(e)
        => outages # 0 \/ content'[names'.live] = WrittenBy(e)]_vars

\* Exports that overlap share data.tmp and may tear a database that is already
\* installed; but when they have all ended, one of them was told: if two have
\* opened one data.tmp, one finds it gone when it renames.
TornIsTold ==
    trouble = 0 /\ (\A e \in Export : Quiet(e)) /\ ~Whole(names.live)
        => \E e \in Export : answer[e] = "500"

\* What cdbupdate's answer says: "200 PREPARE_OK_DONE", the data is prepared.
PrepareOkIsComplete == \A e \in Export : answer[e] = "200" => e \notin cut
-----------------------------------------------------------------------------
(* The inductive invariant behind the safety properties.                   *)

\* The exports whose vdnsdb holds a descriptor, and those that ever had one
Active == {e \in Export :
            builder[e] \in {"records", "tables", "header", "fsync", "rename"}}
Opened == {e \in Export : builder[e] \notin {"none", "open"}}

\* Every export makes one inode at most.
CountInv == inodes <= 1 + Cardinality(Opened)

\* The inodes that vdnsd has mapped or can get to see by a commit, also after a
\* power failure
Settled ==
    ({names.ready, names.live, diskNames.ready, diskNames.live} \cup installed) \ {0}

\* A name moves from tmp to ready to live and never back; data.tmp, which the
\* next vdnsdb empties, is none of the settled ones.
NamesInv ==
    /\ names.live # 0 /\ diskNames.live # 0
    /\ Settled \cup {names.tmp, diskNames.tmp} \subseteq 0 .. inodes
    /\ names.tmp \notin Settled
    /\ diskNames.tmp \notin {diskNames.ready, diskNames.live} \ {0}

\* What a vdnsdb that has data.tmp for itself has done so far
Progress(e) ==
    /\ names.tmp # 0
    /\ fd[e] = names.tmp
    /\ builder[e] # "records" => content[fd[e]]["records"] = e
    /\ builder[e] \in {"header", "fsync", "rename"} => content[fd[e]]["tables"] = e
    /\ builder[e] \in {"fsync", "rename"} => content[fd[e]]["header"] = e
    /\ builder[e] = "rename" => durable[fd[e]] = content[fd[e]]

\* A whole database that power failures do not change
Safe(i) == Whole(i) /\ durable[i] = content[i]

\* No vdnsdb has met another one in data.tmp.
Clean ==
    /\ \A i \in Settled : Safe(i)
    /\ \A e, f \in Active : e = f
    /\ \A e \in Active : Progress(e)

\* More vdnsdb are to rename a data.tmp than there is one.
Crowded == \E e \in Active : names.tmp = 0 \/ \E f \in Active : f # e

\* Until an export is begun beside a vdnsdb there is one vdnsdb at work ...
SoleInv == ~beside => \A e, f \in Export : Ended(e) \/ Ended(f) \/ e = f

\* ... and of exports in turn one export, zexport or vdnsdb.
TurnInv == alone /\ ~beside => \A e, f \in Export : Quiet(e) \/ Quiet(f) \/ e = f

\* An answer comes from a vdnsdb that has ended; without trouble zexport waits
\* for it; and who was told 200 finds its own records ready.
ExportInv(e) ==
    /\ exporter[e] = "new" <=> builder[e] = "none"
    /\ answer[e] # "none" => builder[e] = "exit"
    /\ trouble = 0 /\ builder[e] \notin {"none", "exit"} => exporter[e] = "stream"
    /\ alone /\ ~beside /\ outages = 0
            /\ exporter[e] \in {"stream", "commit"} /\ answer[e] = "200"
        => names.ready # 0 /\ content[names.ready] = WrittenBy(e)

\* Two that share a data.tmp leave one without: until it finds out, more are to
\* rename than there are files.
TornInv ==
    trouble = 0 /\ (\A e \in Export : answer[e] # "500")
        => Crowded \/ (Clean /\ (names.tmp # 0 => Active # {}))

IInv ==
    /\ TypeOK /\ CountInv /\ NamesInv /\ SoleInv /\ TurnInv
    /\ \A e \in Export : ExportInv(e)
    /\ ~beside => Clean
    /\ TornInv
=============================================================================
