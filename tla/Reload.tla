------------------------------- MODULE Reload -------------------------------
(***************************************************************************)
(* How a vdnsd process follows the database file (tdlookup.c).             *)
(*                                                                         *)
(* Every process opens and maps data.cdb, places a one-shot inotify watch  *)
(* on that name and then asks the inotify descriptor, at the start of each  *)
(* query, whether something was reported.  If so it maps the file again     *)
(* and places the watch again.  A new database arrives by rename(2) over    *)
(* the old name (cdbupdate commit), so a version of the database is an      *)
(* inode: versions are numbered, and version n is the n-th inode published. *)
(*                                                                         *)
(* The kernel's side is external: what rename, unlink and touch/chmod do   *)
(* to the marks that watch an inode.  For each watcher such a call first    *)
(* queues IN_ATTRIB and then, the mark being one-shot, destroys the mark    *)
(* and queues IN_IGNORED; both happen inside the call, process after        *)
(* process, while the watchers run.                                         *)
(*                                                                         *)
(* datachk reads whatever FIONREAD said into a buffer for two events.  More  *)
(* than two, and read(2) writes over the variables next to it: a process may *)
(* come out of that unharmed, or be one of which nothing can be said any      *)
(* more ("wild"), until it is killed.                                         *)
(***************************************************************************)
EXTENDS Integers, FiniteSets

CONSTANTS
    Proc,           \* the vdnsd processes started on one root directory
    MaxVersion,     \* bound: versions ever published
    MaxTouch,       \* bound: touch/chmod calls on data.cdb
    MaxUnlink,      \* bound: removals of data.cdb by an operator
    MaxKill         \* bound: kills (kill -9, a crash) of a process

ASSUME ReloadBounds ==
    /\ MaxVersion \in Nat \ {0}
    /\ MaxTouch \in Nat
    /\ MaxUnlink \in Nat
    /\ MaxKill \in Nat

VARIABLES
    \* the file system and the call in progress on data.cdb
    live,           \* the inode the name data.cdb stands for, 0 when none
    last,           \* the newest version published
    call,           \* "none", or the call in progress
    target,         \* the inode whose watchers the call in progress notifies
    firing,         \* processes whose IN_ATTRIB is still to be queued
    ignoring,       \* processes whose IN_IGNORED is still to be queued
    touches, unlinks, kills,
    \* a process
    pc,             \* where it is
    map,            \* the inode it has mapped, 0 when none
    marks,          \* the inodes its inotify descriptor watches
    queue,          \* the number of events on its inotify descriptor
    msglen,         \* what FIONREAD told datachk, in events
    \* history, read by the properties only
    acked,          \* the newest version whose commit has returned
    asked,          \* asked[p]: acked when p took up its current query
    raced,          \* raced[p]: p's last watch went to an inode p had not mapped
    answered        \* answered[p]: the version of p's last answer

kernelVars == <<live, last, call, target, firing, ignoring>>
boundVars == <<touches, unlinks, kills>>
procVars == <<pc, map, marks, queue, msglen>>
historyVars == <<acked, asked, raced, answered>>
vars == <<kernelVars, boundVars, procVars, historyVars>>

Version == 1 .. MaxVersion
PC == {"down", "ini_watch", "idle", "datachk", "read", "datare", "watch",
       "find", "doit", "wild"}

EvbufRoom == 2      \* event_t evbuf[2]

-----------------------------------------------------------------------------
(* Calls on the name data.cdb.  They are serialised: one mv runs at a time. *)

\* The watchers of inode i have to be told; an inode 0 has none.
Notify(i) ==
    /\ target' = i
    /\ firing' = {p \in Proc : i \in marks[p]}
    /\ UNCHANGED ignoring

\* cdbupdate commit: mv tmp/data.cdb over root/data.cdb.
Commit ==
    /\ call = "none"
    /\ last < MaxVersion
    /\ last' = last + 1
    /\ live' = last + 1
    /\ call' = "rename"
    /\ Notify(live)
    /\ UNCHANGED <<boundVars, procVars, historyVars>>

\* "one may force data reload by 'touch'-ing the cdb file"
Touch ==
    /\ call = "none"
    /\ touches < MaxTouch
    /\ live # 0
    /\ touches' = touches + 1
    /\ call' = "touch"
    /\ Notify(live)
    /\ UNCHANGED <<live, last, unlinks, kills, procVars, historyVars>>

\* Nothing in the repository removes data.cdb; an operator may.
Unlink ==
    /\ call = "none"
    /\ unlinks < MaxUnlink
    /\ live # 0
    /\ unlinks' = unlinks + 1
    /\ live' = 0
    /\ call' = "unlink"
    /\ Notify(live)
    /\ UNCHANGED <<last, touches, kills, procVars, historyVars>>

\* The kernel queues IN_ATTRIB for p ...
Attrib(p) ==
    /\ p \in firing
    /\ firing' = firing \ {p}
    /\ ignoring' = ignoring \cup {p}
    /\ queue' = [queue EXCEPT ![p] = @ + 1]
    /\ UNCHANGED <<live, last, call, target, boundVars, pc, map, marks,
                   msglen, historyVars>>

\* ... and then destroys the one-shot mark and queues IN_IGNORED.
Ignored(p) ==
    /\ p \in ignoring
    /\ ignoring' = ignoring \ {p}
    /\ marks' = [marks EXCEPT ![p] = @ \ {target}]
    /\ queue' = [queue EXCEPT ![p] = @ + 1]
    /\ UNCHANGED <<live, last, call, target, firing, boundVars, pc, map,
                   msglen, historyVars>>

\* The call returns; for a commit, cdbupdate can print COMMIT_OK now.
Return ==
    /\ call # "none"
    /\ firing = {}
    /\ ignoring = {}
    /\ call' = "none"
    /\ acked' = last
    /\ UNCHANGED <<live, last, target, firing, ignoring, boundVars, procVars,
                   asked, raced, answered>>

-----------------------------------------------------------------------------
(* A vdnsd process.                                                        *)

Goto(p, from, to) ==
    /\ pc[p] = from
    /\ pc' = [pc EXCEPT ![p] = to]

\* dataini up to inotify_init: open data.cdb, map it; without it, die.
Start(p) ==
    /\ live # 0
    /\ Goto(p, "down", "ini_watch")
    /\ map' = [map EXCEPT ![p] = live]
    /\ UNCHANGED <<kernelVars, boundVars, marks, queue, msglen, historyVars>>

\* inotify_add_watch(evfd, "data.cdb", EV_MASK|IN_ONESHOT): the watch goes to
\* the inode the name stands for now; there may be none, and then the call
\* fails, which the code does not look at.
PlaceWatch(p) ==
    /\ marks' = [marks EXCEPT ![p] = IF live = 0 THEN @ ELSE @ \cup {live}]
    /\ raced' = [raced EXCEPT ![p] = live # map[p]]

\* the rest of dataini
StartWatch(p) ==
    /\ Goto(p, "ini_watch", "idle")
    /\ PlaceWatch(p)
    /\ UNCHANGED <<kernelVars, boundVars, map, queue, msglen, acked, asked,
                   answered>>

\* A request arrives: main calls doit, doit calls respond.
Query(p) ==
    /\ Goto(p, "idle", "datachk")
    /\ asked' = [asked EXCEPT ![p] = acked]
    /\ UNCHANGED <<kernelVars, boundVars, map, marks, queue, msglen, acked,
                   raced, answered>>

\* Slip: with the "return 0" of the msglen check put back, a query that finds
\* more than one event gives up and leaves them queued.
Reported_ReturnZero(p) ==
    /\ queue[p] # 0
    /\ Goto(p, "datachk", IF queue[p] = 1 THEN "read" ELSE "idle")
    /\ msglen' = [msglen EXCEPT ![p] = IF queue[p] = 1 THEN 1 ELSE 0]
    /\ UNCHANGED <<kernelVars, boundVars, map, marks, queue, historyVars>>

\* Slip: the descriptor is not asked.
NothingReported_Unasked(p) ==
    /\ Goto(p, "datachk", "find")
    /\ UNCHANGED <<kernelVars, boundVars, map, marks, queue, msglen,
                   historyVars>>

\* datachk: ioctl(FIONREAD).  Nothing reported, nothing to do.
NothingReported(p) ==
    /\ queue[p] = 0
    /\ Goto(p, "datachk", "find")
    /\ UNCHANGED <<kernelVars, boundVars, map, marks, queue, msglen,
                   historyVars>>

Reported(p) ==
    /\ queue[p] # 0
    /\ Goto(p, "datachk", "read")
    /\ msglen' = [msglen EXCEPT ![p] = queue[p]]
    /\ UNCHANGED <<kernelVars, boundVars, map, marks, queue, historyVars>>

\* Slip: the events are read, the database is not.
ReadEvents_NoReload(p) ==
    /\ Goto(p, "read", "find")
    /\ queue' = [queue EXCEPT ![p] = @ - msglen[p]]
    /\ msglen' = [msglen EXCEPT ![p] = 0]
    /\ UNCHANGED <<kernelVars, boundVars, map, marks, historyVars>>

\* Slip: a full evbuf is taken off the queue, however little is there.
ReadEvents_Evbuf(p) ==
    /\ Goto(p, "read", "datare")
    /\ queue' = [queue EXCEPT ![p] = @ - 2]
    /\ msglen' = [msglen EXCEPT ![p] = 0]
    /\ UNCHANGED <<kernelVars, boundVars, map, marks, historyVars>>

\* datachk: read(evfd, &evbuf, msglen).  What came after FIONREAD stays queued.
\* The loop over the events only looks for IN_Q_OVERFLOW.  If the events do not
\* fit, this is the case that what lies behind evbuf was not in use.
ReadEvents(p) ==
    /\ Goto(p, "read", "datare")
    /\ queue' = [queue EXCEPT ![p] = @ - msglen[p]]
    /\ msglen' = [msglen EXCEPT ![p] = 0]
    /\ UNCHANGED <<kernelVars, boundVars, map, marks, historyVars>>

\* The events do not fit in evbuf, and what they overwrite was in use.
Overrun(p) ==
    /\ msglen[p] > EvbufRoom
    /\ Goto(p, "read", "wild")
    /\ map' = [map EXCEPT ![p] = 0]
    /\ queue' = [queue EXCEPT ![p] = @ - msglen[p]]
    /\ msglen' = [msglen EXCEPT ![p] = 0]
    /\ UNCHANGED <<kernelVars, boundVars, marks, historyVars>>

\* datare: unmap and close the old file, open data.cdb, map it.
Datare(p) ==
    /\ live # 0
    /\ Goto(p, "datare", "watch")
    /\ map' = [map EXCEPT ![p] = live]
    /\ UNCHANGED <<kernelVars, boundVars, marks, queue, msglen, historyVars>>

\* Slip: without data.cdb the process falls back to a copy of the version before.
DatareFails_Backup(p) ==
    /\ live = 0
    /\ Goto(p, "datare", "watch")
    /\ map' = [map EXCEPT ![p] = last - 1]
    /\ UNCHANGED <<kernelVars, boundVars, marks, queue, msglen, historyVars>>

\* datare when the open fails: the old mapping is gone, datachk and respond
\* give up, the query stays unanswered and no watch is placed.
DatareFails(p) ==
    /\ live = 0
    /\ Goto(p, "datare", "idle")
    /\ map' = [map EXCEPT ![p] = 0]
    /\ UNCHANGED <<kernelVars, boundVars, marks, queue, msglen, historyVars>>

\* Slip: the one-shot watch is taken for a lasting one.
AddWatch_Forgotten(p) ==
    /\ Goto(p, "watch", "find")
    /\ raced' = [raced EXCEPT ![p] = live # map[p]]
    /\ UNCHANGED <<kernelVars, boundVars, map, marks, queue, msglen, acked,
                   asked, answered>>

\* datachk: reinstall the watch
AddWatch(p) ==
    /\ Goto(p, "watch", "find")
    /\ PlaceWatch(p)
    /\ UNCHANGED <<kernelVars, boundVars, map, queue, msglen, acked, asked,
                   answered>>

\* Slip: the result of the lookup is not looked at.
Find_Unchecked(p) ==
    /\ Goto(p, "find", "doit")
    /\ UNCHANGED <<kernelVars, boundVars, map, marks, queue, msglen,
                   historyVars>>

\* respond: the first cdb_find.  Without a mapping it reads from the closed
\* descriptor, fails, and the query stays unanswered.
FindFails(p) ==
    /\ map[p] = 0
    /\ Goto(p, "find", "idle")
    /\ UNCHANGED <<kernelVars, boundVars, map, marks, queue, msglen,
                   historyVars>>

Find(p) ==
    /\ map[p] # 0
    /\ Goto(p, "find", "doit")
    /\ UNCHANGED <<kernelVars, boundVars, map, marks, queue, msglen,
                   historyVars>>

\* respond: doit collects the answer from the mapped file; main sends it.
Answer(p) ==
    /\ Goto(p, "doit", "idle")
    /\ answered' = [answered EXCEPT ![p] = map[p]]
    /\ UNCHANGED <<kernelVars, boundVars, map, marks, queue, msglen, acked,
                   asked, raced>>

\* kill -9 (control2 stop) or a crash: the
\* kernel closes the inotify descriptor, and its marks go with it.
Kill(p) ==
    /\ kills < MaxKill
    /\ pc[p] # "down"
    /\ kills' = kills + 1
    /\ pc' = [pc EXCEPT ![p] = "down"]
    /\ map' = [map EXCEPT ![p] = 0]
    /\ marks' = [marks EXCEPT ![p] = {}]
    /\ queue' = [queue EXCEPT ![p] = 0]
    /\ msglen' = [msglen EXCEPT ![p] = 0]
    /\ firing' = firing \ {p}
    /\ ignoring' = ignoring \ {p}
    /\ UNCHANGED <<live, last, call, target, touches, unlinks, historyVars>>

-----------------------------------------------------------------------------
Init ==
    /\ live = 1
    /\ last = 1
    /\ call = "none"
    /\ target = 0
    /\ firing = {}
    /\ ignoring = {}
    /\ touches = 0
    /\ unlinks = 0
    /\ kills = 0
    /\ pc = [p \in Proc |-> "down"]
    /\ map = [p \in Proc |-> 0]
    /\ marks = [p \in Proc |-> {}]
    /\ queue = [p \in Proc |-> 0]
    /\ msglen = [p \in Proc |-> 0]
    /\ acked = 1
    /\ asked = [p \in Proc |-> 0]
    /\ raced = [p \in Proc |-> FALSE]
    /\ answered = [p \in Proc |-> 0]

Kernel == Commit \/ Touch \/ Unlink \/ Return

Deliver(p) == Attrib(p) \/ Ignored(p)

\* The steps of a process that is working on a query or starting up.
Work(p) ==
    \/ StartWatch(p)
    \/ NothingReported(p)
    \/ Reported(p)
    \/ ReadEvents(p)
    \/ Overrun(p)
    \/ Datare(p)
    \/ DatareFails(p)
    \/ AddWatch(p)
    \/ FindFails(p)
    \/ Find(p)
    \/ Answer(p)

Next ==
    \/ Kernel
    \/ \E p \in Proc : Deliver(p) \/ Work(p) \/ Query(p) \/ Start(p) \/ Kill(p)

Spec == Init /\ [][Next]_vars

\* A call that has begun completes, a process that has begun a query goes on
\* with it, clients keep asking.  Nothing is owed by operators or publishers.
Fairness ==
    /\ WF_vars(Return)
    /\ \A p \in Proc :
        /\ WF_vars(Attrib(p))
        /\ WF_vars(Ignored(p))
        /\ WF_vars(Work(p))
        /\ WF_vars(Query(p))

FairSpec == Spec /\ Fairness
-----------------------------------------------------------------------------
(* Properties.                                                             *)

TypeOK ==
    /\ live \in 0 .. MaxVersion
    /\ last \in Version
    /\ call \in {"none", "rename", "touch", "unlink"}
    /\ target \in 0 .. MaxVersion
    /\ firing \subseteq Proc
    /\ ignoring \subseteq Proc
    /\ touches \in Nat
    /\ unlinks \in Nat
    /\ kills \in Nat
    /\ pc \in [Proc -> PC]
    /\ map \in [Proc -> 0 .. MaxVersion]
    /\ marks \in [Proc -> SUBSET Version]
    /\ queue \in [Proc -> Nat]
    /\ msglen \in [Proc -> Nat]
    /\ acked \in Version
    /\ asked \in [Proc -> 0 .. MaxVersion]
    /\ raced \in [Proc -> BOOLEAN]
    /\ answered \in [Proc -> 0 .. MaxVersion]

\* p has finished starting up and is not in the middle of a reload.
Settled(p) == pc[p] \in {"idle", "datachk", "find", "doit"}

\* p has been told, or the call in progress is about to tell it.
Owed(p) == queue[p] # 0 \/ p \in firing \/ p \in ignoring

\* While nobody removes the file, a process that is up is never deaf: it
\* watches the inode data.cdb stands for, or an event is on its way that will
\* make it look again.  The one-shot watch is spent by each event and is put
\* back by datachk, on the inode it then finds, while renames go on.
NeverDeaf ==
    unlinks = 0 => \A p \in Proc : Settled(p) => live \in marks[p] \/ Owed(p)

\* Reading a database that is not the current one is always temporary: a
\* process that holds an old version has been told, except when the version
\* changed between its open_read and its inotify_add_watch (raced).
StaleIsTold ==
    \A p \in Proc :
        Settled(p) /\ map[p] # 0 /\ map[p] # live /\ ~raced[p] => Owed(p)

\* A query taken up after a commit has returned is answered from that commit,
\* or from a later one, unless the process raced as above.
FreshAnswer ==
    \A p \in Proc : pc[p] = "doit" /\ ~raced[p] => map[p] >= asked[p]

\* What dataini's comment says without reservation: the process is notified
\* of changes of data.cdb, so its answers reflect every commit that returned
\* before the query.
AlwaysFresh == \A p \in Proc : pc[p] = "doit" => map[p] >= asked[p]


\* What is true instead: six events at most, however commits, touches and queries
\* interleave: four that came between FIONREAD and read, and the pair of the watch
\* placed after that read.  So an overrun is of four events at most.
QueueBound == \A p \in Proc : queue[p] <= 3 * EvbufRoom

\* A client of one process never sees the zone data go back in time, across
\* reloads, removals and restarts of the process.
NeverBack == [][\A p \in Proc : answered'[p] >= answered[p]]_vars

\* A process that was told of a change maps a database at least as new as the
\* one that was current then; so a commit missed by the race is made up for by
\* the next commit.  (A process that is killed or wild and a removed file are
\* excepted.)
Told(p, v) == Owed(p) /\ last >= v
Caught(p, v) == map[p] >= v \/ pc[p] \in {"down", "wild"} \/ unlinks # 0
CatchesUp == \A p \in Proc, v \in Version : Told(p, v) ~> Caught(p, v)

\* A query is never left hanging inside a process that is not wild.
Asking(p) == pc[p] \in {"datachk", "read", "datare", "watch", "find", "doit"}
QueryEnds == \A p \in Proc : Asking(p) ~> ~Asking(p)

\* The processes implement the abstract service.
Abstract == INSTANCE Service WITH
    current <- live, newest <- last, serves <- map

ImplementsService == Abstract!Spec
-----------------------------------------------------------------------------
(* The inductive invariant behind the safety properties above.             *)

\* How many events the call in progress still queues for p, and how many the
\* watch of p that no call has reached yet will.
Coming(p) == IF p \in firing THEN 2 ELSE IF p \in ignoring THEN 1 ELSE 0
Reached(p) == IF p \in firing \cup ignoring THEN {target} ELSE {}
Later(p) == IF marks[p] \subseteq Reached(p) THEN 0 ELSE 2
Load(p) == queue[p] + Coming(p) + Later(p)

CallInv ==
    /\ live \in {0, last}
    /\ acked <= last
    /\ unlinks = 0 => live # 0
    /\ call = "none" => firing = {} /\ ignoring = {}
    /\ firing \cap ignoring = {}

\* A process without a watch has no events and expects none.
NewInv(p) ==
    pc[p] \in {"down", "ini_watch"} =>
        /\ queue[p] = 0
        /\ marks[p] = {}
        /\ p \notin firing /\ p \notin ignoring

\* Only the current inode, and the one the call is about, are watched.
MarksInv(p) == marks[p] \subseteq {live} \cup Reached(p)

LoadInv(p) ==
    /\ Load(p) <= 3 * EvbufRoom
    /\ pc[p] = "read" => msglen[p] <= queue[p] /\ Load(p) - msglen[p] <= 2 * EvbufRoom
    /\ pc[p] \in {"datare", "watch"} => Load(p) <= 2 * EvbufRoom

HearInv(p) == unlinks = 0 /\ Settled(p) => live \in marks[p] \/ Owed(p)

SyncInv(p) ==
    Settled(p) /\ map[p] # 0 /\ ~raced[p] =>
        Owed(p) \/ (map[p] = live /\ live \in marks[p])

FreshInv(p) ==
    /\ asked[p] <= acked
    /\ pc[p] = "doit" => map[p] # 0
    /\ Settled(p) /\ map[p] # 0 /\ ~raced[p] /\ queue[p] = 0 => map[p] >= acked
    /\ pc[p] \in {"find", "doit"} /\ map[p] # 0 /\ ~raced[p] =>
            map[p] >= asked[p]

BackInv(p) ==
    /\ map[p] <= last
    /\ answered[p] <= last
    /\ map[p] # 0 => map[p] >= answered[p]

ProcInv(p) ==
    /\ NewInv(p)
    /\ MarksInv(p)
    /\ LoadInv(p)
    /\ HearInv(p)
    /\ SyncInv(p)
    /\ FreshInv(p)
    /\ BackInv(p)

IInv == TypeOK /\ CallInv /\ \A p \in Proc : ProcInv(p)
=============================================================================
