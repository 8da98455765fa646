------------------------------- MODULE MCLive --------------------------------
(***************************************************************************)
(* vdnsd over time, in runs of their own: one process that follows the        *)
(* database file while everything happens to it, and two processes on one     *)
(* root directory while it is replaced and one is killed (Reload); the event  *)
(* loop with two TCP clients for one descriptor and a UDP client (EventLoop). *)
(* What must happen in the end happens under the fairness each part states    *)
(* for itself.  Each behaviour watches one thing that is owed, one of all     *)
(* there are but for the names of the clients, so that each property of this  *)
(* kind is a single "leads to".                                               *)
(***************************************************************************)
EXTENDS Reload, TLC

CONSTANTS
    p1, p2, c1, c2, d1,
    Nobody, EvqueLen, MaxFd, Backlog, Conn, Dgram

VARIABLES
    side,           \* "one", "two" or "loop", fixed
    watched,        \* the kind of thing that is owed and, if need be, a version, fixed
    backlog, owner, rx, peer, udpq, ready, armed, batch, at, cur, sclen, ip

Loop == INSTANCE EventLoop

loopVars == <<backlog, owner, rx, peer, udpq, ready, armed, batch, at, cur, sclen, ip>>

Debt(kind, what) == [kind |-> kind, what |-> what]
Debts ==
    CASE side = "one" -> {Debt("version", v) : v \in Version} \cup {Debt("query", 0)}
      [] side = "two" -> {Debt("nothing", 0)}
      [] side = "loop" -> {Debt("connection", 0), Debt("accept", 0), Debt("datagram", 0)}

ReloadOnly ==
    /\ Next
    /\ \/ side = "one" /\ pc'[p2] = "down"
       \/ side = "two" /\ last' <= 2 /\ touches' = 0 /\ unlinks' = 0
    /\ UNCHANGED <<side, watched, loopVars>>
LoopOnly == side = "loop" /\ Loop!LoopNext /\ UNCHANGED <<side, watched, vars>>

LiveInit ==
    /\ side \in {"one", "two", "loop"}
    /\ watched \in Debts
    /\ Init /\ Loop!LoopInit
    /\ side # "loop" => sclen = "right"

\* A call that has begun completes, a process goes on with its query, clients
\* keep asking it; the thread of the event loop runs.
LiveSpec ==
    /\ LiveInit /\ [][ReloadOnly \/ LoopOnly]_<<side, watched, vars, loopVars>>
    /\ WF_vars(side # "loop" /\ Return)
    /\ \A p \in Proc :
        /\ WF_vars(side # "loop" /\ Attrib(p))
        /\ WF_vars(side # "loop" /\ Ignored(p))
        /\ WF_vars(side # "loop" /\ Work(p))
        /\ WF_vars(side # "loop" /\ Query(p))
    /\ WF_loopVars(side = "loop" /\ Loop!Serve)

-----------------------------------------------------------------------------
\* tdlookup.c: a process that was told of a change maps a database at least as new
\* as the one that was current then (CatchesUp of Reload).
Due == IF watched.kind = "version" THEN Told(p1, watched.what) ELSE FALSE
Met == IF watched.kind = "version" THEN Caught(p1, watched.what) ELSE TRUE
TurnsToNews == Due ~> Met

\* tdlookup.c's respond ends: a query that begins is answered or refused. server.c's
\* loop: every datagram is read, a connection on which anything happened ends, and a
\* client waits for accept no longer than descriptors are out.
Waits ==
    CASE watched.kind = "query" -> Asking(p1)
      [] watched.kind = "datagram" -> Loop!Arrived(d1)
      [] watched.kind = "connection" -> Loop!Stirred(c1)
      [] watched.kind = "accept" -> Loop!Queued(c1)
      [] OTHER -> FALSE
ClientsServed == Waits ~> ~Waits
=============================================================================
