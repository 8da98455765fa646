------------------------------ MODULE EventLoop ------------------------------
(***************************************************************************)
(* The event loop of vdnsd (main in server.c): one thread, one epoll set    *)
(* with the UDP socket, the listening TCP socket and the TCP connections.    *)
(*                                                                         *)
(* Each connection carries one request and is then closed, whatever came of  *)
(* it; its watch is one-shot.  A request that is not there as a whole when   *)
(* the connection is read is dropped with the connection.  The two sockets   *)
(* are level triggered.  The kernel's ready list is modelled as it is, since *)
(* it decides who is served when more is ready than one epoll_wait returns.  *)
(***************************************************************************)
EXTENDS Integers, FiniteSets, Sequences, SequencesExt, Order

CONSTANTS
    Conn,           \* TCP clients, each with one connection at a time
    Dgram,          \* UDP clients, each with one query at a time
    Nobody,         \* no client
    EvqueLen,       \* EVQUE_LEN, 4096: events per epoll_wait
    MaxFd,          \* the connections the process has descriptors for
    Backlog         \* 8192: connections that wait for accept

ASSUME LoopConstants ==
    /\ IsFiniteSet(Conn) /\ IsFiniteSet(Dgram)
    /\ Conn \cap Dgram = {}
    /\ Nobody \notin Conn \cup Dgram
    /\ EvqueLen \in Nat \ {0}
    /\ MaxFd \in Nat \ {0}
    /\ Backlog \in Nat \ {0}

VARIABLES
    backlog,        \* connections that wait for accept
    owner,          \* owner[f]: the client of descriptor f
    rx,             \* rx[c]: what of the request of c is there to be read
    peer,           \* peer[c]: what c did to its end of the connection
    udpq,           \* datagrams that wait
    ready,          \* the ready list of the epoll set
    armed,          \* connections whose one-shot watch is still to fire
    batch,          \* fired_events from i on
    at,             \* "loop", "send" or "killed"
    cur,            \* the descriptor the reply goes to
    sclen,          \* main's sclen: it is not initialised
    ip              \* whose address the static variable ip holds

netVars == <<backlog, owner, rx, peer, udpq>>
loopVars == <<netVars, ready, armed, batch, at, cur, sclen, ip>>

Udp53 == 1
Tcp53 == 2
ConnFd == 3 .. 2 + MaxFd
Watched == {Udp53, Tcp53} \cup ConnFd

Open == {owner[f] : f \in ConnFd} \ {Nobody}
FdOf(c) == CHOOSE f \in ConnFd : owner[f] = c
Free == {f \in ConnFd : owner[f] = Nobody}
Idle(c) == c \notin Open /\ c \notin ToSet(backlog)

-----------------------------------------------------------------------------
(* The kernel                                                              *)

Wake(list, f) == IF f \in ToSet(list) THEN list ELSE Append(list, f)

\* Something happened on c's connection; the server hears of it only when it
\* has accepted the connection and the watch did not fire yet.
WakeConn(c) ==
    ready' = IF c \in Open /\ FdOf(c) \in armed THEN Wake(ready, FdOf(c))
             ELSE ready

Gone(c) == peer[c] \in {"rst", "finrst"}
Readable(c) == rx[c] # "none" \/ peer[c] # "up"

HasEvent(f) ==
    \/ f = Udp53 /\ udpq # <<>>
    \/ f = Tcp53 /\ backlog # <<>>
    \/ f \in ConnFd /\ owner[f] # Nobody /\ Readable(owner[f])

\* The client connects.
Connect(c) ==
    /\ Idle(c)
    /\ Len(backlog) < Backlog
    /\ backlog' = Append(backlog, c)
    /\ ready' = Wake(ready, Tcp53)
    /\ UNCHANGED <<owner, rx, peer, udpq, armed, batch, at, cur, sclen, ip>>

\* A segment arrives: a part of the request, the rest of it, or more than one.
Segment(c) ==
    /\ ~Idle(c)
    /\ peer[c] = "up"
    /\ \E next \in CASE rx[c] = "none" -> {"part", "whole"}
                     [] rx[c] = "part" -> {"whole"}
                     [] rx[c] = "whole" -> {"more"}
                     [] OTHER -> {} :
        rx' = [rx EXCEPT ![c] = next]
    /\ WakeConn(c)
    /\ UNCHANGED <<backlog, owner, peer, udpq, armed, batch, at, cur, sclen, ip>>

\* The client closes its half, or resets the connection.
HangUp(c) ==
    /\ ~Idle(c)
    /\ \E how \in CASE peer[c] = "up" -> {"fin", "rst"}
                    [] peer[c] = "fin" -> {"finrst"}
                    [] OTHER -> {} :
        peer' = [peer EXCEPT ![c] = how]
    /\ WakeConn(c)
    /\ UNCHANGED <<backlog, owner, rx, udpq, armed, batch, at, cur, sclen, ip>>

\* A datagram arrives.
Datagram(d) ==
    /\ d \notin ToSet(udpq)
    /\ udpq' = Append(udpq, d)
    /\ ready' = Wake(ready, Udp53)
    /\ UNCHANGED <<backlog, owner, rx, peer, armed, batch, at, cur, sclen, ip>>

-----------------------------------------------------------------------------
(* The server                                                              *)

\* The watches added before the loop, with EPOLLIN alone
LevelTriggered == {Udp53, Tcp53}

\* epoll_wait goes through the ready list up to EVQUE_LEN events; these are the
\* places of all there would be.  A one-shot watch is disarmed, a level triggered
\* one goes to the end of the list.
Events == InOrder({i \in DOMAIN ready : HasEvent(ready[i])})

Scanned == IF Len(Events) <= EvqueLen THEN Len(ready) ELSE Events[EvqueLen]
Fired ==
    [k \in 1 .. (IF Len(Events) <= EvqueLen THEN Len(Events) ELSE EvqueLen) |->
        ready[Events[k]]]

EventAs(fd, f) ==
    [fd |-> fd,
     conn |-> IF f \in ConnFd THEN owner[f] ELSE Nobody,
     events |-> IF f \in ConnFd /\ Gone(owner[f]) THEN "hup" ELSE "in"]

\* The event carries the descriptor that was put into the watch.
Event(f) == EventAs(f, f)

EpollWait ==
    /\ at = "loop"
    /\ batch = <<>>
    /\ \E fired \in {Fired} :
        /\ fired # <<>>
        /\ batch' = [k \in DOMAIN fired |-> Event(fired[k])]
        /\ armed' = armed \ ToSet(fired)
        /\ ready' = SubSeq(ready, Scanned + 1, Len(ready)) \o Kept(fired, LevelTriggered)
    /\ UNCHANGED <<netVars, at, cur, sclen, ip>>

\* The loop looks at the next event, which belongs to a descriptor of F.
Turn(F) == at = "loop" /\ batch # <<>> /\ batch[1].fd \in F
Done == batch' = Tail(batch)

\* One datagram per event: socket_recv4, doit, response_tc, socket_send4.
ServeUdp ==
    /\ Turn({Udp53})
    /\ udpq # <<>>
    /\ ip' = Head(udpq)
    /\ udpq' = Tail(udpq)
    /\ Done
    /\ UNCHANGED <<backlog, owner, rx, peer, ready, armed, at, cur, sclen>>

\* The connection of c is over on both sides; c may connect again.
Forget(c) ==
    /\ rx' = [rx EXCEPT ![c] = "none"]
    /\ peer' = [peer EXCEPT ![c] = "up"]

\* close, which takes the descriptor out of the epoll set
Close(f) ==
    /\ owner' = [owner EXCEPT ![f] = Nobody]
    /\ Forget(owner[f])
    /\ armed' = armed \ {f}
    /\ ready' = Kept(ready, Watched \ {f})

\* Accept goes on until it fails; the kernel hands out the lowest descriptor.
Accepted ==
    /\ Turn({Tcp53})
    /\ backlog # <<>>
    /\ Free # {}
    /\ sclen # "negative"
    /\ backlog' = Tail(backlog)
    /\ LET c == Head(backlog)
           f == CHOOSE g \in Free : \A h \in Free : g <= h
       IN  /\ owner' = [owner EXCEPT ![f] = c]
           /\ armed' = armed \cup {f}
           /\ ready' = IF Readable(c) THEN Wake(ready, f) ELSE ready
    /\ UNCHANGED <<rx, peer, udpq, batch, at, cur, ip>>

\* Slip: accept is given no place for the address.
Accept_NoAddress == Accepted /\ UNCHANGED sclen

\* accept leaves the length of the address in sclen, whatever was there.
Accept == Accepted /\ sclen' = "right"

\* A negative sclen makes accept drop the connection it took and fail.
AcceptRefused ==
    /\ Turn({Tcp53})
    /\ backlog # <<>>
    /\ Free # {}
    /\ sclen = "negative"
    /\ backlog' = Tail(backlog)
    /\ Forget(Head(backlog))
    /\ Done
    /\ UNCHANGED <<owner, udpq, ready, armed, at, cur, sclen, ip>>

\* Slip: a connection that is open is closed when descriptors have run out.
AcceptEnd_Reaps ==
    /\ Turn({Tcp53})
    /\ backlog = <<>> \/ Free = {}
    /\ Done
    /\ IF Free = {} THEN \E f \in ConnFd : Close(f)
       ELSE UNCHANGED <<owner, rx, peer, armed, ready>>
    /\ UNCHANGED <<backlog, udpq, at, cur, sclen, ip>>

\* Slip: accept is tried again until a descriptor is free.
AcceptEnd_Retries ==
    /\ Turn({Tcp53})
    /\ backlog = <<>>
    /\ Done
    /\ UNCHANGED <<netVars, ready, armed, at, cur, sclen, ip>>

\* EAGAIN, or no descriptor is left
AcceptEnd ==
    /\ Turn({Tcp53})
    /\ backlog = <<>> \/ Free = {}
    /\ Done
    /\ UNCHANGED <<netVars, ready, armed, at, cur, sclen, ip>>

\* readv finds exactly one request and getpeername finds the client.
WholeRequest(f) ==
    /\ batch[1].events = "in"
    /\ rx[owner[f]] = "whole"
    /\ ~Gone(owner[f])

\* socket_recv4_tcp, and doit finds something to say.  getpeername copies as
\* much of the address as sclen says.
Read ==
    \E f \in ConnFd :
        /\ Turn({f})
        /\ WholeRequest(f)
        /\ ip' = IF sclen = "right" THEN owner[f] ELSE Nobody
        /\ at' = "send"
        /\ cur' = f
        /\ Done
        /\ UNCHANGED <<netVars, ready, armed, sclen>>

\* Slip: an incomplete request is left for later, but the watch has fired.
Drop_Kept ==
    \E f \in ConnFd :
        /\ Turn({f})
        /\ Done
        /\ IF rx[owner[f]] = "part" /\ ~Gone(owner[f])
           THEN UNCHANGED <<owner, rx, peer, armed, ready>>
           ELSE Close(f)
        /\ UNCHANGED <<backlog, udpq, at, cur, sclen, ip>>

\* Anything else, and a request doit has no answer to, ends the connection.
Drop ==
    \E f \in ConnFd :
        /\ Turn({f})
        /\ Close(f)
        /\ Done
        /\ UNCHANGED <<backlog, udpq, at, cur, sclen, ip>>

\* socket_send4_tcp (its result is not looked at) and close
SendTcp ==
    /\ at = "send"
    /\ peer[owner[cur]] # "finrst"
    /\ Close(cur)
    /\ at' = "loop"
    /\ cur' = Udp53
    /\ UNCHANGED <<backlog, udpq, batch, sclen, ip>>

\* The client closed its half and reset the connection after getpeername: the
\* write raises SIGPIPE, which nothing catches.
Killed ==
    /\ at = "send"
    /\ peer[owner[cur]] = "finrst"
    /\ at' = "killed"
    /\ UNCHANGED <<netVars, ready, armed, batch, cur, sclen, ip>>

-----------------------------------------------------------------------------
LoopInit ==
    /\ backlog = <<>>
    /\ owner = [f \in ConnFd |-> Nobody]
    /\ rx = [c \in Conn |-> "none"]
    /\ peer = [c \in Conn |-> "up"]
    /\ udpq = <<>>
    /\ ready = <<>>
    /\ armed = {}
    /\ batch = <<>>
    /\ at = "loop"
    /\ cur = Udp53
    /\ sclen \in {"negative", "short", "right"}
    /\ ip = Nobody

Serve ==
    \/ EpollWait \/ ServeUdp \/ Accept \/ AcceptRefused \/ AcceptEnd
    \/ Read \/ Drop \/ SendTcp \/ Killed

LoopNext ==
    \/ Serve
    \/ \E c \in Conn : Connect(c) \/ Segment(c) \/ HangUp(c)
    \/ \E d \in Dgram : Datagram(d)

LoopSpec == LoopInit /\ [][LoopNext]_loopVars

\* The thread runs; nothing is asked of the clients.
LoopFairSpec == LoopSpec /\ WF_loopVars(Serve)
-----------------------------------------------------------------------------
LoopTypeOK ==
    /\ backlog \in Seq(Conn) /\ IsInjective(backlog)
    /\ owner \in [ConnFd -> Conn \cup {Nobody}]
    /\ \A f, g \in ConnFd : owner[f] = owner[g] /\ f # g => owner[f] = Nobody
    /\ rx \in [Conn -> {"none", "part", "whole", "more"}]
    /\ peer \in [Conn -> {"up", "fin", "rst", "finrst"}]
    /\ udpq \in Seq(Dgram)
    /\ ready \in Seq(Watched) /\ IsInjective(ready)
    /\ armed \subseteq ConnFd
    /\ batch \in Seq([fd : Watched,
                      conn : Conn \cup {Nobody}, events : {"in", "hup"}])
    /\ at \in {"loop", "send", "killed"}
    /\ cur \in {Udp53} \cup ConnFd
    /\ sclen \in {"negative", "short", "right"}
    /\ ip \in Conn \cup Dgram \cup {Nobody}

\* An event that is still to be looked at belongs to the connection it was fired
\* for, although descriptors are closed and given out again within one batch.
EventsAreCurrent ==
    \A i \in 1 .. Len(batch) :
        batch[i].fd \in ConnFd =>
            /\ owner[batch[i].fd] = batch[i].conn
            /\ batch[i].conn # Nobody

InBatch(f) == \E i \in 1 .. Len(batch) : batch[i].fd = f

\* No wake-up is lost: whatever has something to read is in the ready list or in
\* the batch, and an open connection has a watch, an event or its answer coming.
NothingForgotten ==
    at # "killed" =>
        /\ \A f \in {Udp53, Tcp53} :
            HasEvent(f) => f \in ToSet(ready) \/ InBatch(f)
        /\ \A f \in ConnFd :
            owner[f] # Nobody =>
                \/ InBatch(f)
                \/ at = "send" /\ cur = f
                \/ f \in armed /\ (HasEvent(f) => f \in ToSet(ready))

\* The map an answer is chosen by is looked up for the client that asked, though
\* the address is a static variable and its length was never initialised.
GeoOfAsker == at = "send" => ip = owner[cur]

\* Every datagram is read, whatever the TCP clients do.
Arrived(d) == at # "killed" /\ d \in ToSet(udpq)
UdpServed == \A d \in Dgram : Arrived(d) ~> ~Arrived(d)

\* A connection on which anything happened is answered or dropped.
Stirred(c) == at # "killed" /\ c \in Open /\ Readable(c)
ConnectionEnds == \A c \in Conn : Stirred(c) ~> ~Stirred(c)

\* A client waits for accept no longer than descriptors are out.
Queued(c) == at # "killed" /\ c \in ToSet(backlog) /\ Free # {}
AcceptServed == \A c \in Conn : Queued(c) ~> ~Queued(c)
-----------------------------------------------------------------------------
(* The inductive invariant.  A descriptor that is out is in one of three     *)
(* places only: its watch is armed, or its event is in the batch, or its      *)
(* answer is being sent; only in the first may the ready list name it.        *)

Taken(f) == InBatch(f) \/ (at = "send" /\ cur = f)

\* A client that waits for accept has no descriptor yet.
Apart == \A f \in ConnFd : owner[f] # Nobody => owner[f] \notin ToSet(backlog)

\* A watch is on an open connection, and the ready list names watches.
Watches ==
    /\ \A f \in armed : owner[f] # Nobody /\ ~Taken(f)
    /\ \A f \in ToSet(ready) : f \in LevelTriggered \cup armed

\* One event per descriptor, for a connection that is still open.
OneEach ==
    /\ \A i, j \in DOMAIN batch : batch[i].fd = batch[j].fd => i = j
    /\ at = "send" => cur \in ConnFd /\ owner[cur] # Nobody /\ ~InBatch(cur)

\* The level triggered sockets are in the list as long as they can be read, an
\* armed connection as soon as it can.
Noticed ==
    /\ \A f \in LevelTriggered : HasEvent(f) => f \in ToSet(ready)
    /\ \A f \in armed : HasEvent(f) => f \in ToSet(ready)
    /\ at # "killed" => \A f \in ConnFd : owner[f] # Nobody => Taken(f) \/ f \in armed

\* Whoever is connected came through an accept that left sclen right.
Measured == \A f \in ConnFd : owner[f] # Nobody => sclen = "right"

LoopIInv ==
    /\ LoopTypeOK /\ Apart /\ Watches /\ OneEach /\ Noticed /\ Measured
    /\ EventsAreCurrent /\ GeoOfAsker
=============================================================================
