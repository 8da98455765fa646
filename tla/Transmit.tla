------------------------------ MODULE Transmit ------------------------------
(* One question asked of up to sixteen servers, dns_transmit.c driven by      *)
(* dns_resolve.c: by UDP, every server in turn and four times over with      *)
(* longer and longer waits, and by TCP, once each, as soon as one of them    *)
(* says that its answer was cut.  The structure is static and used again for *)
(* every question, so what it owns (a descriptor, the query, the packet) and *)
(* what of an earlier question may still arrive matter.                       *)
EXTENDS Naturals, FiniteSets

CONSTANTS
  Slots,        \* how many places the list of servers has (16 in the code)
  Rounds,       \* how many times each server is asked by UDP (4)
  Questions,    \* what is asked
  Ids,          \* the two random bytes of a query
  MaxAsks,      \* bound: questions asked one after another
  MaxStrays     \* bound: datagrams that the code reads and ignores

None == "none"

ASSUME TransmitConstants ==
  /\ Slots \in Nat \ {0} /\ Rounds \in Nat \ {0}
  /\ MaxAsks \in Nat /\ MaxStrays \in Nat
  /\ None \notin Questions

VARIABLES
  pc,        \* "idle", "udp" and "tcp" inside thisudp and thistcp, "wait" for an event
  servers,   \* the places of d->servers that are not 0.0.0.0
  query,     \* d->query: the question it holds, or None
  id,        \* the two bytes of it drawn last
  udploop, curserver, tcpstate, pos,
  s1,        \* d->s1: the server the socket is connected to, or NoServer
  packet,    \* d->packet: NoPacket, Room, or the answer in it
  held,      \* how many descriptors, queries and packets are really allocated
  asked,     \* every UDP query ever sent: late and doubled replies are made of it
  tried,     \* per server, how often this question was sent by UDP, whether it was tried by TCP
  asking,    \* the question that was put last
  sent,      \* how much of the query this TCP connection was really given
  strays, asks,
  outcome    \* of the last question: None, "answer", "exhausted" or "error"

vars == <<pc, servers, query, id, udploop, curserver, tcpstate, pos, s1, packet,
          held, asked, tried, asking, sent, strays, asks, outcome>>
(* What only dns_transmit_start writes, and what no step of a loop does.     *)
askvars == <<servers, asking, asks>>
loopvars == <<pos, packet, strays, query, outcome>>

NoServer == Slots
NoPacket == [id |-> 0, q |-> None, says |-> None]
Room == [id |-> 0, q |-> None, says |-> "room"]
Slot == 0..(Slots - 1)
Nothing == [fd |-> 0, query |-> 0, packet |-> 0]
NotTried == [from |-> 0, udp |-> [s \in Slot |-> 0], tcp |-> [s \in Slot |-> 0]]

-----------------------------------------------------------------------------
(* What the free functions give back: nothing when the field is already 0.   *)
One(present) == IF present THEN 1 ELSE 0
socketfree(h) == [h EXCEPT !.fd = @ - One(s1 # NoServer)]
packetfree(h) == [h EXCEPT !.packet = @ - One(packet # NoPacket)]
queryfree(h)  == [h EXCEPT !.query = @ - One(query # None)]
AllFreed(h)   == queryfree(packetfree(socketfree(h)))

(* return -1 after dns_transmit_free().                                      *)
GiveUp(why) ==
  /\ held' = AllFreed(held)
  /\ s1' = NoServer /\ packet' = NoPacket /\ query' = None
  /\ pc' = "idle" /\ outcome' = why
  /\ UNCHANGED <<id, udploop, curserver, tcpstate, pos, asked, tried, sent, strays>>
  /\ UNCHANGED askvars

(* thisudp() and thistcp() begin by closing the socket; thistcp() also frees *)
(* the packet.  Their loops go on below.                                     *)
thisudp(cur) ==
  /\ pc' = "udp" /\ curserver' = cur
  /\ held' = socketfree(held) /\ s1' = NoServer
  /\ UNCHANGED <<query, id, udploop, tcpstate, pos, packet, asked, tried, sent, outcome>>
  /\ UNCHANGED askvars

SlipThistcp(cur) ==
  /\ pc' = "tcp" /\ curserver' = cur
  /\ held' = socketfree(held) /\ s1' = NoServer
  /\ UNCHANGED <<query, id, udploop, tcpstate, pos, packet, asked, tried, sent, outcome>>
  /\ UNCHANGED askvars

thistcp(cur) ==
  /\ pc' = "tcp" /\ curserver' = cur
  /\ held' = packetfree(socketfree(held)) /\ s1' = NoServer /\ packet' = NoPacket
  /\ UNCHANGED <<query, id, udploop, tcpstate, pos, asked, tried, sent, outcome>>
  /\ UNCHANGED askvars

nextudp == thisudp(curserver + 1)
SlipNexttcp == thistcp(curserver)
nexttcp == thistcp(curserver + 1)
SlipFirsttcp == thistcp(curserver)
firsttcp == thistcp(0)

-----------------------------------------------------------------------------
(* dns_transmit_start(): free what an earlier question left, then ask; a     *)
(* recursive question skips the shortest wait, a long name goes to TCP.      *)
dns_transmit_start ==
  /\ pc = "idle" /\ asks < MaxAsks
  /\ \E q \in Questions, list \in SUBSET Slot, recursive \in BOOLEAN, long \in BOOLEAN :
       /\ query' = q /\ asking' = q /\ servers' = list
       /\ udploop' = IF recursive /\ Rounds > 1 THEN 1 ELSE 0
       /\ pc' = IF long THEN "tcp" ELSE "udp"
  /\ held' = [AllFreed(held) EXCEPT !.query = @ + 1]
  /\ curserver' = 0 /\ s1' = NoServer /\ packet' = NoPacket
  /\ tried' = [NotTried EXCEPT !.from = udploop'] /\ outcome' = None /\ asks' = asks + 1
  /\ UNCHANGED <<id, tcpstate, pos, asked, sent, strays>>

(* The caller has read the packet: dns_transmit_free().                      *)
dns_transmit_free ==
  /\ pc = "idle"
  /\ held' = AllFreed(held)
  /\ s1' = NoServer /\ packet' = NoPacket /\ query' = None
  /\ UNCHANGED <<pc, id, udploop, curserver, tcpstate, pos, asked, tried, sent, strays, outcome>>
  /\ UNCHANGED askvars

(* The loop of thisudp(): an empty place is passed over; a socket that cannot *)
(* be made or bound ends everything; a send that fails goes to the next.      *)
NextRound ==
  /\ pc = "udp" /\ curserver >= Slots /\ udploop < Rounds
  /\ udploop' = udploop + 1 /\ curserver' = 0
  /\ UNCHANGED <<pc, id, tcpstate, s1, held, asked, tried, sent>>
  /\ UNCHANGED <<askvars, loopvars>>

Skip ==
  /\ pc \in {"udp", "tcp"} /\ curserver \in Slot \ servers
  /\ (pc = "udp" => udploop < Rounds)
  /\ curserver' = curserver + 1
  /\ UNCHANGED <<pc, id, udploop, tcpstate, s1, held, asked, tried, sent>>
  /\ UNCHANGED <<askvars, loopvars>>

SendUdp ==
  /\ pc = "udp" /\ udploop < Rounds /\ curserver \in servers
  /\ id' \in Ids
  /\ tried' = [tried EXCEPT !.udp[curserver] = @ + 1]
  /\ \/ /\ s1' = curserver /\ held' = [held EXCEPT !.fd = @ + 1]
        /\ asked' = asked \cup {[to |-> curserver, id |-> id', q |-> query]}
        /\ tcpstate' = 0 /\ pc' = "wait" /\ UNCHANGED curserver
     \/ /\ curserver' = curserver + 1      \* not connected or not sent, the socket closed again
        /\ UNCHANGED <<s1, held, asked, tcpstate, pc>>
  /\ UNCHANGED <<udploop, sent, askvars, loopvars>>

ConnectTcp ==
  /\ pc = "tcp" /\ curserver \in servers
  /\ id' \in Ids
  /\ tried' = [tried EXCEPT !.tcp[curserver] = 1]
  /\ \/ /\ s1' = curserver /\ held' = [held EXCEPT !.fd = @ + 1]
        /\ tcpstate' \in {1, 2} /\ pc' = "wait" /\ UNCHANGED curserver
     \/ /\ curserver' = curserver + 1
        /\ UNCHANGED <<s1, held, tcpstate, pc>>
  /\ sent' = 0
  /\ UNCHANGED <<udploop, asked, askvars, loopvars>>

NoSocket ==
  /\ pc \in {"udp", "tcp"} /\ curserver \in servers /\ (pc = "udp" => udploop < Rounds)
  /\ GiveUp("error")

Exhausted ==
  /\ \/ pc = "udp" /\ udploop = Rounds
     \/ pc = "tcp" /\ curserver >= Slots
  /\ GiveUp("exhausted")

-----------------------------------------------------------------------------
(* dns_transmit_get(): the time is looked at only when nothing can be read.  *)
TimedOut ==
  /\ pc = "wait"
  /\ IF tcpstate = 0 THEN nextudp ELSE nexttcp
  /\ UNCHANGED strays

(* What comes to the connected socket: a reply of that server to any query it *)
(* was ever sent, now, late or again; cut, refused, or not about anything.    *)
Replies == {[id |-> m.id, q |-> m.q, says |-> w] :
              m \in {a \in asked : a.to = s1}, w \in {"answer", "cut", "failed"}}

SlipIrrelevant(m) == m.id # id
irrelevant(m) == m.id # id \/ m.q # query
serverwantstcp(m) == m.says = "cut"
serverfailed(m) == m.says = "failed"

(* What is read and ignored: the wait goes on.                               *)
Ignore ==
  /\ strays < MaxStrays /\ strays' = strays + 1
  /\ UNCHANGED <<pc, query, id, udploop, curserver, tcpstate, pos, s1, packet, held,
                 asked, tried, sent, outcome, askvars>>

RecvError ==     \* refused counts only before the third round
  /\ pc = "wait" /\ tcpstate = 0
  /\ \/ udploop = 2 /\ Ignore
     \/ nextudp /\ UNCHANGED strays

Recv ==
  /\ pc = "wait" /\ tcpstate = 0
  /\ \/ Ignore                                     \* fills the buffer: longer than 512 bytes
     \/ \E m \in Replies :
          \/ irrelevant(m) /\ Ignore
          \/ ~irrelevant(m) /\ serverwantstcp(m) /\ firsttcp /\ UNCHANGED strays
          \/ ~irrelevant(m) /\ serverfailed(m) /\ udploop = 2 /\ Ignore
          \/ ~irrelevant(m) /\ serverfailed(m) /\ udploop # 2 /\ nextudp /\ UNCHANGED strays
          \/ /\ ~irrelevant(m) /\ m.says = "answer"
             /\ held' = [queryfree(socketfree(held)) EXCEPT !.packet = @ + 1]
             /\ s1' = NoServer /\ query' = None /\ packet' = m
             /\ pc' = "idle" /\ outcome' = "answer"
             /\ UNCHANGED <<id, udploop, curserver, tcpstate, pos, asked, tried, sent, strays, askvars>>

(* The TCP conversation, a state of it per action; a read or a write of it   *)
(* may fail, the connection end, or only a part go through.                  *)
Stay(state) ==
  /\ tcpstate' = state
  /\ UNCHANGED <<pc, query, id, udploop, curserver, s1, asked, tried, strays, outcome, askvars>>

TcpFails ==
  /\ pc = "wait" /\ tcpstate # 0
  /\ nexttcp /\ UNCHANGED strays

TcpConnected ==
  /\ pc = "wait" /\ tcpstate = 1
  /\ Stay(2) /\ pos' = 0 /\ UNCHANGED <<packet, held, sent>>

(* pos is 0 again only after state 1: a connection made at once begins with  *)
(* what an earlier conversation left in it.                                  *)
TcpWrite ==
  /\ pc = "wait" /\ tcpstate = 2
  /\ \E n \in 1..2 :
       /\ pos + n <= 2 /\ pos' = pos + n /\ sent' = sent + n
       /\ Stay(IF pos + n = 2 THEN 3 ELSE 2)
  /\ UNCHANGED <<packet, held>>

TcpLength ==
  /\ pc = "wait" /\ tcpstate \in {3, 4}
  /\ Stay(tcpstate + 1) /\ UNCHANGED sent
  /\ IF tcpstate = 3 THEN UNCHANGED <<pos, packet, held>>
     ELSE pos' = 0 /\ packet' = Room /\ held' = [held EXCEPT !.packet = @ + 1]

NoMemory ==
  /\ pc = "wait"
  /\ \/ tcpstate = 4
     \/ tcpstate = 0 /\ \E m \in Replies : ~irrelevant(m) /\ m.says = "answer"
  /\ GiveUp("error")

TcpPart ==
  /\ pc = "wait" /\ tcpstate = 5 /\ pos = 0
  /\ Stay(5) /\ pos' = 1 /\ UNCHANGED <<packet, held, sent>>

(* The whole packet is there.  The server answers the query it was sent on   *)
(* this connection, or says something else.                                  *)
TcpWhole ==
  /\ pc = "wait" /\ tcpstate = 5
  /\ \E m \in [id : Ids, q : Questions, says : {"answer", "cut", "failed"}] :
       \/ /\ irrelevant(m) \/ serverwantstcp(m) \/ serverfailed(m)
          /\ nexttcp /\ UNCHANGED strays
       \/ /\ ~irrelevant(m) /\ m.says = "answer"
          /\ held' = queryfree(socketfree(held))
          /\ s1' = NoServer /\ query' = None /\ packet' = m
          /\ pc' = "idle" /\ outcome' = "answer"
          /\ UNCHANGED <<id, udploop, curserver, tcpstate, pos, asked, tried, sent, strays, askvars>>


-----------------------------------------------------------------------------
Init ==
  /\ pc = "idle" /\ servers = {} /\ query = None /\ id \in Ids
  /\ udploop = 0 /\ curserver = 0 /\ tcpstate = 0 /\ pos = 0
  /\ s1 = NoServer /\ packet = NoPacket /\ held = Nothing
  /\ asked = {} /\ tried = NotTried /\ asking = None /\ sent = 0
  /\ strays = 0 /\ asks = 0 /\ outcome = None

Loop == NextRound \/ Skip \/ SendUdp \/ ConnectTcp \/ NoSocket \/ Exhausted
Next ==
  \/ dns_transmit_start \/ dns_transmit_free \/ Loop
  \/ TimedOut \/ RecvError \/ Recv \/ NoMemory
  \/ TcpFails \/ TcpConnected \/ TcpWrite \/ TcpLength \/ TcpPart \/ TcpWhole

(* The loops run to their end, and a wait ends at its deadline at the latest: *)
(* every pass of dns_resolve() sleeps no longer than that.                    *)
Fairness == WF_vars(Loop) /\ WF_vars(TimedOut)

Spec == Init /\ [][Next]_vars /\ Fairness

-----------------------------------------------------------------------------
Message == [id : Ids, q : Questions, says : {"answer", "cut", "failed"}]

(* What each field of the structure may hold, and the loops' variables.       *)
FieldTypes ==
  /\ pc \in {"idle", "udp", "tcp", "wait"} /\ servers \subseteq Slot
  /\ query \in Questions \cup {None} /\ asking \in Questions \cup {None} /\ id \in Ids
  /\ udploop \in 0..Rounds /\ curserver \in 0..Slots /\ tcpstate \in 0..5
  /\ pos \in 0..2 /\ sent \in 0..2
  /\ s1 \in Slot \cup {NoServer} /\ packet \in Message \cup {NoPacket, Room}
  /\ asked \subseteq [to : Slot, id : Ids, q : Questions]
  /\ strays \in 0..MaxStrays /\ asks \in 0..MaxAsks
  /\ outcome \in {None, "answer", "exhausted", "error"}

TypeOK ==
  /\ FieldTypes
  /\ held \in [fd : Nat, query : Nat, packet : Nat]
  /\ tried \in [from : 0..1, udp : [Slot -> Nat], tcp : [Slot -> 0..1]]

(* Whatever way a question ends, and however often the structure is used     *)
(* again, exactly what it points to is allocated: no descriptor and no packet *)
(* is lost on the way from UDP to TCP or from one server to the next, and    *)
(* between questions at most an answer not yet freed is kept.                *)
NothingLeaks ==
  /\ held = [fd |-> One(s1 # NoServer), query |-> One(query # None), packet |-> One(packet # NoPacket)]
  /\ pc = "idle" => s1 = NoServer /\ query = None /\ (packet # NoPacket => outcome = "answer")
  /\ pc = "wait" => s1 # NoServer /\ query # None

(* An answer is to the question that was put last, though the ids and ports  *)
(* of earlier queries come up again and their answers may arrive late.       *)
AnswersTheQuestion ==
  packet \in Message => packet.q = asking /\ packet.id = id /\ packet.says = "answer"

(* The resolver gives a question up only when every server of the list was   *)
(* asked in every round, or every one was tried by TCP.                      *)
GivesUpLast ==
  outcome = "exhausted" =>
    \/ \A s \in servers : tried.udp[s] = Rounds - tried.from
    \/ \A s \in servers : tried.tcp[s] = 1

(* The comment of state 2, 'have sent pos bytes of query'.                   *)
PosIsWhatWasSent == pc = "wait" /\ tcpstate = 2 => pos = sent

(* Every question ends, with an answer or with an error.                     *)
TransmitEnds == pc # "idle" ~> pc = "idle"

-----------------------------------------------------------------------------
(* The inductive invariant.  While a question is being asked, the query in   *)
(* the structure is the one that was put last and no answer is held; an      *)
(* event is waited for on the socket of the server whose turn it is.         *)
UdpTurn == pc = "udp" \/ (pc = "wait" /\ tcpstate = 0)
TcpTurn == pc = "tcp" \/ (pc = "wait" /\ tcpstate # 0)
HadItsTurn(s) == s < curserver \/ (s = curserver /\ pc = "wait")

AskingInv ==
  /\ pc # "idle" => query = asking /\ query # None /\ outcome = None
  /\ pc \in {"udp", "tcp"} => s1 = NoServer /\ packet = NoPacket
  /\ pc = "wait" => s1 = curserver /\ s1 \in servers
  /\ pc = "wait" => packet = IF tcpstate = 5 THEN Room ELSE NoPacket
  /\ pc = "idle" => packet # Room

(* How often each server of the list was asked, by the place the loops are   *)
(* at: once in every round that is over, and in this one once it had its turn. *)
TurnInv ==
  /\ UdpTurn => /\ tried.from <= udploop
                /\ \A s \in servers :
                     tried.udp[s] = udploop - tried.from + One(HadItsTurn(s))
                /\ udploop = Rounds => pc = "udp" /\ curserver = 0
  /\ TcpTurn => \A s \in servers : HadItsTurn(s) => tried.tcp[s] = 1

(* Never more of the query is sent than the position says.                   *)
SentInv ==
  /\ pc = "wait" /\ tcpstate = 1 => sent = 0
  /\ pc = "wait" /\ tcpstate = 2 => sent <= pos

IInv ==
  /\ TypeOK /\ AskingInv /\ TurnInv /\ SentInv
  /\ NothingLeaks /\ AnswersTheQuestion /\ GivesUpLast
=============================================================================
