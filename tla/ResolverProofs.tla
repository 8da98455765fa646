--------------------------- MODULE ResolverProofs ---------------------------
(***************************************************************************)
(* Proofs about the resolver, part by part, and about the four together.    *)
(***************************************************************************)
EXTENDS MCResolver, OrderProofs

-----------------------------------------------------------------------------
(* One question after another put to the servers (Transmit)                  *)

\* Taking away what is there leaves nothing.
LEMMA TakenAway ==
    ASSUME NEW a \in Nat, NEW q \in Nat, NEW p \in Nat,
           NEW h, h = [fd |-> a, query |-> q, packet |-> p]
    PROVE  /\ [h EXCEPT !.fd = @ - a] = [fd |-> 0, query |-> q, packet |-> p]
           /\ [h EXCEPT !.query = @ - q] = [fd |-> a, query |-> 0, packet |-> p]
           /\ [h EXCEPT !.packet = @ - p] = [fd |-> a, query |-> q, packet |-> 0]
<1>1. a - a = 0 /\ q - q = 0 /\ p - p = 0
  OBVIOUS
<1> QED
  BY <1>1

\* What freeing gives back is what the structure points to.
LEMMA Freed ==
    ASSUME NothingLeaks
    PROVE  /\ socketfree(held) = [fd |-> 0, query |-> One(query # None),
                                  packet |-> One(packet # NoPacket)]
           /\ packetfree(socketfree(held)) = [fd |-> 0, query |-> One(query # None), packet |-> 0]
           /\ queryfree(socketfree(held)) = [fd |-> 0, query |-> 0, packet |-> One(packet # NoPacket)]
           /\ AllFreed(held) = Nothing
<1> DEFINE a == One(s1 # NoServer)
           q == One(query # None)
           p == One(packet # NoPacket)
<1>1. held = [fd |-> a, query |-> q, packet |-> p]
  BY DEF NothingLeaks
<1>2. a \in Nat /\ q \in Nat /\ p \in Nat
  BY DEF One
<1> HIDE DEF a, p, q
<1>3. socketfree(held) = [fd |-> 0, query |-> q, packet |-> p]
  BY <1>1, <1>2, TakenAway DEF socketfree, a
<1>4. packetfree(socketfree(held)) = [fd |-> 0, query |-> q, packet |-> 0]
  BY <1>2, <1>3, TakenAway DEF packetfree, p
<1>5. queryfree(socketfree(held)) = [fd |-> 0, query |-> 0, packet |-> p]
  BY <1>2, <1>3, TakenAway DEF queryfree, q
<1>6. AllFreed(held) = Nothing
  BY <1>2, <1>4, TakenAway DEF AllFreed, queryfree, q, Nothing
<1> QED
  BY <1>3, <1>4, <1>5, <1>6 DEF p, q

\* The next server is one of the list, or there is none left.
LEMMA NextPlace ==
    ASSUME IInv, pc = "wait"
    PROVE  curserver + 1 \in 0..Slots
BY TransmitConstants DEF IInv, TypeOK, FieldTypes, AskingInv, Slot

\* The types are kept.
LEMMA FieldStep ==
    ASSUME IInv, [Next]_vars
    PROVE  FieldTypes'
<1>0. FieldTypes /\ AskingInv /\ SentInv
  BY DEF IInv, TypeOK
<1> USE TransmitConstants DEF FieldTypes, AskingInv, SentInv, NoServer, Slot, NoPacket, Room, Message, None, askvars, loopvars
<1>1. CASE dns_transmit_start
  BY <1>0, <1>1 DEF dns_transmit_start
<1>2. CASE dns_transmit_free
  BY <1>0, <1>2 DEF dns_transmit_free
<1>3. CASE NextRound
  BY <1>0, <1>3 DEF NextRound
<1>4. CASE Skip
  BY <1>0, <1>4 DEF Skip
<1>5. CASE SendUdp
  BY <1>0, <1>5 DEF SendUdp
<1>6. CASE ConnectTcp
  BY <1>0, <1>6 DEF ConnectTcp
<1>7. CASE NoSocket
  BY <1>0, <1>7 DEF NoSocket, GiveUp
<1>8. CASE Exhausted
  BY <1>0, <1>8 DEF Exhausted, GiveUp
<1>9. CASE TimedOut
  <2>1. CASE tcpstate = 0
    BY <1>0, <1>9, <2>1, NextPlace DEF TimedOut, nextudp, thisudp
  <2>2. CASE tcpstate # 0
    BY <1>0, <1>9, <2>2, NextPlace DEF TimedOut, nexttcp, thistcp
  <2> QED
    BY <2>1, <2>2
<1>10. CASE RecvError
  <2>1. CASE Ignore
    BY <1>0, <2>1 DEF Ignore
  <2>2. CASE pc = "wait" /\ nextudp /\ UNCHANGED strays
    BY <1>0, <2>2, NextPlace DEF nextudp, thisudp
  <2> QED
    BY <1>10, <2>1, <2>2 DEF RecvError
<1>11. CASE Recv
  BY <1>0, <1>11 DEF Recv, Ignore, firsttcp, thistcp, nextudp, thisudp, irrelevant, serverwantstcp, serverfailed, Replies
<1>12. CASE NoMemory
  BY <1>0, <1>12 DEF NoMemory, GiveUp
<1>13. CASE TcpFails
  BY <1>0, <1>13 DEF TcpFails, nexttcp, thistcp
<1>14. CASE TcpConnected
  BY <1>0, <1>14 DEF TcpConnected, Stay
<1>15. CASE TcpWrite
  BY <1>0, <1>15 DEF TcpWrite, Stay
<1>16. CASE TcpLength
  BY <1>0, <1>16 DEF TcpLength, Stay
<1>17. CASE TcpPart
  BY <1>0, <1>17 DEF TcpPart, Stay
<1>18. CASE TcpWhole
  <2>1. CASE pc = "wait" /\ nexttcp /\ UNCHANGED strays
    BY <1>0, <2>1, NextPlace DEF nexttcp, thistcp
  <2>2. PICK m \in Message :
           \/ nexttcp /\ UNCHANGED strays
           \/ /\ s1' = NoServer /\ query' = None /\ packet' = m
              /\ pc' = "idle" /\ outcome' = "answer"
              /\ UNCHANGED <<id, udploop, curserver, tcpstate, pos, asked, sent, strays, askvars>>
    BY <1>18 DEF TcpWhole
  <2> QED
    BY <1>0, <1>18, <2>1, <2>2 DEF TcpWhole
<1>19. CASE UNCHANGED vars
  BY <1>0, <1>19 DEF vars
<1> QED
  BY <1>1, <1>2, <1>3, <1>4, <1>5, <1>6, <1>7, <1>8, <1>9, <1>10, <1>11, <1>12, <1>13, <1>14, <1>15, <1>16, <1>17, <1>18, <1>19 DEF Next, Loop

\* Between a question and its end the query in the structure is the one put last.
LEMMA AskingStep ==
    ASSUME IInv, [Next]_vars
    PROVE  AskingInv'
<1>0. FieldTypes /\ AskingInv
  BY DEF IInv, TypeOK
<1> USE TransmitConstants DEF FieldTypes, AskingInv, NoServer, Slot, NoPacket, Room, Message, None, askvars, loopvars
<1>1. CASE dns_transmit_start
  BY <1>0, <1>1 DEF dns_transmit_start
<1>2. CASE dns_transmit_free
  BY <1>0, <1>2 DEF dns_transmit_free
<1>3. CASE NextRound
  BY <1>0, <1>3 DEF NextRound
<1>4. CASE Skip
  BY <1>0, <1>4 DEF Skip
<1>5. CASE SendUdp
  BY <1>0, <1>5 DEF SendUdp
<1>6. CASE ConnectTcp
  BY <1>0, <1>6 DEF ConnectTcp
<1>7. CASE NoSocket
  BY <1>0, <1>7 DEF NoSocket, GiveUp
<1>8. CASE Exhausted
  BY <1>0, <1>8 DEF Exhausted, GiveUp
<1>9. CASE TimedOut
  BY <1>0, <1>9 DEF TimedOut, nextudp, thisudp, nexttcp, thistcp
<1>10. CASE RecvError
  BY <1>0, <1>10 DEF RecvError, Ignore, nextudp, thisudp
<1>11. CASE Recv
  BY <1>0, <1>11 DEF Recv, Ignore, firsttcp, thistcp, nextudp, thisudp, irrelevant, serverwantstcp, serverfailed, Replies
<1>12. CASE NoMemory
  BY <1>0, <1>12 DEF NoMemory, GiveUp
<1>13. CASE TcpFails
  BY <1>0, <1>13 DEF TcpFails, nexttcp, thistcp
<1>14. CASE TcpConnected
  BY <1>0, <1>14 DEF TcpConnected, Stay
<1>15. CASE TcpWrite
  BY <1>0, <1>15 DEF TcpWrite, Stay
<1>16. CASE TcpLength
  BY <1>0, <1>16 DEF TcpLength, Stay
<1>17. CASE TcpPart
  BY <1>0, <1>17 DEF TcpPart, Stay
<1>18. CASE TcpWhole
  BY <1>0, <1>18 DEF TcpWhole, nexttcp, thistcp, irrelevant, serverwantstcp, serverfailed
<1>19. CASE UNCHANGED vars
  BY <1>0, <1>19 DEF vars
<1> QED
  BY <1>1, <1>2, <1>3, <1>4, <1>5, <1>6, <1>7, <1>8, <1>9, <1>10, <1>11, <1>12, <1>13, <1>14, <1>15, <1>16, <1>17, <1>18, <1>19 DEF Next, Loop

\* What was sent stays behind the position.
LEMMA SentStep ==
    ASSUME IInv, [Next]_vars
    PROVE  SentInv'
<1>0. FieldTypes /\ SentInv
  BY DEF IInv, TypeOK
<1> USE TransmitConstants DEF FieldTypes, SentInv, askvars, loopvars
<1>1. CASE dns_transmit_start
  BY <1>0, <1>1 DEF dns_transmit_start
<1>2. CASE dns_transmit_free
  BY <1>0, <1>2 DEF dns_transmit_free
<1>3. CASE NextRound
  BY <1>0, <1>3 DEF NextRound
<1>4. CASE Skip
  BY <1>0, <1>4 DEF Skip
<1>5. CASE SendUdp
  BY <1>0, <1>5 DEF SendUdp
<1>6. CASE ConnectTcp
  BY <1>0, <1>6 DEF ConnectTcp
<1>7. CASE NoSocket
  BY <1>0, <1>7 DEF NoSocket, GiveUp
<1>8. CASE Exhausted
  BY <1>0, <1>8 DEF Exhausted, GiveUp
<1>9. CASE TimedOut
  BY <1>0, <1>9 DEF TimedOut, nextudp, thisudp, nexttcp, thistcp
<1>10. CASE RecvError
  BY <1>0, <1>10 DEF RecvError, Ignore, nextudp, thisudp
<1>11. CASE Recv
  BY <1>0, <1>11 DEF Recv, Ignore, firsttcp, thistcp, nextudp, thisudp, irrelevant, serverwantstcp, serverfailed, Replies
<1>12. CASE NoMemory
  BY <1>0, <1>12 DEF NoMemory, GiveUp
<1>13. CASE TcpFails
  BY <1>0, <1>13 DEF TcpFails, nexttcp, thistcp
<1>14. CASE TcpConnected
  BY <1>0, <1>14 DEF TcpConnected, Stay
<1>15. CASE TcpWrite
  BY <1>0, <1>15 DEF TcpWrite, Stay
<1>16. CASE TcpLength
  BY <1>0, <1>16 DEF TcpLength, Stay
<1>17. CASE TcpPart
  BY <1>0, <1>17 DEF TcpPart, Stay
<1>18. CASE TcpWhole
  BY <1>0, <1>18 DEF TcpWhole, nexttcp, thistcp, irrelevant, serverwantstcp, serverfailed
<1>19. CASE UNCHANGED vars
  BY <1>0, <1>19 DEF vars
<1> QED
  BY <1>1, <1>2, <1>3, <1>4, <1>5, <1>6, <1>7, <1>8, <1>9, <1>10, <1>11, <1>12, <1>13, <1>14, <1>15, <1>16, <1>17, <1>18, <1>19 DEF Next, Loop

\* What is allocated is what the structure points to.
LEMMA LeaksStep ==
    ASSUME IInv, [Next]_vars
    PROVE  NothingLeaks'
<1>0. FieldTypes /\ AskingInv /\ NothingLeaks
  BY DEF IInv, TypeOK
<1> USE TransmitConstants, Freed DEF FieldTypes, AskingInv, NothingLeaks, One, Nothing, NoServer, Slot, NoPacket, Room, Message, None, askvars, loopvars
<1>1. CASE dns_transmit_start
  BY <1>0, <1>1 DEF dns_transmit_start
<1>2. CASE dns_transmit_free
  BY <1>0, <1>2 DEF dns_transmit_free
<1>3. CASE NextRound
  BY <1>0, <1>3 DEF NextRound
<1>4. CASE Skip
  BY <1>0, <1>4 DEF Skip
<1>5. CASE SendUdp
  BY <1>0, <1>5 DEF SendUdp
<1>6. CASE ConnectTcp
  BY <1>0, <1>6 DEF ConnectTcp
<1>7. CASE NoSocket
  BY <1>0, <1>7 DEF NoSocket, GiveUp
<1>8. CASE Exhausted
  BY <1>0, <1>8 DEF Exhausted, GiveUp
<1>9. CASE TimedOut
  BY <1>0, <1>9 DEF TimedOut, nextudp, thisudp, nexttcp, thistcp
<1>10. CASE RecvError
  BY <1>0, <1>10 DEF RecvError, Ignore, nextudp, thisudp
<1>11. CASE Recv
  BY <1>0, <1>11 DEF Recv, Ignore, firsttcp, thistcp, nextudp, thisudp, irrelevant, serverwantstcp, serverfailed, Replies
<1>12. CASE NoMemory
  BY <1>0, <1>12 DEF NoMemory, GiveUp
<1>13. CASE TcpFails
  BY <1>0, <1>13 DEF TcpFails, nexttcp, thistcp
<1>14. CASE TcpConnected
  BY <1>0, <1>14 DEF TcpConnected, Stay
<1>15. CASE TcpWrite
  BY <1>0, <1>15 DEF TcpWrite, Stay
<1>16. CASE TcpLength
  BY <1>0, <1>16 DEF TcpLength, Stay
<1>17. CASE TcpPart
  BY <1>0, <1>17 DEF TcpPart, Stay
<1>18. CASE TcpWhole
  BY <1>0, <1>18 DEF TcpWhole, nexttcp, thistcp, irrelevant, serverwantstcp, serverfailed
<1>19. CASE UNCHANGED vars
  BY <1>0, <1>19 DEF vars
<1> QED
  BY <1>1, <1>2, <1>3, <1>4, <1>5, <1>6, <1>7, <1>8, <1>9, <1>10, <1>11, <1>12, <1>13, <1>14, <1>15, <1>16, <1>17, <1>18, <1>19 DEF Next, Loop

\* The answer held is one to the last question, under the last id.
LEMMA AnswerStep ==
    ASSUME IInv, [Next]_vars
    PROVE  AnswersTheQuestion'
<1>0. FieldTypes /\ AskingInv /\ AnswersTheQuestion
  BY DEF IInv, TypeOK
<1> USE TransmitConstants DEF FieldTypes, AskingInv, AnswersTheQuestion, NoServer, Slot, NoPacket, Room, Message, None, askvars, loopvars
<1>1. CASE dns_transmit_start
  BY <1>0, <1>1 DEF dns_transmit_start
<1>2. CASE dns_transmit_free
  BY <1>0, <1>2 DEF dns_transmit_free
<1>3. CASE NextRound
  BY <1>0, <1>3 DEF NextRound
<1>4. CASE Skip
  BY <1>0, <1>4 DEF Skip
<1>5. CASE SendUdp
  BY <1>0, <1>5 DEF SendUdp
<1>6. CASE ConnectTcp
  BY <1>0, <1>6 DEF ConnectTcp
<1>7. CASE NoSocket
  BY <1>0, <1>7 DEF NoSocket, GiveUp
<1>8. CASE Exhausted
  BY <1>0, <1>8 DEF Exhausted, GiveUp
<1>9. CASE TimedOut
  BY <1>0, <1>9 DEF TimedOut, nextudp, thisudp, nexttcp, thistcp
<1>10. CASE RecvError
  BY <1>0, <1>10 DEF RecvError, Ignore, nextudp, thisudp
<1>11. CASE Recv
  BY <1>0, <1>11 DEF Recv, Ignore, firsttcp, thistcp, nextudp, thisudp, irrelevant, serverwantstcp, serverfailed, Replies
<1>12. CASE NoMemory
  BY <1>0, <1>12 DEF NoMemory, GiveUp
<1>13. CASE TcpFails
  BY <1>0, <1>13 DEF TcpFails, nexttcp, thistcp
<1>14. CASE TcpConnected
  BY <1>0, <1>14 DEF TcpConnected, Stay
<1>15. CASE TcpWrite
  BY <1>0, <1>15 DEF TcpWrite, Stay
<1>16. CASE TcpLength
  BY <1>0, <1>16 DEF TcpLength, Stay
<1>17. CASE TcpPart
  BY <1>0, <1>17 DEF TcpPart, Stay
<1>18. CASE TcpWhole
  BY <1>0, <1>18 DEF TcpWhole, nexttcp, thistcp, irrelevant, serverwantstcp, serverfailed
<1>19. CASE UNCHANGED vars
  BY <1>0, <1>19 DEF vars
<1> QED
  BY <1>1, <1>2, <1>3, <1>4, <1>5, <1>6, <1>7, <1>8, <1>9, <1>10, <1>11, <1>12, <1>13, <1>14, <1>15, <1>16, <1>17, <1>18, <1>19 DEF Next, Loop

\* How a try is counted
LEMMA Tried ==
    ASSUME NEW F, NEW S, NEW t \in [from : F, udp : [S -> Nat], tcp : [S -> 0..1]], NEW s \in S
    PROVE  /\ [t EXCEPT !.udp[s] = @ + 1] \in [from : F, udp : [S -> Nat], tcp : [S -> 0..1]]
           /\ [t EXCEPT !.tcp[s] = 1] \in [from : F, udp : [S -> Nat], tcp : [S -> 0..1]]
           /\ [t EXCEPT !.udp[s] = @ + 1].from = t.from
           /\ [t EXCEPT !.tcp[s] = 1].udp = t.udp
           /\ [t EXCEPT !.udp[s] = @ + 1].udp = [t.udp EXCEPT ![s] = @ + 1]
           /\ [t EXCEPT !.tcp[s] = 1].tcp = [t.tcp EXCEPT ![s] = 1]
OBVIOUS

\* Going on to the next place changes nobody's past turns, whether the place
\* was empty or the wait for its server is over.
LEMMA GoingOn ==
    ASSUME FieldTypes, curserver' = curserver + 1,
           \/ pc = "wait" /\ pc' # "wait"
           \/ pc # "wait" /\ pc' # "wait" /\ curserver \notin servers
    PROVE  \A s \in servers : HadItsTurn(s)' <=> HadItsTurn(s)
BY TransmitConstants DEF FieldTypes, HadItsTurn, Slot

\* Trying the server whose turn it is makes it one that had its turn.
LEMMA TakingTurn ==
    ASSUME FieldTypes, curserver \in servers, pc # "wait",
           \/ pc' = "wait" /\ curserver' = curserver
           \/ pc' = pc /\ curserver' = curserver + 1
    PROVE  \A s \in servers : HadItsTurn(s)' <=> s = curserver \/ HadItsTurn(s)
BY TransmitConstants DEF FieldTypes, HadItsTurn, Slot

\* The counts of tries keep their type.
LEMMA TriedStep ==
    ASSUME IInv, [Next]_vars
    PROVE  tried' \in [from : 0..1, udp : [Slot -> Nat], tcp : [Slot -> 0..1]]
<1>0. tried \in [from : 0..1, udp : [Slot -> Nat], tcp : [Slot -> 0..1]] /\ FieldTypes /\ AskingInv
  BY DEF IInv, TypeOK
<1> USE TransmitConstants DEF FieldTypes, AskingInv, Slot, askvars, loopvars
<1>1. CASE dns_transmit_start
  <2>1. /\ udploop' \in 0..1
        /\ tried' = [NotTried EXCEPT !.from = udploop']
    BY <1>1 DEF dns_transmit_start
  <2>2. tried' = [from |-> udploop', udp |-> [s \in Slot |-> 0], tcp |-> [s \in Slot |-> 0]]
    BY <2>1 DEF NotTried
  <2> HIDE DEF Slot, FieldTypes, AskingInv
  <2>3. [s \in Slot |-> 0] \in [Slot -> Nat] /\ [s \in Slot |-> 0] \in [Slot -> 0..1]
    OBVIOUS
  <2>4. udploop' \in 0..1
    BY <2>1
  <2> QED
    BY <2>2, <2>3, <2>4, Zenon
<1>2. CASE dns_transmit_free
  BY <1>0, <1>2 DEF dns_transmit_free
<1>3. CASE NextRound
  BY <1>0, <1>3 DEF NextRound
<1>4. CASE Skip
  BY <1>0, <1>4 DEF Skip
<1>5. CASE SendUdp
  <2>1. curserver \in servers /\ tried' = [tried EXCEPT !.udp[curserver] = @ + 1]
    BY <1>5 DEF SendUdp
  <2>2. curserver \in Slot
    BY <1>0, <2>1
  <2> HIDE DEF Slot, FieldTypes, AskingInv
  <2> QED
    BY <1>0, <2>1, <2>2, Tried
<1>6. CASE ConnectTcp
  <2>1. curserver \in servers /\ tried' = [tried EXCEPT !.tcp[curserver] = 1]
    BY <1>6 DEF ConnectTcp
  <2>2. curserver \in Slot
    BY <1>0, <2>1
  <2> HIDE DEF Slot, FieldTypes, AskingInv
  <2> QED
    BY <1>0, <2>1, <2>2, Tried
<1>7. CASE NoSocket
  BY <1>0, <1>7 DEF NoSocket, GiveUp
<1>8. CASE Exhausted
  BY <1>0, <1>8 DEF Exhausted, GiveUp
<1>9. CASE TimedOut
  BY <1>0, <1>9 DEF TimedOut, nextudp, thisudp, nexttcp, thistcp
<1>10. CASE RecvError
  BY <1>0, <1>10 DEF RecvError, Ignore, nextudp, thisudp
<1>11. CASE Recv
  BY <1>0, <1>11 DEF Recv, Ignore, firsttcp, thistcp, nextudp, thisudp, irrelevant, serverwantstcp, serverfailed, Replies
<1>12. CASE NoMemory
  BY <1>0, <1>12 DEF NoMemory, GiveUp
<1>13. CASE TcpFails
  BY <1>0, <1>13 DEF TcpFails, nexttcp, thistcp
<1>14. CASE TcpConnected
  BY <1>0, <1>14 DEF TcpConnected, Stay
<1>15. CASE TcpWrite
  BY <1>0, <1>15 DEF TcpWrite, Stay
<1>16. CASE TcpLength
  BY <1>0, <1>16 DEF TcpLength, Stay
<1>17. CASE TcpPart
  BY <1>0, <1>17 DEF TcpPart, Stay
<1>18. CASE TcpWhole
  BY <1>0, <1>18 DEF TcpWhole, nexttcp, thistcp, irrelevant, serverwantstcp, serverfailed
<1>19. CASE UNCHANGED vars
  BY <1>0, <1>19 DEF vars
<1> QED
  BY <1>1, <1>2, <1>3, <1>4, <1>5, <1>6, <1>7, <1>8, <1>9, <1>10, <1>11, <1>12, <1>13, <1>14, <1>15, <1>16, <1>17, <1>18, <1>19 DEF Next, Loop

\* Every server before the one whose turn it is was asked once more.
LEMMA TurnStep ==
    ASSUME IInv, [Next]_vars
    PROVE  TurnInv'
<1>0. tried \in [from : 0..1, udp : [Slot -> Nat], tcp : [Slot -> 0..1]] /\ FieldTypes /\ AskingInv /\ TurnInv
  BY DEF IInv, TypeOK
<1> USE TransmitConstants DEF FieldTypes, AskingInv, TurnInv, One, Slot, NotTried, UdpTurn, TcpTurn, None, askvars, loopvars
<1>1. CASE dns_transmit_start
  <2>1. tried' = [from |-> udploop', udp |-> [s \in Slot |-> 0], tcp |-> [s \in Slot |-> 0]]
    BY <1>1 DEF dns_transmit_start
  <2> QED
    BY <1>0, <1>1, <2>1 DEF dns_transmit_start, HadItsTurn
<1>2. CASE dns_transmit_free
  BY <1>0, <1>2 DEF dns_transmit_free
<1>3. CASE NextRound
  BY <1>0, <1>3 DEF NextRound, HadItsTurn
<1>4. CASE Skip
  <2>1. \A s \in servers : HadItsTurn(s)' <=> HadItsTurn(s)
    BY <1>0, <1>4, GoingOn DEF Skip
  <2> QED
    BY <1>0, <1>4, <2>1 DEF Skip
<1>5. CASE SendUdp
  <2>1. /\ curserver \in servers /\ tried' = [tried EXCEPT !.udp[curserver] = @ + 1]
        /\ pc = "udp" /\ udploop < Rounds /\ UNCHANGED <<udploop, servers>>
        /\ pc' \in {"udp", "wait"} /\ (pc' = "wait" => tcpstate' = 0)
    BY <1>5 DEF SendUdp, askvars
  <2>2. /\ tried'.from = tried.from
        /\ tried'.udp = [tried.udp EXCEPT ![curserver] = @ + 1]
    BY <1>0, <2>1, Tried DEF FieldTypes
  <2>3. \A s \in servers : HadItsTurn(s)' <=> s = curserver \/ HadItsTurn(s)
    BY <1>0, <1>5, TakingTurn DEF SendUdp
  <2>4. ~HadItsTurn(curserver)
    BY <1>0, <2>1 DEF HadItsTurn, FieldTypes
  <2>5. /\ tried.from \in Nat /\ tried.udp \in [Slot -> Nat]
        /\ servers \subseteq Slot /\ udploop \in Nat
        /\ tried.from <= udploop
        /\ \A s \in servers : tried.udp[s] = udploop - tried.from + One(HadItsTurn(s))
    BY <1>0, <2>1 DEF FieldTypes
  <2> HIDE DEF Slot, FieldTypes, AskingInv, TurnInv
  <2>6. \A s \in servers : tried'.udp[s] = udploop - tried.from + One(HadItsTurn(s)')
    <3> TAKE s \in servers
    <3>1. CASE s = curserver
      BY <2>1, <2>2, <2>3, <2>4, <2>5, <3>1
    <3>2. CASE s # curserver
      BY <2>1, <2>2, <2>3, <2>5, <3>2
    <3> QED
      BY <3>1, <3>2
  <2> QED
    BY <2>1, <2>2, <2>5, <2>6 DEF TurnInv
<1>6. CASE ConnectTcp
  <2>1. curserver \in servers /\ tried' = [tried EXCEPT !.tcp[curserver] = 1]
    BY <1>6 DEF ConnectTcp
  <2>2. tried'.tcp = [tried.tcp EXCEPT ![curserver] = 1]
    BY <1>0, <2>1, Tried
  <2>3. \A s \in servers : HadItsTurn(s)' <=> s = curserver \/ HadItsTurn(s)
    BY <1>0, <1>6, TakingTurn DEF ConnectTcp
  <2> QED
    BY <1>0, <1>6, <2>2, <2>3, SMTT(30) DEF ConnectTcp
<1>7. CASE NoSocket
  BY <1>0, <1>7 DEF NoSocket, GiveUp
<1>8. CASE Exhausted
  BY <1>0, <1>8 DEF Exhausted, GiveUp
<1>9. CASE TimedOut
  <2>1. \A s \in servers : HadItsTurn(s)' <=> HadItsTurn(s)
    BY <1>0, <1>9, GoingOn DEF TimedOut, nextudp, thisudp, nexttcp, thistcp
  <2> QED
    BY <1>0, <1>9, <2>1 DEF TimedOut, nextudp, thisudp, nexttcp, thistcp
<1>10. CASE RecvError
  <2>1. CASE Ignore
    BY <1>0, <1>10, <2>1 DEF RecvError, Ignore, HadItsTurn
  <2>2. CASE nextudp /\ pc = "wait" /\ tcpstate = 0
    <3>1. \A s \in servers : HadItsTurn(s)' <=> HadItsTurn(s)
      BY <1>0, <2>2, GoingOn DEF nextudp, thisudp
    <3> QED
      BY <1>0, <2>2, <3>1 DEF nextudp, thisudp
  <2> QED
    BY <1>10, <2>1, <2>2 DEF RecvError
<1>11. CASE Recv
  <2>1. CASE Ignore
    BY <1>0, <1>11, <2>1 DEF Recv, Ignore, HadItsTurn
  <2>2. CASE nextudp /\ pc = "wait" /\ tcpstate = 0
    <3>1. \A s \in servers : HadItsTurn(s)' <=> HadItsTurn(s)
      BY <1>0, <2>2, GoingOn DEF nextudp, thisudp
    <3> QED
      BY <1>0, <2>2, <3>1 DEF nextudp, thisudp
  <2>3. CASE firsttcp
    BY <1>0, <2>3 DEF firsttcp, thistcp, HadItsTurn
  <2>4. CASE pc' = "idle"
    BY <2>4
  <2> QED
    BY <1>11, <2>1, <2>2, <2>3, <2>4 DEF Recv
<1>12. CASE NoMemory
  BY <1>0, <1>12 DEF NoMemory, GiveUp
<1>13. CASE TcpFails
  <2>1. CASE nexttcp /\ pc = "wait" /\ tcpstate # 0
    <3>1. \A s \in servers : HadItsTurn(s)' <=> HadItsTurn(s)
      BY <1>0, <2>1, GoingOn DEF nexttcp, thistcp
    <3> QED
      BY <1>0, <2>1, <3>1 DEF nexttcp, thistcp
  <2>2. CASE pc' = "idle"
    BY <2>2
  <2> QED
    BY <1>13, <2>1, <2>2 DEF TcpFails
<1>14. CASE TcpConnected
  BY <1>0, <1>14 DEF TcpConnected, Stay, HadItsTurn
<1>15. CASE TcpWrite
  BY <1>0, <1>15 DEF TcpWrite, Stay, HadItsTurn
<1>16. CASE TcpLength
  BY <1>0, <1>16, SMTT(30) DEF TcpLength, Stay, HadItsTurn
<1>17. CASE TcpPart
  BY <1>0, <1>17 DEF TcpPart, Stay, HadItsTurn
<1>18. CASE TcpWhole
  <2>1. CASE nexttcp /\ pc = "wait" /\ tcpstate # 0
    <3>1. \A s \in servers : HadItsTurn(s)' <=> HadItsTurn(s)
      BY <1>0, <2>1, GoingOn DEF nexttcp, thistcp
    <3> QED
      BY <1>0, <2>1, <3>1 DEF nexttcp, thistcp
  <2>2. CASE pc' = "idle"
    BY <2>2
  <2> QED
    BY <1>18, <2>1, <2>2 DEF TcpWhole
<1>19. CASE UNCHANGED vars
  BY <1>0, <1>19 DEF vars, HadItsTurn
<1> QED
  BY <1>1, <1>2, <1>3, <1>4, <1>5, <1>6, <1>7, <1>8, <1>9, <1>10, <1>11, <1>12, <1>13, <1>14, <1>15, <1>16, <1>17, <1>18, <1>19 DEF Next, Loop

\* A question given up had every server's turns.
LEMMA GiveUpStep ==
    ASSUME IInv, [Next]_vars
    PROVE  GivesUpLast'
<1>0. tried \in [from : 0..1, udp : [Slot -> Nat], tcp : [Slot -> 0..1]] /\ FieldTypes /\ AskingInv /\ TurnInv /\ GivesUpLast
  BY DEF IInv, TypeOK
<1> USE TransmitConstants DEF FieldTypes, AskingInv, TurnInv, GivesUpLast, One, HadItsTurn, UdpTurn, TcpTurn, Slot, None, askvars, loopvars
<1>1. CASE dns_transmit_start
  BY <1>0, <1>1 DEF dns_transmit_start
<1>2. CASE dns_transmit_free
  BY <1>0, <1>2 DEF dns_transmit_free
<1>3. CASE NextRound
  BY <1>0, <1>3 DEF NextRound
<1>4. CASE Skip
  BY <1>0, <1>4 DEF Skip
<1>5. CASE SendUdp
  BY <1>0, <1>5 DEF SendUdp
<1>6. CASE ConnectTcp
  BY <1>0, <1>6 DEF ConnectTcp
<1>7. CASE NoSocket
  BY <1>0, <1>7 DEF NoSocket, GiveUp
<1>8. CASE Exhausted
  BY <1>0, <1>8 DEF Exhausted, GiveUp
<1>9. CASE TimedOut
  BY <1>0, <1>9 DEF TimedOut, nextudp, thisudp, nexttcp, thistcp
<1>10. CASE RecvError
  BY <1>0, <1>10 DEF RecvError, Ignore, nextudp, thisudp
<1>11. CASE Recv
  BY <1>0, <1>11 DEF Recv, Ignore, firsttcp, thistcp, nextudp, thisudp, irrelevant, serverwantstcp, serverfailed, Replies
<1>12. CASE NoMemory
  BY <1>0, <1>12 DEF NoMemory, GiveUp
<1>13. CASE TcpFails
  BY <1>0, <1>13 DEF TcpFails, nexttcp, thistcp
<1>14. CASE TcpConnected
  BY <1>0, <1>14 DEF TcpConnected, Stay
<1>15. CASE TcpWrite
  BY <1>0, <1>15 DEF TcpWrite, Stay
<1>16. CASE TcpLength
  BY <1>0, <1>16 DEF TcpLength, Stay
<1>17. CASE TcpPart
  BY <1>0, <1>17 DEF TcpPart, Stay
<1>18. CASE TcpWhole
  BY <1>0, <1>18 DEF TcpWhole, nexttcp, thistcp, irrelevant, serverwantstcp, serverfailed
<1>19. CASE UNCHANGED vars
  BY <1>0, <1>19 DEF vars
<1> QED
  BY <1>1, <1>2, <1>3, <1>4, <1>5, <1>6, <1>7, <1>8, <1>9, <1>10, <1>11, <1>12, <1>13, <1>14, <1>15, <1>16, <1>17, <1>18, <1>19 DEF Next, Loop

\* The invariant holds before the first question.
LEMMA InitInv ==
    ASSUME Init
    PROVE  IInv
<1> USE TransmitConstants DEF Init, NoServer, Slot, NoPacket, Nothing, NotTried, None
<1>1. TypeOK
  BY DEF TypeOK, FieldTypes, Room
<1>2. AskingInv /\ TurnInv /\ SentInv
  BY DEF AskingInv, TurnInv, SentInv, UdpTurn, TcpTurn, Room
<1>3. NothingLeaks /\ AnswersTheQuestion /\ GivesUpLast
  BY DEF NothingLeaks, AnswersTheQuestion, GivesUpLast, Message, One
<1> QED
  BY <1>1, <1>2, <1>3 DEF IInv

\* The types, from the parts above: what is allocated is counted by ones.
LEMMA TypeStep ==
    ASSUME IInv, [Next]_vars
    PROVE  TypeOK'
<1>1. held' \in [fd : Nat, query : Nat, packet : Nat]
  BY LeaksStep DEF NothingLeaks, One
<1> QED
  BY <1>1, FieldStep, TriedStep DEF TypeOK

LEMMA InvarianceStep ==
    IInv /\ [Next]_vars => IInv'
BY TypeStep, AskingStep, TurnStep, SentStep, LeaksStep, AnswerStep, GiveUpStep DEF IInv

-----------------------------------------------------------------------------
(* dns_transmit.c: the invariant of every reuse of the structure.            *)
THEOREM Invariance == Spec => []IInv
BY InitInv, InvarianceStep, PTL DEF Spec

\* dns_transmit.c: every field keeps its type, whatever the servers answer.
THEOREM TypeCorrect == Spec => []TypeOK
<1>1. IInv => TypeOK
  BY DEF IInv
<1> QED
  BY <1>1, Invariance, PTL

\* dns_transmit.c: exactly what the structure points to is allocated, on every
\* way from UDP to TCP, from server to server and from question to question.
THEOREM NoLeak == Spec => []NothingLeaks
<1>1. IInv => NothingLeaks
  BY DEF IInv
<1> QED
  BY <1>1, Invariance, PTL

\* dns_transmit.c: an answer is to the question put last, though replies to
\* earlier ones come late, twice, or with an id that is drawn again.
THEOREM AnswerToTheLastQuestion == Spec => []AnswersTheQuestion
<1>1. IInv => AnswersTheQuestion
  BY DEF IInv
<1> QED
  BY <1>1, Invariance, PTL

\* dns_transmit.c: a question is given up only after every server of the list
\* had its turn in every round, or its turn by TCP.
THEOREM ExhaustedAtLast == Spec => []GivesUpLast
<1>1. IInv => GivesUpLast
  BY DEF IInv
<1> QED
  BY <1>1, Invariance, PTL

-----------------------------------------------------------------------------
(* Names                                                                    *)

LEMMA SuffixFacts ==
    ASSUME NEW n \in Seq(STRING)
    PROVE  /\ n \in SuffixesOf(n) /\ Root \in SuffixesOf(n) /\ Len(n) \in Nat
           /\ \A s \in SuffixesOf(n) : s \in Seq(STRING) /\ Len(s) \in 0 .. Len(n)
           /\ \A s, t \in SuffixesOf(n) : Len(s) = Len(t) => s = t
<1> DEFINE L == Len(n)
<1>1. L \in Nat /\ \A k \in 1 .. L : n[k] \in STRING
  OBVIOUS
<1>2. ASSUME NEW i \in 0 .. L
      PROVE  SubSeq(n, i + 1, L) \in Seq(STRING) /\ Len(SubSeq(n, i + 1, L)) = L - i
  <2>1. \A k \in i + 1 .. L : n[k] \in STRING
    BY <1>1
  <2> QED
    BY <1>1, <2>1, SubSeqProperties
<1>3. SubSeq(n, 0 + 1, L) = n /\ 0 \in 0 .. L
  BY <1>1, SubSeqFull
<1>4. SubSeq(n, L + 1, L) = <<>> /\ L \in 0 .. L
  BY <1>1, SubSeqEmpty
<1> HIDE DEF L
<1>5. \A s \in SuffixesOf(n) : \E i \in 0 .. L : s = SubSeq(n, i + 1, L)
  BY DEF SuffixesOf, L
<1>6. \A i \in 0 .. L : SubSeq(n, i + 1, L) \in SuffixesOf(n)
  BY DEF SuffixesOf, L
<1>7. n \in SuffixesOf(n) /\ Root \in SuffixesOf(n)
  BY <1>3, <1>4, <1>6 DEF Root
<1>8. \A s \in SuffixesOf(n) : s \in Seq(STRING) /\ Len(s) \in 0 .. L
  <2> TAKE s \in SuffixesOf(n)
  <2>1. PICK i \in 0 .. L : s = SubSeq(n, i + 1, L)
    BY <1>5
  <2>2. s \in Seq(STRING) /\ Len(s) = L - i
    BY <1>2, <2>1
  <2> QED
    BY <1>1, <2>2
<1>9. ASSUME NEW s \in SuffixesOf(n), NEW t \in SuffixesOf(n), Len(s) = Len(t)
      PROVE  s = t
  <2>1. PICK i \in 0 .. L : s = SubSeq(n, i + 1, L)
    BY <1>5
  <2>2. PICK j \in 0 .. L : t = SubSeq(n, j + 1, L)
    BY <1>5
  <2>3. L - i = L - j
    BY <1>2, <1>9, <2>1, <2>2
  <2> QED
    BY <1>1, <2>1, <2>2, <2>3
<1> QED
  BY <1>1, <1>7, <1>8, <1>9 DEF L

\* A suffix of a suffix is one, and of two suffixes the shorter is one of the other.
LEMMA SuffixOrder ==
    ASSUME NEW n \in Seq(STRING), NEW s \in SuffixesOf(n)
    PROVE  /\ SuffixesOf(s) \subseteq SuffixesOf(n)
           /\ \A t \in SuffixesOf(n) : Len(t) <= Len(s) => t \in SuffixesOf(s)
<1> DEFINE L == Len(n)
<1>1. L \in Nat /\ \A k \in 1 .. L : n[k] \in STRING
  OBVIOUS
<1>2. PICK i \in 0 .. L : s = SubSeq(n, i + 1, L)
  BY DEF SuffixesOf
<1>3. ASSUME NEW k \in 0 .. L
      PROVE  Len(SubSeq(n, k + 1, L)) = L - k
  <2>1. \A h \in k + 1 .. L : n[h] \in STRING
    BY <1>1
  <2> QED
    BY <1>1, <2>1, SubSeqProperties
<1>4. Len(s) = L - i
  BY <1>2, <1>3
<1>5. ASSUME NEW j \in 0 .. L - i
      PROVE  SubSeq(s, j + 1, L - i) = SubSeq(n, i + j + 1, L)
  <2> DEFINE x == SubSeq(s, j + 1, L - i)
             y == SubSeq(n, i + j + 1, L)
             m == (L - i) - j
  <2>1. \A h \in i + 1 .. L : n[h] \in STRING
    BY <1>1
  <2>2. \A h \in 1 .. L - i : s[h] = n[i + h] /\ s[h] \in STRING
    BY <1>1, <1>2, <2>1, SubSeqProperties
  <2>3. /\ x \in Seq(STRING) /\ Len(x) = m
        /\ \A h \in 1 .. m : x[h] = s[j + h]
    <3>1. \A h \in j + 1 .. L - i : s[h] \in STRING
      BY <1>1, <2>2
    <3>2. /\ x \in Seq(STRING)
          /\ Len(x) = IF j + 1 <= L - i THEN (L - i) - (j + 1) + 1 ELSE 0
          /\ \A h \in 1 .. (L - i) - (j + 1) + 1 : x[h] = s[j + 1 + h - 1]
      BY <1>1, <3>1, SubSeqProperties
    <3> HIDE DEF x
    <3> QED
      BY <1>1, <3>2
  <2>4. /\ y \in Seq(STRING) /\ Len(y) = m
        /\ \A h \in 1 .. m : y[h] = n[i + j + h]
    <3>1. \A h \in i + j + 1 .. L : n[h] \in STRING
      BY <1>1
    <3>2. /\ y \in Seq(STRING)
          /\ Len(y) = IF i + j + 1 <= L THEN L - (i + j + 1) + 1 ELSE 0
          /\ \A h \in 1 .. L - (i + j + 1) + 1 : y[h] = n[i + j + 1 + h - 1]
      BY <1>1, <3>1, SubSeqProperties
    <3> HIDE DEF y
    <3> QED
      BY <1>1, <3>2
  <2>5. \A h \in 1 .. m : j + h \in 1 .. L - i
    BY <1>1
  <2> HIDE DEF x, y
  <2>6. \A h \in 1 .. m : x[h] = y[h]
    BY <1>1, <2>2, <2>3, <2>4, <2>5
  <2>7. x = y
    BY <2>3, <2>4, <2>6, SeqEqual
  <2> QED
    BY <2>7 DEF x, y
<1> HIDE DEF L
<1>6. \A k \in 0 .. L : SubSeq(n, k + 1, L) \in SuffixesOf(n)
  BY DEF SuffixesOf, L
<1>7. /\ \A t \in SuffixesOf(s) : \E j \in 0 .. L - i : t = SubSeq(s, j + 1, L - i)
      /\ \A j \in 0 .. L - i : SubSeq(s, j + 1, L - i) \in SuffixesOf(s)
  BY <1>4 DEF SuffixesOf
<1>8. SuffixesOf(s) \subseteq SuffixesOf(n)
  <2> SUFFICES ASSUME NEW t \in SuffixesOf(s) PROVE t \in SuffixesOf(n)
    OBVIOUS
  <2>1. PICK j \in 0 .. L - i : t = SubSeq(s, j + 1, L - i)
    BY <1>7
  <2>2. t = SubSeq(n, i + j + 1, L) /\ i + j \in 0 .. L
    BY <1>1, <1>5, <2>1 DEF L
  <2> QED
    BY <1>6, <2>2
<1>9. ASSUME NEW t \in SuffixesOf(n), Len(t) <= Len(s)
      PROVE  t \in SuffixesOf(s)
  <2>1. PICK k \in 0 .. L : t = SubSeq(n, k + 1, L)
    BY DEF SuffixesOf, L
  <2>2. L - k <= L - i
    BY <1>3, <1>4, <1>9, <2>1 DEF L
  <2>3. k - i \in 0 .. L - i /\ i + (k - i) = k
    BY <1>1, <2>2 DEF L
  <2>4. SubSeq(s, (k - i) + 1, L - i) = SubSeq(n, k + 1, L)
    BY <1>5, <2>3 DEF L
  <2> QED
    BY <1>7, <2>1, <2>3, <2>4
<1> QED
  BY <1>8, <1>9

LEMMA SuffixDef ==
    \A n, s : dns_domain_suffix(n, s) <=> s \in SuffixesOf(n)
BY DEF dns_domain_suffix, SuffixesOf

-----------------------------------------------------------------------------
(* The configured zones                                                     *)

\* roots_search finds the longest configured zone above a name.
LEMMA NearestFacts ==
    ASSUME NEW roots, Root \in DOMAIN roots, NEW n \in Seq(STRING)
    PROVE  /\ Nearest(roots, n) \in SuffixesOf(n) \cap DOMAIN roots
           /\ \A y \in SuffixesOf(n) \cap DOMAIN roots : Len(y) <= Len(Nearest(roots, n))
<1> DEFINE Z == SuffixesOf(n) \cap DOMAIN roots
           cut == {Len(n) - Len(z) : z \in Z}
<1>1. /\ Root \in Z /\ Len(n) \in Nat
      /\ \A z \in Z : Len(z) \in 0 .. Len(n)
  BY SuffixFacts
<1>2. cut \in SUBSET (0 .. Len(n)) /\ IsFiniteSet(0 .. Len(n)) /\ cut # {}
  <2>1. \A z \in Z : Len(n) - Len(z) \in 0 .. Len(n)
    BY <1>1
  <2>2. IsFiniteSet(0 .. Len(n))
    BY <1>1, FS_Interval
  <2> HIDE DEF Z
  <2> QED
    BY <1>1, <2>1, <2>2
<1>3. IsFiniteSet(cut) /\ cut \in SUBSET Nat
  BY <1>1, <1>2, FS_Subset
<1>4. PICK i \in cut : \A k \in cut : i <= k
  BY <1>2, <1>3, Least
<1>5. PICK z \in Z : i = Len(n) - Len(z)
  BY <1>4
<1>6. \A y \in Z : Len(y) <= Len(z)
  <2> TAKE y \in Z
  <2>1. Len(n) - Len(z) <= Len(n) - Len(y)
    BY <1>4, <1>5
  <2> QED
    BY <1>1, <2>1
<1>7. \E x \in Z : \A y \in Z : Len(y) <= Len(x)
  BY <1>6
<1>8. Nearest(roots, n) = CHOOSE x \in Z : \A y \in Z : Len(y) <= Len(x)
  BY DEF Nearest
<1> HIDE DEF Z
<1>9. Nearest(roots, n) \in Z /\ \A y \in Z : Len(y) <= Len(Nearest(roots, n))
  BY <1>7, <1>8
<1> QED
  BY <1>9 DEF Z

\* A name between another and a zone that share their root shares it with both.
LEMMA SameBetween ==
    ASSUME NEW roots, Root \in DOMAIN roots, NEW n \in Seq(STRING),
           NEW m \in SuffixesOf(n), NEW c \in SuffixesOf(m), SameNearest(roots, n, c)
    PROVE  SameNearest(roots, n, m) /\ SameNearest(roots, m, c)
<1> DEFINE x == Nearest(roots, n)
           y == Nearest(roots, m)
<1>1. m \in Seq(STRING) /\ c \in SuffixesOf(n)
  BY SuffixFacts, SuffixOrder
<1>2. c \in Seq(STRING)
  BY <1>1, SuffixFacts
<1>3. x = Nearest(roots, c)
  BY DEF SameNearest
<1>4. /\ x \in SuffixesOf(n) \cap DOMAIN roots
      /\ \A z \in SuffixesOf(n) \cap DOMAIN roots : Len(z) <= Len(x)
  BY NearestFacts
<1>5. /\ y \in SuffixesOf(m) \cap DOMAIN roots
      /\ \A z \in SuffixesOf(m) \cap DOMAIN roots : Len(z) <= Len(y)
  BY <1>1, NearestFacts
<1>6. Nearest(roots, c) \in SuffixesOf(c)
  BY <1>2, NearestFacts
<1>7. x \in SuffixesOf(m) /\ y \in SuffixesOf(n)
  BY <1>1, <1>3, <1>5, <1>6, SuffixOrder
<1> HIDE DEF x, y
<1>8. Len(x) <= Len(y) /\ Len(y) <= Len(x) /\ Len(x) \in Nat /\ Len(y) \in Nat
  BY <1>4, <1>5, <1>7, SuffixFacts
<1>9. x = y
  <2>1. Len(x) = Len(y)
    BY <1>8
  <2>2. \A s, u \in SuffixesOf(n) : Len(s) = Len(u) => s = u
    BY SuffixFacts
  <2> QED
    BY <1>4, <1>7, <2>1, <2>2
<1> QED
  BY <1>3, <1>9 DEF SameNearest, x, y

-----------------------------------------------------------------------------
(* What is guarded                                                          *)

LEMMA InWorld ==
    ASSUME world \in Worlds
    PROVE  /\ Root \in DOMAIN world.roots
           /\ DOMAIN world.roots \subseteq NameSet /\ NameSet \subseteq Seq(STRING)
BY QueryConstants, Configured

\* Who may speak of a guarded name is asked about guarded names.
LEMMA GuardUp ==
    ASSUME world \in Worlds, NEW n \in NameSet, NEW c \in SuffixesOf(n),
           roots_same(n, c), Guarded(n)
    PROVE  Guarded(c)
<1>1. PICK m \in ProtectedIn(world) :
        dns_domain_suffix(m, n) /\ SameNearest(world.roots, m, n)
  BY DEF Guarded, GuardedIn
<1>2. m \in Seq(STRING) /\ n \in SuffixesOf(m)
  BY <1>1, InWorld, SuffixDef DEF ProtectedIn
<1>3. c \in SuffixesOf(m)
  BY <1>2, SuffixOrder
<1>4. SameNearest(world.roots, m, c)
  BY <1>1 DEF SameNearest, roots_same
<1> QED
  BY <1>1, <1>3, <1>4, SuffixDef DEF Guarded, GuardedIn

LEMMA ProtectedGuarded ==
    ASSUME world \in Worlds, NEW n \in Protected
    PROVE  n \in NameSet /\ Guarded(n)
<1>1. n \in ProtectedIn(world) /\ n \in NameSet /\ n \in Seq(STRING)
  BY InWorld DEF Protected, ProtectedIn
<1>2. dns_domain_suffix(n, n) /\ SameNearest(world.roots, n, n)
  BY <1>1, SuffixFacts, SuffixDef DEF SameNearest
<1> QED
  BY <1>1, <1>2 DEF Guarded, GuardedIn

\* A referral from servers of an unguarded zone leads to no guarded one.
LEMMA ReferralUnguarded ==
    ASSUME world \in Worlds, NEW n \in NameSet, NEW ref \in SuffixesOf(n),
           NEW c \in SuffixesOf(ref), roots_same(n, c)
    PROVE  /\ roots_same(n, ref)
           /\ Guarded(ref) => Guarded(c)
<1>1. n \in Seq(STRING) /\ Root \in DOMAIN world.roots /\ ref \in NameSet
  BY InWorld, QueryConstants
<1>2. SameNearest(world.roots, n, ref) /\ SameNearest(world.roots, ref, c)
  BY <1>1, SameBetween DEF roots_same
<1> QED
  BY <1>1, <1>2, GuardUp DEF roots_same

-----------------------------------------------------------------------------
(* Packets                                                                  *)

\* The records of a type and an owner
Of(S, t, n) == {x \in S : x.type = t /\ x.owner = n}
Told(p) == p.an \cup p.au \cup p.ad

LEMMA ZonesBelowFacts ==
    ASSUME NEW z, Dname \in NameSet, ZonesBelow(z) # {}
    PROVE  LET child == CHOOSE y \in ZonesBelow(z) :
                            \A x \in ZonesBelow(z) : Len(y) <= Len(x)
           IN  child \in Zones \ {Root}
<1> DEFINE Z == ZonesBelow(z)
           lens == {Len(y) : y \in Z}
           child == CHOOSE y \in Z : \A x \in Z : Len(y) <= Len(x)
<1>1. Dname \in Seq(STRING) /\ Len(Dname) \in Nat
  BY QueryConstants, SuffixFacts
<1>2. \A y \in Z : /\ y \in SuffixesOf(Dname) /\ y \in Zones /\ y \in Seq(STRING)
                   /\ Len(y) \in 0 .. Len(Dname) /\ y # z /\ z \in SuffixesOf(y)
  BY <1>1, SuffixFacts, SuffixDef DEF ZonesBelow
<1> HIDE DEF Z
<1>3. lens \in SUBSET (0 .. Len(Dname)) /\ lens # {}
  BY <1>2 DEF Z
<1>4. IsFiniteSet(lens) /\ lens \in SUBSET Nat
  <2>1. IsFiniteSet(0 .. Len(Dname))
    BY <1>1, FS_Interval
  <2> QED
    BY <1>1, <1>3, <2>1, FS_Subset
<1>5. PICK l \in lens : \A k \in lens : l <= k
  BY <1>3, <1>4, Least
<1>6. child \in Z
  <2>1. PICK y \in Z : l = Len(y)
    BY <1>5
  <2>2. \A x \in Z : Len(y) <= Len(x)
    BY <1>5, <2>1
  <2> QED
    BY <2>1, <2>2
<1> HIDE DEF child
<1>7. child # Root
  <2> SUFFICES ASSUME child = Root PROVE FALSE
    OBVIOUS
  <2>1. z \in SuffixesOf(child) /\ child \in SuffixesOf(child) /\ child \in Seq(STRING)
        /\ Len(z) \in 0 .. Len(child) /\ z # child
    BY <1>2, <1>6, SuffixFacts
  <2>2. Len(child) = 0
    BY DEF Root
  <2>3. Len(z) = Len(child)
    BY <2>1, <2>2
  <2> QED
    BY <2>1, <2>3, SuffixFacts
<1> QED
  BY <1>2, <1>6, <1>7 DEF child, Z

\* Of an owner and a type a truthful server tells all or nothing, and what it
\* makes of the question is the truth.
LEMMA TruthfulFacts ==
    ASSUME NEW z, NEW p \in Truthful(z), Dname \in NameSet, Dtype \in Types
    PROVE  /\ \A r \in Told(p) : r \in Truth \/ r.type = "SOA"
           /\ \A t \in Types : \A n : Of(Told(p), t, n) \in {{}, Of(Truth, t, n)}
           /\ Cnames(p) \subseteq TrueData("CNAME", Dname)
           /\ ~OnlyReferral(p) =>
                {r.data : r \in {x \in p.an : x.owner = Dname /\ typematch(x.type, Dtype)}}
                    = TrueData(Dtype, Dname)
           /\ NoData(p) => TrueData(Dtype, Dname) = {}
           /\ p.rcode = 3 => ~Exists(Dname)
           /\ \A r \in p.au : r.type = "NS" => r \in Truth
<1> DEFINE nsrr(c) == {r \in Truth : r.owner = c /\ r.type = "NS"}
           Answers == {r.data : r \in {x \in p.an : x.owner = Dname /\ typematch(x.type, Dtype)}}
<1>0. Dtype \in {"A", "X", "NS", "CNAME"}
  BY DEF Types
<1>1. CASE ZonesBelow(z) = {}
  <2>1. /\ p.an = Has(Dtype) /\ p.ad = {}
        /\ p.au = IF Has(Dtype) = {} THEN {Record(z, "SOA", <<"soa">>)} ELSE {}
    BY <1>1 DEF Truthful
  <2>2. \A x : x \in Has(Dtype) <=>
            x \in Truth /\ x.owner = Dname /\ (x.type = Dtype \/ x.type = "CNAME")
    BY DEF Has
  <2>3. Record(z, "SOA", <<"soa">>).type = "SOA"
    BY DEF Record
  <2> HIDE DEF Has
  <2>4. \A r \in Told(p) : \/ r \in Has(Dtype)
                           \/ r.type = "SOA" /\ Has(Dtype) = {}
    BY <2>1, <2>3 DEF Told
  <2>5. \A r \in Has(Dtype) : r \in Told(p)
    BY <2>1 DEF Told
  <2>6. ASSUME NEW t \in Types, NEW n
        PROVE  Of(Told(p), t, n) \in {{}, Of(Truth, t, n)}
    <3>1. t # "SOA"
      BY DEF Types
    <3>2. CASE n = Dname /\ t \in {Dtype, "CNAME"}
      <4>1. Of(Told(p), t, n) = Of(Truth, t, n)
        BY <2>2, <2>4, <2>5, <3>1, <3>2 DEF Of
      <4> QED
        BY <4>1
    <3>3. CASE ~(n = Dname /\ t \in {Dtype, "CNAME"})
      <4>1. Of(Told(p), t, n) = {}
        BY <2>2, <2>4, <3>1, <3>3 DEF Of
      <4> QED
        BY <4>1
    <3> QED
      BY <3>2, <3>3
  <2>7. Cnames(p) \subseteq TrueData("CNAME", Dname)
    BY <2>1, <2>2 DEF Cnames, TrueData
  <2>8. Answers = TrueData(Dtype, Dname)
    BY <2>1, <2>2 DEF TrueData, typematch
  <2>9. ASSUME NoData(p) PROVE TrueData(Dtype, Dname) = {}
    <3>1. Has(Dtype) = {}
      BY <2>1, <2>9 DEF NoData, Soa
    <3> QED
      BY <2>2, <3>1 DEF TrueData
  <2>10. \A r \in p.au : r.type # "NS"
    BY <2>1, <2>3
  <2>11. p.rcode = 3 => ~Exists(Dname)
    BY <1>1 DEF Truthful
  <2> QED
    BY <2>2, <2>4, <2>6, <2>7, <2>8, <2>9, <2>10, <2>11
<1>2. CASE ZonesBelow(z) # {}
  <2> DEFINE child == CHOOSE y \in ZonesBelow(z) : \A x \in ZonesBelow(z) : Len(y) <= Len(x)
  <2>1. child \in Zones \ {Root}
    BY <1>2, ZonesBelowFacts
  <2>2. /\ p.rcode = 0 /\ p.an = {} /\ p.au = nsrr(child)
        /\ p.ad = {r \in Truth : r.type = "A" /\ \E s \in nsrr(child) : s.data = r.owner}
    BY <1>2 DEF Truthful
  <2> HIDE DEF child
  <2> DEFINE sends(n) == \E s \in nsrr(child) : s.data = n
  <2>3. \A x : x \in Told(p) <=>
            x \in Truth /\ (\/ x.owner = child /\ x.type = "NS"
                            \/ x.type = "A" /\ sends(x.owner))
    BY <2>2 DEF Told
  <2> HIDE DEF sends
  <2>4. ASSUME NEW t \in Types, NEW n
        PROVE  Of(Told(p), t, n) \in {{}, Of(Truth, t, n)}
    <3>1. CASE (t = "NS" /\ n = child) \/ (t = "A" /\ sends(n))
      <4>1. Of(Told(p), t, n) = Of(Truth, t, n)
        BY <2>3, <3>1 DEF Of
      <4> QED
        BY <4>1
    <3>2. CASE ~((t = "NS" /\ n = child) \/ (t = "A" /\ sends(n)))
      <4>1. Of(Told(p), t, n) = {}
        BY <2>3, <3>2 DEF Of
      <4> QED
        BY <4>1
    <3> QED
      BY <3>1, <3>2
  <2>5. OnlyReferral(p)
    <3>1. PICK r \in Truth : r.owner = child /\ r.type = "NS"
      BY <2>1, Configured
    <3>2. Referrals(p) # {}
      BY <2>2, <3>1 DEF Referrals
    <3> QED
      BY <2>2, <3>2 DEF OnlyReferral, Out, Soa
  <2>6. Cnames(p) = {} /\ ~NoData(p)
    BY <2>2 DEF Cnames, NoData, Soa
  <2>7. \A r \in p.au : r \in Truth
    BY <2>2
  <2>8. p.rcode # 3
    BY <2>2
  <2> QED
    BY <2>3, <2>4, <2>5, <2>6, <2>7, <2>8
<1> QED
  BY <1>1, <1>2

\* The records of any packet are records with names of the model.
LEMMA PacketFacts ==
    ASSUME NEW a, NEW p \in Says(a), Dname \in NameSet, Dtype \in Types
    PROVE  /\ \A r \in Told(p) : r \in AnyRecord \/ r.type = "SOA"
           /\ p.rcode \in {0, 3}
           /\ a \in world.honest => p \in Truthful(Serves[a])
<1>1. CASE a \in world.honest
  <2>1. p \in Truthful(Serves[a])
    BY <1>1 DEF Says
  <2>2. p.rcode \in {0, 3}
    BY <2>1 DEF Truthful
  <2> QED
    BY <1>1, <2>1, <2>2, TruthfulFacts DEF AnyRecord
<1>2. CASE a \notin world.honest
  <2>1. p \in Lies
    BY <1>2 DEF Says
  <2> QED
    BY <1>2, <2>1 DEF Lies, SomeOf, AnyRecord, Told
<1> QED
  BY <1>1, <1>2

-----------------------------------------------------------------------------
(* The cache                                                                *)

CacheTyped(c) ==
    /\ c \in [(Types \cup {"ANY"}) \X NameSet -> [known : BOOLEAN, data : SUBSET SomeData]]
    /\ \A n \in NameSet : c[<<"NS", n>>].data \cup c[<<"CNAME", n>>].data \subseteq NameSet

CacheTrue(c) ==
    \A t \in Types \cup {"ANY"}, n \in NameSet :
        Guarded(n) /\ c[<<t, n>>].known =>
            Right(t, n, c[<<t, n>>].data)

LEMMA CacheFacts ==
    ASSUME CacheTyped(cache)
    PROVE  TrueCache <=> CacheTrue(cache)
<1>1. DOMAIN cache = (Types \cup {"ANY"}) \X NameSet
  BY DEF CacheTyped
<1>2. ASSUME TrueCache PROVE CacheTrue(cache)
  <2> SUFFICES ASSUME NEW t \in Types \cup {"ANY"}, NEW n \in NameSet,
                      Guarded(n), cache[<<t, n>>].known
               PROVE  Right(t, n, cache[<<t, n>>].data)
    BY DEF CacheTrue
  <2>1. <<t, n>> \in DOMAIN cache /\ <<t, n>>[1] = t /\ <<t, n>>[2] = n
    BY <1>1
  <2> QED
    BY <1>2, <2>1 DEF TrueCache
<1>3. ASSUME CacheTrue(cache) PROVE TrueCache
  <2> SUFFICES ASSUME NEW k \in DOMAIN cache, Guarded(k[2]), cache[k].known
               PROVE  Right(k[1], k[2], cache[k].data)
    BY DEF TrueCache
  <2>1. k[1] \in Types \cup {"ANY"} /\ k[2] \in NameSet /\ k = <<k[1], k[2]>>
    BY <1>1
  <2> QED
    BY <1>3, <2>1 DEF CacheTrue
<1> QED
  BY <1>2, <1>3

\* Something is stored: nothing, where that is true.
LEMMA StoreNothing ==
    ASSUME NEW c, CacheTyped(c), CacheTrue(c), NEW t \in Types \cup {"ANY"}, NEW n \in NameSet,
           Guarded(n) => Right(t, n, {})
    PROVE  CacheTyped(Store(c, t, n, {})) /\ CacheTrue(Store(c, t, n, {}))
<1> DEFINE d == Store(c, t, n, {})
           none == [known |-> TRUE, data |-> {}]
           D == (Types \cup {"ANY"}) \X NameSet
           R == [known : BOOLEAN, data : SUBSET SomeData]
<1>1. c \in [D -> R] /\ d = [c EXCEPT ![<<t, n>>] = none] /\ none \in R
  BY DEF CacheTyped, Store
<1> HIDE DEF d, R, D
<1>2. /\ d \in [D -> R] /\ \A k \in D : d[k] = IF k = <<t, n>> THEN none ELSE c[k]
  BY <1>1
<1>3. ASSUME NEW u \in Types \cup {"ANY"}, NEW m \in NameSet
      PROVE  d[<<u, m>>] = IF u = t /\ m = n THEN none ELSE c[<<u, m>>]
  <2>1. <<u, m>> \in D /\ (<<u, m>> = <<t, n>> <=> u = t /\ m = n)
    BY DEF D
  <2> QED
    BY <1>2, <2>1
<1> HIDE DEF none
<1>4. none.known = TRUE /\ none.data = {}
  BY DEF none
<1>5. \A m \in NameSet : d[<<"NS", m>>].data \cup d[<<"CNAME", m>>].data \subseteq NameSet
  <2> TAKE m \in NameSet
  <2>1. "NS" \in Types \cup {"ANY"} /\ "CNAME" \in Types \cup {"ANY"}
    BY DEF Types
  <2>2. /\ d[<<"NS", m>>] = none \/ d[<<"NS", m>>] = c[<<"NS", m>>]
        /\ d[<<"CNAME", m>>] = none \/ d[<<"CNAME", m>>] = c[<<"CNAME", m>>]
    BY <1>3, <2>1
  <2>3. c[<<"NS", m>>].data \cup c[<<"CNAME", m>>].data \subseteq NameSet
    BY DEF CacheTyped
  <2> QED
    BY <1>4, <2>2, <2>3
<1>6. CacheTrue(d)
  <2> SUFFICES ASSUME NEW u \in Types \cup {"ANY"}, NEW m \in NameSet,
                      Guarded(m), d[<<u, m>>].known
               PROVE  Right(u, m, d[<<u, m>>].data)
    BY DEF CacheTrue
  <2>1. CASE u = t /\ m = n
    <3>1. d[<<u, m>>].data = {}
      BY <1>3, <1>4, <2>1
    <3> QED
      BY <2>1, <3>1
  <2>2. CASE ~(u = t /\ m = n)
    <3>1. d[<<u, m>>] = c[<<u, m>>]
      BY <1>3, <2>2
    <3> QED
      BY <3>1 DEF CacheTrue
  <2> QED
    BY <2>1, <2>2
<1> QED
  BY <1>2, <1>5, <1>6 DEF CacheTyped, d, R, D

\* What a packet says is believed: the truth, of guarded names, if only truthful
\* servers were asked where they may be.
LEMMA BelievedFacts ==
    ASSUME Fields, TrueCache, NEW a, NEW p \in Says(a),
           Guarded(control[level]) => a \in world.honest
    PROVE  CacheTyped(CachedFrom(p)) /\ CacheTrue(CachedFrom(p))
<1> DEFINE D == (Types \cup {"ANY"}) \X NameSet
           R == [known : BOOLEAN, data : SUBSET SomeData]
           data(t, n) == {r.data : r \in Of(Believed(p), t, n)}
           c == CachedFrom(p)
<1>1. /\ CacheTyped(cache) /\ cache \in [D -> R] /\ world \in Worlds
      /\ Dname \in NameSet /\ Dtype \in Types /\ control[level] \in NameSet
      /\ level \in Levels
  BY DEF Fields, CacheTyped, Dname, Dtype, Levels, Types
<1>2. /\ \A r \in Told(p) : r \in AnyRecord \/ r.type = "SOA"
      /\ a \in world.honest => p \in Truthful(Serves[a])
  BY <1>1, PacketFacts
<1>3. \A r \in Believed(p) : /\ r \in AnyRecord /\ r \in Told(p) /\ r.type \in Types
                             /\ dns_domain_suffix(r.owner, control[level])
                             /\ roots_same(r.owner, control[level])
  BY <1>2 DEF Believed, Told, Types
<1>4. \A k \in D : c[k] = IF data(k[1], k[2]) = {} THEN cache[k]
                          ELSE [known |-> TRUE, data |-> data(k[1], k[2])]
  BY <1>1 DEF CachedFrom, Of
<1>5. DOMAIN c = D /\ c = [k \in D |-> c[k]]
  BY <1>1 DEF CachedFrom
<1> HIDE DEF c
<1>6. ASSUME NEW t \in Types \cup {"ANY"}, NEW n \in NameSet
      PROVE  /\ data(t, n) = {} => c[<<t, n>>] = cache[<<t, n>>]
             /\ data(t, n) # {} => c[<<t, n>>].data = data(t, n)
  <2>1. <<t, n>> \in D /\ <<t, n>>[1] = t /\ <<t, n>>[2] = n
    OBVIOUS
  <2> DEFINE x == data(t, n)
  <2>2. c[<<t, n>>] = IF x = {} THEN cache[<<t, n>>] ELSE [known |-> TRUE, data |-> x]
    BY <1>4, <2>1
  <2> HIDE DEF x
  <2>3. /\ x = {} => c[<<t, n>>] = cache[<<t, n>>]
        /\ x # {} => c[<<t, n>>].data = x
    BY <2>2
  <2> QED
    BY <2>3 DEF x
<1>7. ASSUME NEW t, NEW n
      PROVE  data(t, n) \in SUBSET SomeData /\ (t \in {"NS", "CNAME"} => data(t, n) \subseteq NameSet)
  BY <1>3, QueryConstants DEF Of, SomeData
<1>8. c \in [D -> R]
  <2>1. \A k \in D : data(k[1], k[2]) \in SUBSET SomeData
    BY <1>7
  <2> HIDE DEF data
  <2>2. \A k \in D : cache[k] \in R
    BY <1>1
  <2>3. \A k \in D : [known |-> TRUE, data |-> data(k[1], k[2])] \in R
    BY <2>1
  <2>4. \A k \in D : c[k] \in R
    BY <1>4, <2>2, <2>3
  <2> HIDE DEF D, R
  <2> QED
    BY <1>5, <2>4
<1>9. \A n \in NameSet : c[<<"NS", n>>].data \cup c[<<"CNAME", n>>].data \subseteq NameSet
  <2> TAKE n \in NameSet
  <2>1. "NS" \in Types \cup {"ANY"} /\ "CNAME" \in Types \cup {"ANY"}
    BY DEF Types
  <2>2. cache[<<"NS", n>>].data \cup cache[<<"CNAME", n>>].data \subseteq NameSet
    BY <1>1 DEF CacheTyped
  <2>3. data("NS", n) \subseteq NameSet /\ data("CNAME", n) \subseteq NameSet
    BY <1>7
  <2> HIDE DEF data
  <2>4. c[<<"NS", n>>].data \subseteq NameSet
    BY <1>6, <2>1, <2>2, <2>3
  <2>5. c[<<"CNAME", n>>].data \subseteq NameSet
    BY <1>6, <2>1, <2>2, <2>3
  <2> QED
    BY <2>4, <2>5
<1>10. ASSUME NEW t \in Types \cup {"ANY"}, NEW n \in NameSet, Guarded(n), data(t, n) # {}
       PROVE  t # "ANY" /\ data(t, n) = TrueData(t, n)
  <2>1. PICK r \in Of(Believed(p), t, n) : TRUE
    BY <1>10
  <2>2. /\ t \in Types /\ t # "ANY"
        /\ dns_domain_suffix(n, control[level]) /\ roots_same(n, control[level])
    BY <1>3, <2>1 DEF Of, Types
  <2>3. Guarded(control[level])
    BY <1>1, <1>10, <2>2, GuardUp, SuffixDef
  <2>4. p \in Truthful(Serves[a])
    BY <1>2, <2>3
  <2>5. Of(Believed(p), t, n) = Of(Told(p), t, n)
    BY <2>2 DEF Of, Believed, Told
  <2>6. Of(Told(p), t, n) \in {{}, Of(Truth, t, n)}
    BY <1>1, <2>2, <2>4, TruthfulFacts
  <2>7. Of(Believed(p), t, n) = Of(Truth, t, n)
    BY <2>1, <2>5, <2>6
  <2>8. TrueData(t, n) = {x.data : x \in Of(Truth, t, n)}
    BY DEF TrueData, Of
  <2> QED
    BY <2>2, <2>7, <2>8
<1>11. CacheTrue(cache)
  BY <1>1, CacheFacts
<1>12. CacheTrue(c)
  <2> SUFFICES ASSUME NEW t \in Types \cup {"ANY"}, NEW n \in NameSet,
                      Guarded(n), c[<<t, n>>].known
               PROVE  Right(t, n, c[<<t, n>>].data)
    BY DEF CacheTrue
  <2> HIDE DEF data
  <2>1. CASE data(t, n) = {}
    BY <1>6, <1>11, <2>1 DEF CacheTrue
  <2>2. CASE data(t, n) # {}
    <3>1. c[<<t, n>>].data = data(t, n)
      BY <1>6, <2>2
    <3> QED
      BY <1>10, <2>2, <3>1 DEF Right
  <2> QED
    BY <2>1, <2>2
<1> QED
  BY <1>8, <1>9, <1>12 DEF CacheTyped, c

-----------------------------------------------------------------------------
(* The steps                                                                *)

\* What a step of doit leaves alone, or changes rightly
Framed ==
    /\ world' = world /\ type' = type /\ loop' \in 0 .. LoopMax
    /\ CacheTyped(cache)' /\ CacheTrue(cache)'

LEMMA FieldFacts ==
    ASSUME Fields
    PROVE  /\ Dname \in NameSet /\ Dtype \in Types /\ level \in Nat /\ level \in Levels
           /\ 0 \in Levels /\ name[0] \in NameSet /\ control[level] \in NameSet
           /\ world \in Worlds /\ CacheTyped(cache) /\ NameSet \subseteq Seq(STRING)
           /\ MaxLevel \in Nat \ {0} /\ LoopMax \in Nat
           /\ \A l \in 0 .. level : l \in Levels /\ name[l] \in NameSet /\ control[l] \in NameSet
<1>1. MaxLevel \in Nat \ {0} /\ LoopMax \in Nat /\ NameSet \subseteq Seq(STRING)
  BY QueryConstants
<1>2. level \in Levels /\ level \in Nat /\ 0 \in Levels /\ \A l \in 0 .. level : l \in Levels
  BY <1>1 DEF Fields, Levels
<1>3. CacheTyped(cache) /\ world \in Worlds
  BY DEF Fields, CacheTyped
<1>4. /\ \A l \in Levels : name[l] \in NameSet /\ control[l] \in NameSet
      /\ Dtype \in Types
  BY DEF Fields, Dtype, Types
<1> QED
  BY <1>1, <1>2, <1>3, <1>4 DEF Dname

LEMMA WorldStays ==
    ASSUME world' = world, NEW z, NEW n, NEW t
    PROVE  /\ Guarded(z)' <=> Guarded(z)
           /\ roots_same(n, z)' <=> roots_same(n, z)
           /\ SomeData' = SomeData
           /\ Protected' = Protected
           /\ TrueData(t, n)' = TrueData(t, n)
BY DEF Guarded, roots_same, SomeData, Protected, TrueData

\* The cache is not touched.
LEMMA CacheStays ==
    ASSUME Fields, TrueCache, world' = world, cache' = cache
    PROVE  CacheTyped(cache)' /\ CacheTrue(cache)'
<1>1. CacheTyped(cache) /\ CacheTrue(cache)
  BY FieldFacts, CacheFacts
<1>2. SomeData' = SomeData /\ \A n : Guarded(n)' <=> Guarded(n)
  BY WorldStays
<1>3. CacheTyped(cache)'
  BY <1>1, <1>2 DEF CacheTyped
<1>4. CacheTrue(cache)'
  BY <1>1, <1>2 DEF CacheTrue, Right, TrueData
<1> QED
  BY <1>3, <1>4

LEMMA CacheEnd ==
    ASSUME Framed
    PROVE  TrueCache'
BY CacheFacts, PTL DEF Framed

\* The query ends.
LEMMA CleanStep ==
    ASSUME QueryIInv, cleanup, Framed, AnswerIsTrue'
    PROVE  QueryIInv'
<1>1. /\ at' = "idle" /\ level' = 0 /\ alias' = <<>> /\ cname' = Root
      /\ name' = [l \in Levels |-> Root] /\ control' = [l \in Levels |-> Root]
      /\ ns' = [l \in Levels |-> {}] /\ zservers' = [l \in Levels |-> {}]
  BY DEF cleanup
<1>2. /\ Root \in NameSet /\ 0 \in Levels /\ MaxAlias \in Nat
      /\ type \in Types /\ world \in Worlds
  BY QueryConstants, FieldFacts DEF QueryIInv, Fields
<1>3. Fields'
  <2>1. /\ name' \in [Levels -> NameSet] /\ control' \in [Levels -> NameSet]
        /\ ns' \in [Levels -> SUBSET (NameSet \cap SomeData')]
        /\ zservers' \in [Levels -> SUBSET SomeData']
    BY <1>1, <1>2
  <2>2. alias' \in Seq(NameSet) /\ Len(alias') <= MaxAlias
    BY <1>1, <1>2
  <2> QED
    BY <1>1, <1>2, <2>1, <2>2 DEF Fields, Framed, CacheTyped
<1>4. InUse' = {} /\ 1 .. level' = {} /\ 1 .. Len(alias') = {}
  BY <1>1 DEF InUse
<1>5. Steered' /\ Led' /\ TrueFound' /\ TrueChain'
  BY <1>1, <1>4 DEF Steered, Led, TrueFound, TrueChain
<1> QED
  BY <1>3, <1>5, CacheEnd DEF QueryIInv

LEMMA DieStep ==
    ASSUME QueryIInv, DIE, Framed
    PROVE  QueryIInv'
<1>1. cleanup /\ AnswerIsTrue'
  BY DEF DIE, AnswerIsTrue, NoReply
<1> QED
  BY <1>1, CleanStep

\* An answer is given: what it says of the name reached is true.
LEMMA ReplyStep ==
    ASSUME QueryIInv, NEW data, NEW rcode, Answer(data, rcode), Framed,
           name[0] \in Protected \ LocalNames =>
                /\ rcode = "ok" => data = TrueData(type, name[0])
                /\ rcode = "NXDOMAIN" => ~Exists(name[0])
    PROVE  QueryIInv'
<1> DEFINE chain == alias \o <<name[0]>>
<1>1. /\ cleanup /\ reply' = [chain |-> chain, data |-> data, rcode |-> rcode]
      /\ world' = world /\ type' = type
  BY DEF Answer, rqa, rarely
<1>2. alias \in Seq(NameSet) /\ name[0] \in NameSet
  BY FieldFacts DEF QueryIInv, Fields
<1>3. /\ Len(alias) \in Nat /\ Len(chain) = Len(alias) + 1 /\ chain[Len(alias) + 1] = name[0]
  BY <1>2
<1>4. \A i \in 1 .. Len(alias) :
        chain[i] \in Protected => chain[i + 1] \in TrueData("CNAME", chain[i])
  BY DEF QueryIInv, TrueChain
<1> HIDE DEF chain
<1>5. AnswerIsTrue'
  <2>1. reply'.chain = chain /\ reply'.data = data /\ reply'.rcode = rcode
    BY <1>1
  <2>2. chain[Len(chain)] = name[0] /\ Len(chain) - 1 = Len(alias)
    BY <1>3
  <2>3. Protected' = Protected
    BY <1>1, WorldStays
  <2> SUFFICES /\ name[0] \in Protected \ LocalNames =>
                        /\ rcode = "ok" => data = TrueData(type, name[0])
                        /\ rcode = "NXDOMAIN" => ~Exists(name[0])
               /\ \A i \in 1 .. Len(alias) :
                      chain[i] \in Protected => chain[i + 1] \in TrueData("CNAME", chain[i])
    BY <1>1, <2>1, <2>2, <2>3 DEF AnswerIsTrue, TrueData
  <2> QED
    BY <1>4
<1> QED
  BY <1>1, <1>5, CleanStep

\* The conjuncts of the invariant, by level
LEMMA InvFacts ==
    ASSUME QueryIInv
    PROVE  /\ Fields /\ TrueCache /\ CacheTrue(cache)
           /\ \A l \in InUse : /\ name[l] \in NameSet /\ control[l] \in SuffixesOf(name[l])
                               /\ roots_same(name[l], control[l])
                               /\ Guarded(control[l]) =>
                                    zservers[l] \subseteq world.honest /\ ns[l] \subseteq world.leads
           /\ \A l \in 1 .. level : Guarded(control[l - 1]) => name[l] \in world.leads
           /\ \A l \in InUse : l \in 0 .. level
<1>1. Fields /\ TrueCache /\ CacheTrue(cache)
  BY FieldFacts, CacheFacts DEF QueryIInv
<1>2. \A l \in InUse : l \in 0 .. level
  BY <1>1, FieldFacts DEF InUse
<1>3. \A l \in InUse : /\ name[l] \in NameSet /\ control[l] \in SuffixesOf(name[l])
                       /\ roots_same(name[l], control[l])
                       /\ Guarded(control[l]) =>
                            zservers[l] \subseteq world.honest /\ ns[l] \subseteq world.leads
  <2>1. Steered /\ \A l \in 0 .. level : name[l] \in NameSet
    BY <1>1, FieldFacts DEF QueryIInv
  <2> QED
    BY <1>2, <2>1, SuffixDef DEF Steered
<1> QED
  BY <1>1, <1>2, <1>3 DEF QueryIInv, Led

\* The parts of the invariant put together again after a step
LEMMA Together ==
    ASSUME Fields', Framed, at' # "idle", TrueFound', TrueChain',
           \A l \in InUse' : /\ control'[l] \in SuffixesOf(name'[l])
                             /\ roots_same(name'[l], control'[l])
                             /\ Guarded(control'[l]) =>
                                  zservers'[l] \subseteq world.honest /\ ns'[l] \subseteq world.leads,
           \A l \in 1 .. level' : Guarded(control'[l - 1]) => name'[l] \in world.leads
    PROVE  QueryIInv'
<1>1. world' = world
  BY DEF Framed
<1>2. Steered'
  <2>1. ASSUME NEW l \in InUse'
        PROVE  /\ dns_domain_suffix(name'[l], control'[l])
               /\ SameNearest(world.roots, name'[l], control'[l])
               /\ GuardedIn(world, control'[l]) =>
                    zservers'[l] \subseteq world.honest /\ ns'[l] \subseteq world.leads
    BY SuffixDef DEF roots_same, Guarded
  <2> QED
    BY <1>1, <2>1 DEF Steered, roots_same, Guarded
<1>3. Led'
  BY <1>1 DEF Led, Guarded
<1>4. TrueCache' /\ AnswerIsTrue'
  BY CacheEnd DEF AnswerIsTrue
<1> QED
  BY <1>2, <1>3, <1>4 DEF QueryIInv

\* Nothing is added to what the levels have.
LEMMA GotoStep ==
    ASSUME QueryIInv, Framed, UNCHANGED <<level, name, control, alias>>,
           NEW label \in {"NEWNAME", "HAVENS", "WAIT", "NXDOMAIN", "SERVFAIL", "CNAME"},
           at' = label, label \in {"HAVENS", "WAIT"} => at \in {"HAVENS", "WAIT"},
           ns' \in [Levels -> SUBSET (NameSet \cap SomeData)], zservers' \in [Levels -> SUBSET SomeData],
           \A l \in Levels : zservers'[l] \subseteq zservers[l] /\ ns'[l] \subseteq ns[l],
           cname' \in NameSet,
           Guarded(Dname) => /\ label = "CNAME" => cname' \in TrueData("CNAME", Dname)
                             /\ label = "NXDOMAIN" => ~Exists(Dname)
    PROVE  QueryIInv'
<1>1. Fields /\ world' = world /\ type' = type /\ SomeData' = SomeData
  BY WorldStays DEF QueryIInv, Framed
<1>2. Fields'
  BY <1>1 DEF Fields, Framed, CacheTyped
<1>3. InUse' \subseteq InUse /\ \A l \in InUse : l \in Levels
  <2>1. level' = level /\ level \in Nat /\ (at' \in {"HAVENS", "WAIT"} => at \in {"HAVENS", "WAIT"})
    BY <1>1, FieldFacts
  <2>2. \A m \in Nat : 0 .. m - 1 \subseteq 0 .. m
    OBVIOUS
  <2>3. InUse' \subseteq InUse
    BY <2>1, <2>2 DEF InUse
  <2> QED
    BY <1>1, <2>3, InvFacts, FieldFacts
<1>4. \A l \in InUse' : /\ control'[l] \in SuffixesOf(name'[l])
                        /\ roots_same(name'[l], control'[l])
                        /\ Guarded(control'[l]) =>
                             zservers'[l] \subseteq world.honest /\ ns'[l] \subseteq world.leads
  <2> SUFFICES ASSUME NEW l \in InUse'
               PROVE  /\ control[l] \in SuffixesOf(name[l])
                      /\ roots_same(name[l], control[l])
                      /\ Guarded(control[l]) =>
                           zservers'[l] \subseteq world.honest /\ ns'[l] \subseteq world.leads
    OBVIOUS
  <2>1. zservers'[l] \subseteq zservers[l] /\ ns'[l] \subseteq ns[l] /\ l \in InUse
    BY <1>3
  <2> QED
    BY <2>1, InvFacts
<1>5. \A l \in 1 .. level' : Guarded(control'[l - 1]) => name'[l] \in world.leads
  BY InvFacts
<1>6. TrueFound'
  BY <1>1 DEF TrueFound, Guarded, Dname, TrueData
<1>7. TrueChain'
  BY <1>1 DEF QueryIInv, TrueChain, Protected, TrueData
<1> QED
  BY <1>2, <1>4, <1>5, <1>6, <1>7, Together

\* A step that leaves the levels in use as they were, below the one it works at
LEMMA BelowFacts ==
    ASSUME QueryIInv
    PROVE  /\ 0 .. level - 1 \subseteq InUse
           /\ \A l \in 0 .. level - 1 : l \in Levels /\ l # level
           /\ at \in {"HAVENS", "WAIT"} => level \in InUse /\ InUse = 0 .. level
           /\ at \notin {"HAVENS", "WAIT"} => InUse = 0 .. level - 1
<1>1. level \in Nat /\ \A l \in 0 .. level : l \in Levels
  BY FieldFacts, InvFacts
<1> QED
  BY <1>1 DEF InUse

\* Addresses found serve the level above.
LEMMA LowerStep ==
    ASSUME QueryIInv, Framed, level > 0, NEW addresses \in SUBSET SomeData, LowerWith(addresses),
           name[level] \in world.leads => addresses \subseteq world.honest
    PROVE  QueryIInv'
<1>1. /\ Fields /\ world' = world /\ type' = type /\ SomeData' = SomeData
      /\ level' = level /\ name' = name /\ control' = control /\ ns' = ns
      /\ alias' = alias /\ cname' = cname /\ at' = "LOWERLEVEL"
      /\ zservers' = [zservers EXCEPT ![level - 1] = @ \cup addresses]
  BY WorldStays DEF QueryIInv, Framed, LowerWith, Goto
<1>2. /\ level \in Levels /\ level \in Nat /\ level - 1 \in Levels
      /\ zservers \in [Levels -> SUBSET SomeData]
  <2>1. level \in Levels /\ level \in Nat /\ MaxLevel \in Nat
    BY <1>1, FieldFacts
  <2> QED
    BY <1>1, <2>1 DEF Fields, Levels
<1>3. /\ zservers' \in [Levels -> SUBSET SomeData]
      /\ \A l \in Levels : zservers'[l] = IF l = level - 1 THEN zservers[l] \cup addresses ELSE zservers[l]
  BY <1>1, <1>2
<1>4. Fields'
  BY <1>1, <1>3 DEF Fields, Framed, CacheTyped
<1>5. InUse' = 0 .. level - 1
  BY <1>1 DEF InUse
<1>6. \A l \in InUse' : /\ control'[l] \in SuffixesOf(name'[l])
                        /\ roots_same(name'[l], control'[l])
                        /\ Guarded(control'[l]) =>
                             zservers'[l] \subseteq world.honest /\ ns'[l] \subseteq world.leads
  <2> SUFFICES ASSUME NEW l \in 0 .. level - 1
               PROVE  /\ control[l] \in SuffixesOf(name[l])
                      /\ roots_same(name[l], control[l])
                      /\ Guarded(control[l]) =>
                           zservers'[l] \subseteq world.honest /\ ns[l] \subseteq world.leads
    BY <1>1, <1>5
  <2>1. l \in InUse /\ l \in Levels
    BY BelowFacts
  <2>2. Guarded(control[l]) /\ l = level - 1 => addresses \subseteq world.honest
    <3>1. level \in 1 .. level
      BY <1>2
    <3> QED
      BY <3>1, InvFacts
  <2> QED
    BY <1>3, <2>1, <2>2, InvFacts
<1>7. \A l \in 1 .. level' : Guarded(control'[l - 1]) => name'[l] \in world.leads
  BY <1>1, InvFacts
<1>8. TrueFound' /\ TrueChain'
  BY <1>1 DEF QueryIInv, TrueFound, TrueChain, Protected, TrueData
<1> QED
  BY <1>1, <1>4, <1>6, <1>7, <1>8, Together

\* What the name server a guarded zone is led to by has for addresses
LEMMA LeadFacts ==
    ASSUME world \in Worlds, NEW n \in world.leads
    PROVE  /\ n \in NameSet \ LocalNames /\ Guarded(n)
           /\ TrueData("A", n) \subseteq world.honest
           /\ TrueData("CNAME", n) \subseteq world.leads
BY OnlyTruthLeads DEF Guarded, TrueData

\* Addresses are known for a lower level, or the answer for the client.
LEMMA KnownStep ==
    ASSUME QueryIInv, Framed, NEW data \in SUBSET SomeData, Known(data),
           Guarded(Dname) /\ Dname \notin LocalNames => data = TrueData(Dtype, Dname)
    PROVE  QueryIInv'
<1>1. Fields /\ world \in Worlds /\ level \in Nat
  BY InvFacts, FieldFacts
<1>2. CASE level > 0
  <2>1. LowerWith(data) /\ Dtype = "A"
    BY <1>2 DEF Known, Dtype
  <2>2. name[level] \in world.leads => data \subseteq world.honest
    BY <1>1, <2>1, LeadFacts DEF Dname
  <2> QED
    BY <1>2, <2>1, <2>2, LowerStep
<1>3. CASE level = 0
  <2>1. Answer(data, "ok") /\ Dtype = type /\ Dname = name[0]
    BY <1>3 DEF Known, Dtype, Dname
  <2>2. name[0] \in Protected \ LocalNames => data = TrueData(type, name[0])
    BY <1>1, <2>1, ProtectedGuarded
  <2> QED
    BY <2>1, <2>2, ReplyStep
<1> QED
  BY <1>1, <1>2, <1>3

\* What is cached is of the model, and true of what is guarded.
LEMMA ValueFacts ==
    ASSUME QueryIInv, NEW t \in Types \cup {"ANY"}, NEW n \in NameSet, cache[<<t, n>>].known
    PROVE  /\ cache[<<t, n>>].data \subseteq SomeData
           /\ t \in {"NS", "CNAME"} => cache[<<t, n>>].data \subseteq NameSet
           /\ Guarded(n) => Right(t, n, cache[<<t, n>>].data)
<1>1. CacheTyped(cache) /\ CacheTrue(cache)
  BY InvFacts, FieldFacts
<1>2. cache[<<t, n>>] \in [known : BOOLEAN, data : SUBSET SomeData]
  BY <1>1 DEF CacheTyped
<1>3. t \in {"NS", "CNAME"} => cache[<<t, n>>].data \subseteq NameSet
  BY <1>1 DEF CacheTyped
<1>4. Guarded(n) => Right(t, n, cache[<<t, n>>].data)
  BY <1>1 DEF CacheTrue
<1> QED
  BY <1>2, <1>3, <1>4

LEMMA NothingSaid ==
    ASSUME QueryIInv, world' = world, type' = type, cache' = cache, InTime \/ loop' = loop \/ loop' = LoopMax
    PROVE  Framed
<1>1. Fields /\ TrueCache /\ loop' \in 0 .. LoopMax
  BY QueryConstants DEF QueryIInv, Fields, InTime
<1> QED
  BY <1>1, CacheStays DEF Framed

LEMMA StepTooLong ==
    ASSUME QueryIInv, TooLong
    PROVE  QueryIInv'
BY NothingSaid, DieStep DEF TooLong, DIE, rarely

LEMMA Stepglobalip ==
    ASSUME QueryIInv, globalip
    PROVE  QueryIInv'
<1> DEFINE data == IF typematch("A", Dtype) THEN {<<"127.0.0.1">>} ELSE {}
<1>1. InTime /\ Dname \in LocalNames /\ Known(data) /\ cache' = cache
  BY DEF globalip
<1>2. data \in SUBSET SomeData
  BY DEF SomeData
<1> HIDE DEF data
<1>3. world' = world /\ type' = type
  BY <1>1 DEF Known, LowerWith, Answer, Goto, rarely
<1> QED
  BY <1>1, <1>2, <1>3, NothingSaid, KnownStep

\* The fields that a step which only goes on leaves as they were
LEMMA SameFields ==
    ASSUME QueryIInv
    PROVE  /\ ns \in [Levels -> SUBSET (NameSet \cap SomeData)] /\ zservers \in [Levels -> SUBSET SomeData]
           /\ cname \in NameSet /\ control \in [Levels -> NameSet] /\ name \in [Levels -> NameSet]
           /\ alias \in Seq(NameSet)
           /\ Dname \in NameSet /\ Dtype \in Types /\ level \in Nat /\ level \in Levels
           /\ world \in Worlds
BY FieldFacts DEF QueryIInv, Fields

LEMMA StepCachedNxdomain ==
    ASSUME QueryIInv, CachedNxdomain
    PROVE  QueryIInv'
<1>1. /\ Framed /\ UNCHANGED <<level, name, control, alias>> /\ at' = "NXDOMAIN"
      /\ ns' = ns /\ zservers' = zservers /\ cname' = cname
  BY NothingSaid DEF CachedNxdomain, Goto, rarely
<1>2. Guarded(Dname) => ~Exists(Dname)
  BY SameFields, ValueFacts DEF CachedNxdomain, Cached, Right
<1> QED
  BY <1>1, <1>2, SameFields, GotoStep

LEMMA StepCachedCname ==
    ASSUME QueryIInv, CachedCname
    PROVE  QueryIInv'
<1> DEFINE data == cache[<<"CNAME", Dname>>].data
<1>1. /\ InTime /\ Dname \notin LocalNames /\ cache[<<"CNAME", Dname>>].known /\ cache' = cache
      /\ IF typematch("CNAME", Dtype) THEN Answer(data, "ok")
         ELSE /\ cname' \in data
              /\ Goto("CNAME") /\ UNCHANGED <<level, name, control, ns, zservers, alias>>
  BY DEF CachedCname, Cached
<1>2. /\ Dname \in NameSet /\ "CNAME" \in Types /\ "CNAME" # "ANY" /\ level \in Nat
  BY SameFields DEF Types
<1>3. data \subseteq NameSet /\ (Guarded(Dname) => data = TrueData("CNAME", Dname))
  BY <1>1, <1>2, ValueFacts DEF Right
<1> HIDE DEF data
<1>4. Framed
  BY <1>1, NothingSaid DEF Answer, Goto, rarely
<1>5. CASE Dtype = "CNAME"
  <2>1. Answer(data, "ok") /\ level = 0 /\ type = "CNAME" /\ Dname = name[0]
    BY <1>1, <1>2, <1>5 DEF typematch, Dtype, Dname
  <2>2. name[0] \in Protected \ LocalNames => data = TrueData(type, name[0])
    BY <1>3, <2>1, SameFields, ProtectedGuarded
  <2> QED
    BY <1>4, <2>1, <2>2, ReplyStep
<1>6. CASE Dtype # "CNAME"
  <2>1. /\ at' = "CNAME" /\ cname' \in data
        /\ UNCHANGED <<level, name, control, alias>> /\ ns' = ns /\ zservers' = zservers
    BY <1>1, <1>6 DEF typematch, Goto
  <2> QED
    BY <1>3, <1>4, <2>1, SameFields, GotoStep
<1> QED
  BY <1>5, <1>6

LEMMA StepCachedAnswer ==
    ASSUME QueryIInv, CachedAnswer
    PROVE  QueryIInv'
<1> DEFINE data == cache[<<Dtype, Dname>>].data
<1>1. InTime /\ cache[<<Dtype, Dname>>].known /\ cache' = cache /\ Known(data)
  BY DEF CachedAnswer, Cached
<1>2. Dname \in NameSet /\ Dtype \in Types /\ Dtype # "ANY"
  BY SameFields DEF Types
<1>3. data \in SUBSET SomeData /\ (Guarded(Dname) => data = TrueData(Dtype, Dname))
  BY <1>1, <1>2, ValueFacts DEF Right
<1> HIDE DEF data
<1>4. Framed
  BY <1>1, NothingSaid DEF Known, LowerWith, Answer, Goto, rarely
<1> QED
  BY <1>1, <1>3, <1>4, KnownStep

\* The level that runs has servers of another zone to ask, or their names.
LEMMA ServersStep ==
    ASSUME QueryIInv, Framed, UNCHANGED <<level, name, alias, cname>>, at' = "HAVENS",
           NEW z \in SuffixesOf(Dname), NEW those \in SUBSET SomeData,
           NEW some \in SUBSET (NameSet \cap SomeData),
           control' = [control EXCEPT ![level] = z],
           zservers' = [zservers EXCEPT ![level] = those],
           ns' = [ns EXCEPT ![level] = some],
           roots_same(Dname, z),
           Guarded(z) => those \subseteq world.honest /\ some \subseteq world.leads
    PROVE  QueryIInv'
<1>1. /\ Fields /\ world' = world /\ type' = type /\ SomeData' = SomeData
      /\ level \in Nat /\ level \in Levels
  BY InvFacts, SameFields, WorldStays DEF Framed
<1>2. z \in NameSet
  BY SameFields, QueryConstants
<1>3. /\ control' \in [Levels -> NameSet] /\ zservers' \in [Levels -> SUBSET SomeData]
      /\ ns' \in [Levels -> SUBSET (NameSet \cap SomeData)]
      /\ control'[level] = z /\ zservers'[level] = those /\ ns'[level] = some
      /\ \A l \in Levels : l # level =>
            control'[l] = control[l] /\ zservers'[l] = zservers[l] /\ ns'[l] = ns[l]
  BY <1>1, <1>2, SameFields
<1>4. Fields'
  BY <1>1, <1>3 DEF Fields, Framed, CacheTyped
<1>5. InUse' = 0 .. level
  BY DEF InUse
<1>6. \A l \in InUse' : /\ control'[l] \in SuffixesOf(name'[l])
                        /\ roots_same(name'[l], control'[l])
                        /\ Guarded(control'[l]) =>
                             zservers'[l] \subseteq world.honest /\ ns'[l] \subseteq world.leads
  <2> SUFFICES ASSUME NEW l \in 0 .. level
               PROVE  /\ control'[l] \in SuffixesOf(name[l])
                      /\ roots_same(name[l], control'[l])
                      /\ Guarded(control'[l]) =>
                           zservers'[l] \subseteq world.honest /\ ns'[l] \subseteq world.leads
    BY <1>5
  <2>1. CASE l = level
    BY <1>3, <2>1 DEF Dname
  <2>2. CASE l # level
    <3>1. l \in 0 .. level - 1
      BY <1>1, <2>2
    <3>2. l \in InUse /\ l \in Levels
      BY <3>1, BelowFacts
    <3>3. control'[l] = control[l] /\ zservers'[l] = zservers[l] /\ ns'[l] = ns[l]
      BY <1>3, <2>2, <3>2
    <3> QED
      BY <3>2, <3>3, InvFacts
  <2> QED
    BY <2>1, <2>2
<1>7. \A l \in 1 .. level' : Guarded(control'[l - 1]) => name'[l] \in world.leads
  <2> SUFFICES ASSUME NEW l \in 1 .. level, Guarded(control'[l - 1])
               PROVE  name[l] \in world.leads
    OBVIOUS
  <2>1. l - 1 \in 0 .. level - 1
    BY <1>1
  <2>2. control'[l - 1] = control[l - 1]
    BY <1>3, <2>1, BelowFacts
  <2> QED
    BY <2>2, InvFacts
<1>8. TrueFound' /\ TrueChain'
  BY <1>1 DEF QueryIInv, TrueFound, TrueChain, Protected, TrueData
<1> QED
  BY <1>4, <1>6, <1>7, <1>8, Together

\* roots_search of what it found finds the same.
LEMMA NearestOfNearest ==
    ASSUME NEW roots, Root \in DOMAIN roots, NEW n \in Seq(STRING)
    PROVE  SameNearest(roots, n, Nearest(roots, n))
<1> DEFINE x == Nearest(roots, n)
           y == Nearest(roots, x)
<1>1. /\ x \in SuffixesOf(n) \cap DOMAIN roots
      /\ \A z \in SuffixesOf(n) \cap DOMAIN roots : Len(z) <= Len(x)
  BY NearestFacts
<1>2. x \in Seq(STRING) /\ Len(x) \in Nat
  BY <1>1, SuffixFacts
<1> HIDE DEF x
<1>3. /\ y \in SuffixesOf(x) \cap DOMAIN roots
      /\ \A z \in SuffixesOf(x) \cap DOMAIN roots : Len(z) <= Len(y)
  BY <1>2, NearestFacts
<1> HIDE DEF y
<1>4. x \in SuffixesOf(x) /\ Len(y) \in 0 .. Len(x)
  BY <1>2, <1>3, SuffixFacts
<1>5. Len(y) = Len(x)
  BY <1>1, <1>2, <1>3, <1>4
<1>6. y = x
  BY <1>2, <1>3, <1>4, <1>5, SuffixFacts
<1> QED
  BY <1>6 DEF SameNearest, x, y

LEMMA StepChooseServers ==
    ASSUME QueryIInv, ChooseServers
    PROVE  QueryIInv'
<1> DEFINE top == roots_search(Dname)
<1>1. /\ InTime /\ cache' = cache /\ world' = world /\ type' = type
      /\ UNCHANGED <<level, name, alias, cname>> /\ at' = "HAVENS"
  BY DEF ChooseServers, Goto, rarely
<1>2. Framed
  BY <1>1, NothingSaid
<1>3. /\ Dname \in NameSet /\ Dname \in Seq(STRING) /\ world \in Worlds
      /\ Root \in DOMAIN world.roots
  BY SameFields, InWorld
<1>4. /\ top \in SuffixesOf(Dname) \cap DOMAIN world.roots
      /\ SameNearest(world.roots, Dname, top)
  BY <1>3, NearestFacts, NearestOfNearest DEF roots_search
<1>5. \/ /\ control' = [control EXCEPT ![level] = top]
         /\ zservers' = [zservers EXCEPT ![level] = world.roots[top]]
         /\ ns' = [ns EXCEPT ![level] = {}]
      \/ \E z \in NearestCached :
           /\ StartAt(z)
           /\ control' = [control EXCEPT ![level] = z]
           /\ zservers' = [zservers EXCEPT ![level] = {}]
           /\ \E some \in SomeNs(cache[<<"NS", z>>].data) : ns' = [ns EXCEPT ![level] = some]
  BY DEF ChooseServers
<1> HIDE DEF top
<1>6. CASE /\ control' = [control EXCEPT ![level] = top]
           /\ zservers' = [zservers EXCEPT ![level] = world.roots[top]]
           /\ ns' = [ns EXCEPT ![level] = {}]
  <2>1. world.roots[top] \in SUBSET SomeData
    BY <1>4 DEF SomeData
  <2>2. Guarded(top) => world.roots[top] \subseteq world.honest
    BY <1>3, <1>4, OnlyTruthLeads DEF Guarded
  <2>3. roots_same(Dname, top)
    BY <1>4 DEF roots_same
  <2> QED
    BY <1>1, <1>2, <1>4, <1>6, <2>1, <2>2, <2>3, ServersStep
<1>7. CASE \E z \in NearestCached :
             /\ StartAt(z)
             /\ control' = [control EXCEPT ![level] = z]
             /\ zservers' = [zservers EXCEPT ![level] = {}]
             /\ \E some \in SomeNs(cache[<<"NS", z>>].data) : ns' = [ns EXCEPT ![level] = some]
  <2>1. PICK z \in NearestCached :
             /\ StartAt(z)
             /\ control' = [control EXCEPT ![level] = z]
             /\ zservers' = [zservers EXCEPT ![level] = {}]
             /\ \E some \in SomeNs(cache[<<"NS", z>>].data) : ns' = [ns EXCEPT ![level] = some]
    BY <1>7
  <2>2. PICK some \in SomeNs(cache[<<"NS", z>>].data) : ns' = [ns EXCEPT ![level] = some]
    BY <2>1
  <2>3. z \in SuffixesOf(Dname) /\ cache[<<"NS", z>>].known
    BY DEF NearestCached, Cached
  <2>4. Len(top) <= Len(z)
    BY <2>1 DEF StartAt, top
  <2>5. roots_same(Dname, z)
    <3>1. top \in SuffixesOf(z)
      BY <1>3, <1>4, <2>3, <2>4, SuffixOrder
    <3> QED
      BY <1>3, <1>4, <2>3, <3>1, SameBetween DEF roots_same
  <2>6. z \in NameSet /\ "NS" \in Types \cup {"ANY"} /\ "NS" # "ANY"
    BY <1>3, <2>3, QueryConstants DEF Types
  <2>7. some \subseteq cache[<<"NS", z>>].data
    BY DEF SomeNs
  <2>8. some \subseteq SomeData /\ some \subseteq NameSet /\ (Guarded(z) => some \subseteq TrueData("NS", z))
    BY <2>3, <2>6, <2>7, ValueFacts DEF Right
  <2>9. Guarded(z) => TrueData("NS", z) \subseteq world.leads
    BY <1>3, OnlyTruthLeads DEF Guarded, TrueData
  <2>10. {} \in SUBSET SomeData /\ {} \subseteq world.honest /\ some \in SUBSET (NameSet \cap SomeData)
    BY <2>8
  <2> QED
    BY <1>1, <1>2, <2>1, <2>2, <2>3, <2>5, <2>8, <2>9, <2>10, ServersStep
<1> QED
  BY <1>5, <1>6, <1>7

LEMMA StepNextNs ==
    ASSUME QueryIInv, NextNs
    PROVE  QueryIInv'
<1>1. PICK n \in ns[level] :
        /\ ns' = [ns EXCEPT ![level] = @ \ {n}]
        /\ IF level + 1 < MaxLevel
           THEN level' = level + 1 /\ name' = [name EXCEPT ![level + 1] = n] /\ Goto("NEWNAME")
           ELSE UNCHANGED <<level, name>> /\ Goto("HAVENS")
  BY DEF NextNs
<1>2. /\ at = "HAVENS" /\ world' = world /\ type' = type /\ cache' = cache /\ loop' = loop
      /\ UNCHANGED <<control, zservers, alias, cname>>
  BY <1>1 DEF NextNs, Goto, rarely
<1>3. Framed /\ Fields /\ SomeData' = SomeData
  BY <1>2, NothingSaid, InvFacts, WorldStays
<1>4. /\ level \in Levels /\ level \in Nat /\ MaxLevel \in Nat
      /\ ns \in [Levels -> SUBSET (NameSet \cap SomeData)]
      /\ zservers \in [Levels -> SUBSET SomeData]
  BY SameFields, QueryConstants
<1>5. /\ ns' \in [Levels -> SUBSET (NameSet \cap SomeData)]
      /\ \A l \in Levels : ns'[l] \subseteq ns[l]
      /\ n \in NameSet
  BY <1>1, <1>4
<1>6. CASE level + 1 < MaxLevel
  <2>1. level' = level + 1 /\ name' = [name EXCEPT ![level + 1] = n] /\ at' = "NEWNAME"
    BY <1>1, <1>6 DEF Goto
  <2>2. level + 1 \in Levels /\ name \in [Levels -> NameSet]
    BY <1>4, <1>6, SameFields DEF Levels
  <2>3. /\ name' \in [Levels -> NameSet] /\ name'[level + 1] = n
        /\ \A l \in 0 .. level : l \in Levels /\ name'[l] = name[l]
    BY <1>4, <1>5, <2>1, <2>2 DEF Levels
  <2>4. Fields'
    BY <1>2, <1>3, <1>5, <2>1, <2>2, <2>3 DEF Fields, Framed, CacheTyped
  <2>5. InUse' = 0 .. level /\ InUse = 0 .. level
    BY <1>2, <1>4, <2>1 DEF InUse
  <2>6. \A l \in InUse' : /\ control'[l] \in SuffixesOf(name'[l])
                          /\ roots_same(name'[l], control'[l])
                          /\ Guarded(control'[l]) =>
                               zservers'[l] \subseteq world.honest /\ ns'[l] \subseteq world.leads
    <3> SUFFICES ASSUME NEW l \in 0 .. level
                 PROVE  /\ control[l] \in SuffixesOf(name[l])
                        /\ roots_same(name[l], control[l])
                        /\ Guarded(control[l]) =>
                             zservers[l] \subseteq world.honest /\ ns'[l] \subseteq world.leads
      BY <1>2, <2>3, <2>5
    <3>1. l \in InUse /\ ns'[l] \subseteq ns[l]
      BY <1>5, <2>3, <2>5
    <3> QED
      BY <3>1, InvFacts
  <2>7. \A l \in 1 .. level' : Guarded(control'[l - 1]) => name'[l] \in world.leads
    <3> SUFFICES ASSUME NEW l \in 1 .. level + 1, Guarded(control[l - 1])
                 PROVE  name'[l] \in world.leads
      BY <1>2, <2>1
    <3>1. CASE l = level + 1
      <4>1. level \in InUse /\ l - 1 = level
        BY <1>4, <2>5, <3>1
      <4>2. ns[level] \subseteq world.leads
        BY <4>1, InvFacts
      <4> QED
        BY <2>3, <3>1, <4>2
    <3>2. CASE l # level + 1
      <4>1. l \in 1 .. level /\ l \in 0 .. level
        BY <1>4, <3>2
      <4> QED
        BY <2>3, <4>1, InvFacts
    <3> QED
      BY <3>1, <3>2
  <2>8. TrueFound'
    BY <2>1 DEF TrueFound
  <2>9. TrueChain'
    <3>1. name'[0] = name[0]
      BY <1>4, <2>3
    <3> QED
      BY <1>2, <3>1 DEF QueryIInv, TrueChain, Protected, TrueData
  <2> QED
    BY <1>3, <2>1, <2>4, <2>6, <2>7, <2>8, <2>9, Together
<1>7. CASE ~(level + 1 < MaxLevel)
  <2>1. UNCHANGED <<level, name, control, alias>> /\ at' = "HAVENS"
    BY <1>1, <1>2, <1>7 DEF Goto
  <2>2. cname' \in NameSet /\ \A l \in Levels : zservers'[l] \subseteq zservers[l]
    BY <1>2, SameFields
  <2> QED
    BY <1>2, <1>3, <1>4, <1>5, <2>1, <2>2, GotoStep
<1> QED
  BY <1>6, <1>7

LEMMA StepSend ==
    ASSUME QueryIInv, Send
    PROVE  QueryIInv'
<1>1. /\ at = "HAVENS" /\ at' \in {"SERVFAIL", "WAIT"} /\ world' = world /\ type' = type
      /\ UNCHANGED <<loop, level, name, control, ns, zservers, alias, cname, cache>>
  BY DEF Send, Goto, rarely
<1>2. Framed
  BY <1>1, NothingSaid
<1> QED
  BY <1>1, <1>2, SameFields, GotoStep

LEMMA StepUnanswered ==
    ASSUME QueryIInv, Unanswered
    PROVE  QueryIInv'
<1>1. /\ at' = "SERVFAIL" /\ world' = world /\ type' = type
      /\ UNCHANGED <<loop, level, name, control, ns, zservers, alias, cname, cache>>
  BY DEF Unanswered, Goto, rarely
<1>2. Framed
  BY <1>1, NothingSaid
<1> QED
  BY <1>1, <1>2, SameFields, GotoStep

LEMMA StepNotSent ==
    ASSUME QueryIInv, NotSent
    PROVE  QueryIInv'
BY NothingSaid, DieStep DEF NotSent, DIE, rarely

LEMMA StepUnreadable ==
    ASSUME QueryIInv, Unreadable
    PROVE  QueryIInv'
BY NothingSaid, DieStep DEF Unreadable, DIE, rarely

LEMMA StepNoName ==
    ASSUME QueryIInv, NoName
    PROVE  QueryIInv'
<1>1. /\ Answer({}, at) /\ at # "ok" /\ Dname = name[0]
      /\ cache' = cache /\ loop' = loop /\ world' = world /\ type' = type
  BY DEF NoName, Answer, rarely, Dname
<1>2. name[0] \in Protected /\ at = "NXDOMAIN" => ~Exists(name[0])
  BY <1>1, SameFields, ProtectedGuarded DEF QueryIInv, TrueFound
<1> QED
  BY <1>1, <1>2, NothingSaid, ReplyStep

LEMMA StepLOWERLEVEL ==
    ASSUME QueryIInv, LOWERLEVEL
    PROVE  QueryIInv'
<1>1. /\ at \in {"LOWERLEVEL", "NXDOMAIN", "SERVFAIL"} /\ (at # "LOWERLEVEL" => level > 0)
      /\ at' = "HAVENS" /\ world' = world /\ type' = type /\ cache' = cache /\ loop' = loop
      /\ UNCHANGED <<control, zservers, alias, cname>> /\ level' = level - 1
      /\ name' = [name EXCEPT ![level] = Root] /\ ns' = [ns EXCEPT ![level] = {}]
  BY DEF LOWERLEVEL, Goto, rarely
<1>2. Framed /\ Fields /\ SomeData' = SomeData
  BY <1>1, NothingSaid, InvFacts, WorldStays
<1>3. /\ level \in Nat /\ level > 0 /\ level \in Levels /\ level - 1 \in Levels /\ Root \in NameSet
  <2>1. level > 0
    BY <1>1, <1>2 DEF Fields
  <2> QED
    BY <2>1, SameFields, QueryConstants DEF Levels
<1>4. /\ name' \in [Levels -> NameSet] /\ ns' \in [Levels -> SUBSET (NameSet \cap SomeData)]
      /\ \A l \in Levels : l # level => name'[l] = name[l] /\ ns'[l] = ns[l]
  BY <1>1, <1>3, SameFields
<1>5. Fields'
  BY <1>1, <1>2, <1>3, <1>4 DEF Fields, Framed, CacheTyped
<1>6. InUse' = 0 .. level - 1 /\ InUse = 0 .. level - 1
  BY <1>1 DEF InUse
<1>7. ASSUME NEW l \in 0 .. level - 1
      PROVE  l \in InUse /\ name'[l] = name[l] /\ ns'[l] = ns[l]
  BY <1>4, BelowFacts
<1>8. \A l \in InUse' : /\ control'[l] \in SuffixesOf(name'[l])
                        /\ roots_same(name'[l], control'[l])
                        /\ Guarded(control'[l]) =>
                             zservers'[l] \subseteq world.honest /\ ns'[l] \subseteq world.leads
  <2> SUFFICES ASSUME NEW l \in 0 .. level - 1
               PROVE  /\ control[l] \in SuffixesOf(name[l])
                      /\ roots_same(name[l], control[l])
                      /\ Guarded(control[l]) =>
                           zservers[l] \subseteq world.honest /\ ns[l] \subseteq world.leads
    BY <1>1, <1>6, <1>7
  <2> QED
    BY <1>7, InvFacts
<1>9. \A l \in 1 .. level' : Guarded(control'[l - 1]) => name'[l] \in world.leads
  <2> SUFFICES ASSUME NEW l \in 1 .. level - 1, Guarded(control[l - 1])
               PROVE  name[l] \in world.leads
    BY <1>1, <1>7, <1>3
  <2>1. l \in 1 .. level
    BY <1>3
  <2> QED
    BY <2>1, InvFacts
<1>10. TrueFound' /\ name'[0] = name[0]
  BY <1>1, <1>3, <1>7 DEF TrueFound
<1>11. TrueChain'
  BY <1>1, <1>10 DEF QueryIInv, TrueChain, Protected, TrueData
<1> QED
  BY <1>1, <1>2, <1>5, <1>8, <1>9, <1>10, <1>11, Together

\* An alias of the client's name is added to the answer.
LEMMA AliasAdded ==
    ASSUME QueryIInv, at = "CNAME", level = 0, world' = world,
           alias' = Append(alias, name[0]), name'[0] = cname
    PROVE  TrueChain'
<1> DEFINE old == alias \o <<name[0]>>
           new == alias' \o <<name'[0]>>
<1>1. alias \in Seq(NameSet) /\ name[0] \in NameSet /\ cname \in NameSet /\ Len(alias) \in Nat
  BY SameFields, FieldFacts, InvFacts
<1>2. /\ Len(alias') = Len(alias) + 1
      /\ \A i \in 1 .. Len(alias) + 1 : new[i] = old[i]
      /\ old[Len(alias) + 1] = name[0] /\ new[Len(alias) + 2] = cname
  BY <1>1
<1>3. \A i \in 1 .. Len(alias) : old[i] \in Protected => old[i + 1] \in TrueData("CNAME", old[i])
  BY DEF QueryIInv, TrueChain
<1>4. name[0] \in Protected => cname \in TrueData("CNAME", name[0])
  <2>1. Dname = name[0] /\ TrueFound /\ world \in Worlds
    BY SameFields DEF QueryIInv, Dname
  <2> QED
    BY <2>1, ProtectedGuarded DEF TrueFound
<1> HIDE DEF old, new
<1>5. ASSUME NEW i \in 1 .. Len(alias) + 1, new[i] \in Protected
      PROVE  new[i + 1] \in TrueData("CNAME", new[i])
  <2>1. CASE i = Len(alias) + 1
    <3>1. new[i] = name[0] /\ new[i + 1] = cname
      BY <1>1, <1>2, <2>1
    <3> QED
      BY <1>4, <1>5, <3>1
  <2>2. CASE i # Len(alias) + 1
    <3>1. i \in 1 .. Len(alias) /\ i + 1 \in 1 .. Len(alias) + 1
      BY <1>1, <2>2
    <3>2. new[i] = old[i] /\ new[i + 1] = old[i + 1]
      BY <1>2, <3>1
    <3> QED
      BY <1>3, <1>5, <3>1, <3>2
  <2> QED
    BY <2>1, <2>2
<1>6. Protected' = Protected
  BY WorldStays
<1> QED
  BY <1>2, <1>5, <1>6 DEF TrueChain, TrueData, new

LEMMA StepCNAME ==
    ASSUME QueryIInv, CNAME
    PROVE  QueryIInv'
<1>1. at = "CNAME" /\ cache' = cache /\ loop' = loop /\ world' = world /\ type' = type
  BY DEF CNAME, DIE, Goto, rarely
<1>2. Framed /\ Fields /\ SomeData' = SomeData
  BY <1>1, NothingSaid, InvFacts, WorldStays
<1>3. CASE level = 0 /\ Len(alias) = MaxAlias
  BY <1>2, <1>3, DieStep DEF CNAME
<1>4. CASE ~(level = 0 /\ Len(alias) = MaxAlias)
  <2>1. /\ alias' = IF level = 0 THEN Append(alias, name[0]) ELSE alias
        /\ name' = [name EXCEPT ![level] = cname]
        /\ at' = "NEWNAME" /\ UNCHANGED <<level, control, ns, zservers, cname>>
    BY <1>4 DEF CNAME, Goto
  <2>2. /\ level \in Nat /\ level \in Levels /\ cname \in NameSet /\ name[0] \in NameSet
        /\ name \in [Levels -> NameSet] /\ Len(alias) \in Nat /\ alias \in Seq(NameSet)
        /\ Len(alias) <= MaxAlias /\ MaxAlias \in Nat
    BY <1>2, SameFields, FieldFacts, QueryConstants DEF Fields
  <2>3. /\ name' \in [Levels -> NameSet] /\ name'[level] = cname
        /\ \A l \in Levels : l # level => name'[l] = name[l]
    BY <2>1, <2>2
  <2>4. alias' \in Seq(NameSet) /\ Len(alias') <= MaxAlias
    BY <1>4, <2>1, <2>2
  <2>5. Fields'
    BY <1>2, <2>1, <2>3, <2>4 DEF Fields, Framed, CacheTyped
  <2>6. InUse' = 0 .. level - 1 /\ InUse = 0 .. level - 1
    BY <1>1, <2>1 DEF InUse
  <2>7. ASSUME NEW l \in 0 .. level - 1
        PROVE  l \in InUse /\ name'[l] = name[l]
    BY <2>3, BelowFacts
  <2>8. \A l \in InUse' : /\ control'[l] \in SuffixesOf(name'[l])
                          /\ roots_same(name'[l], control'[l])
                          /\ Guarded(control'[l]) =>
                               zservers'[l] \subseteq world.honest /\ ns'[l] \subseteq world.leads
    <3> SUFFICES ASSUME NEW l \in 0 .. level - 1
                 PROVE  /\ control[l] \in SuffixesOf(name[l])
                        /\ roots_same(name[l], control[l])
                        /\ Guarded(control[l]) =>
                             zservers[l] \subseteq world.honest /\ ns[l] \subseteq world.leads
      BY <2>1, <2>6, <2>7
    <3> QED
      BY <2>7, InvFacts
  <2>9. \A l \in 1 .. level' : Guarded(control'[l - 1]) => name'[l] \in world.leads
    <3> SUFFICES ASSUME NEW l \in 1 .. level, Guarded(control[l - 1])
                 PROVE  name'[l] \in world.leads
      BY <2>1
    <3>1. name[l] \in world.leads
      BY InvFacts
    <3>2. CASE l = level
      <4>1. Dname \in world.leads /\ world \in Worlds
        BY <3>1, <3>2, SameFields DEF Dname
      <4>2. cname \in TrueData("CNAME", Dname)
        BY <1>1, <4>1, LeadFacts DEF QueryIInv, TrueFound
      <4> QED
        BY <2>3, <3>2, <4>1, <4>2, LeadFacts
    <3>3. CASE l # level
      <4>1. l \in 0 .. level - 1
        BY <2>2, <3>3
      <4> QED
        BY <2>7, <3>1, <4>1
    <3> QED
      BY <3>2, <3>3
  <2>10. TrueFound'
    BY <2>1 DEF TrueFound
  <2>11. TrueChain'
    <3>1. CASE level = 0
      BY <1>1, <2>1, <2>3, <3>1, AliasAdded
    <3>2. CASE level # 0
      <4>1. name'[0] = name[0] /\ alias' = alias
        BY <2>1, <2>2, <2>7, <3>2
      <4> QED
        BY <1>1, <4>1 DEF QueryIInv, TrueChain, Protected, TrueData
    <3> QED
      BY <3>1, <3>2
  <2> QED
    BY <1>2, <2>1, <2>5, <2>8, <2>9, <2>10, <2>11, Together
<1> QED
  BY <1>3, <1>4

\* A packet has come: where a guarded name was asked about, it is a truthful one.
LEMMA CameFacts ==
    ASSUME QueryIInv, at = "WAIT", NEW a \in zservers[level], NEW p \in Says(a)
    PROVE  /\ Guarded(Dname) => Guarded(control[level])
           /\ Guarded(control[level]) => a \in world.honest /\ p \in Truthful(Serves[a])
           /\ \A r \in Told(p) : r \in AnyRecord \/ r.type = "SOA"
           /\ CacheTyped(CachedFrom(p)) /\ CacheTrue(CachedFrom(p))
           /\ control[level] \in SuffixesOf(Dname) /\ roots_same(Dname, control[level])
<1>1. /\ level \in InUse /\ Dname = name[level] /\ Dname \in NameSet /\ Dtype \in Types
      /\ world \in Worlds /\ Fields /\ TrueCache
  BY BelowFacts, SameFields, InvFacts DEF Dname
<1>2. /\ control[level] \in SuffixesOf(Dname) /\ roots_same(Dname, control[level])
      /\ Guarded(control[level]) => a \in world.honest
  BY <1>1, InvFacts
<1>3. Guarded(Dname) => Guarded(control[level])
  BY <1>1, <1>2, GuardUp
<1>4. /\ Guarded(control[level]) => p \in Truthful(Serves[a])
      /\ \A r \in Told(p) : r \in AnyRecord \/ r.type = "SOA"
  BY <1>1, <1>2, PacketFacts
<1>5. CacheTyped(CachedFrom(p)) /\ CacheTrue(CachedFrom(p))
  BY <1>1, <1>2, BelievedFacts
<1> QED
  BY <1>2, <1>3, <1>4, <1>5

\* The cache becomes another one as true as it was.
LEMMA CacheNew ==
    ASSUME NEW c, CacheTyped(c), CacheTrue(c), world' = world, cache' = c
    PROVE  CacheTyped(cache)' /\ CacheTrue(cache)'
<1>1. SomeData' = SomeData
  BY WorldStays
<1>2. CacheTyped(cache)'
  BY <1>1 DEF CacheTyped
<1>3. CacheTrue(cache)'
  BY DEF CacheTrue, Right, TrueData, Guarded
<1> QED
  BY <1>2, <1>3

\* The loop counts a packet.
LEMMA Counted ==
    ASSUME QueryIInv, InTime
    PROVE  loop' \in 0 .. LoopMax
BY QueryConstants DEF QueryIInv, Fields, InTime

LEMMA StepLame ==
    ASSUME QueryIInv, at = "WAIT", InTime, NEW a, NEW p, Lame(a, p)
    PROVE  QueryIInv'
<1>1. /\ at' = "HAVENS" /\ world' = world /\ type' = type /\ cache' = cache
      /\ zservers' = [zservers EXCEPT ![level] = @ \ {a}]
      /\ UNCHANGED <<level, name, control, ns, alias, cname>>
  BY DEF Lame, Goto, rarely
<1>2. /\ zservers' \in [Levels -> SUBSET SomeData]
      /\ \A l \in Levels : zservers'[l] \subseteq zservers[l]
  BY <1>1, SameFields
<1>3. Framed
  BY <1>1, NothingSaid
<1> QED
  BY <1>1, <1>2, <1>3, SameFields, GotoStep

LEMMA StepHaveCname ==
    ASSUME QueryIInv, at = "WAIT", InTime, NEW a \in zservers[level], NEW p \in Says(a), HaveCname(p)
    PROVE  QueryIInv'
<1>1. /\ at' = "CNAME" /\ world' = world /\ type' = type /\ cache' = CachedFrom(p)
      /\ UNCHANGED <<level, name, control, ns, zservers, alias>> /\ cname' \in Cnames(p)
  BY DEF HaveCname, Goto, rarely
<1>2. Framed
  BY <1>1, CameFacts, CacheNew, Counted DEF Framed
<1>3. Cnames(p) \subseteq NameSet
  BY CameFacts, QueryConstants DEF Cnames, Told
<1>4. Guarded(Dname) => Cnames(p) \subseteq TrueData("CNAME", Dname)
  BY CameFacts, SameFields, TruthfulFacts
<1> QED
  BY <1>1, <1>2, <1>3, <1>4, SameFields, GotoStep

LEMMA StepHaveNxdomain ==
    ASSUME QueryIInv, at = "WAIT", InTime, NEW a \in zservers[level], NEW p \in Says(a), HaveNxdomain(p)
    PROVE  QueryIInv'
<1>1. /\ at' = "NXDOMAIN" /\ world' = world /\ type' = type
      /\ cache' = Store(CachedFrom(p), "ANY", Dname, {})
      /\ UNCHANGED <<level, name, control, ns, zservers, alias, cname>>
  BY DEF HaveNxdomain, Goto, rarely
<1>4. Guarded(Dname) => ~Exists(Dname)
  <2>1. p.rcode = 3
    BY DEF HaveNxdomain
  <2> QED
    BY <2>1, CameFacts, SameFields, TruthfulFacts
<1>2. /\ CacheTyped(Store(CachedFrom(p), "ANY", Dname, {}))
      /\ CacheTrue(Store(CachedFrom(p), "ANY", Dname, {}))
  BY <1>4, CameFacts, SameFields, StoreNothing DEF Right
<1>3. Framed
  BY <1>1, <1>2, CacheNew, Counted DEF Framed
<1> QED
  BY <1>1, <1>3, <1>4, SameFields, GotoStep

LEMMA StepHaveAnswer ==
    ASSUME QueryIInv, at = "WAIT", InTime, NEW a \in zservers[level], NEW p \in Says(a), HaveAnswer(p)
    PROVE  QueryIInv'
<1> DEFINE data == {r.data : r \in {x \in p.an : x.owner = Dname /\ typematch(x.type, Dtype)}}
           kept == IF NoData(p) THEN Store(CachedFrom(p), Dtype, Dname, {}) ELSE CachedFrom(p)
<1>1. Known(data) /\ ~OnlyReferral(p) /\ cache' = kept
  BY DEF HaveAnswer
<1>2. /\ Dname \in NameSet /\ Dtype \in Types
      /\ Guarded(Dname) => p \in Truthful(Serves[a])
  BY SameFields, CameFacts
<1>3. Guarded(Dname) => data = TrueData(Dtype, Dname)
  BY <1>1, <1>2, TruthfulFacts
<1>4. data \in SUBSET SomeData
  <2>1. "SOA" \notin Types
    BY DEF Types
  <2>2. \A r \in p.an : typematch(r.type, Dtype) => r \in AnyRecord
    BY <1>2, <2>1, CameFacts DEF Told, typematch
  <2> QED
    BY <2>2 DEF SomeData
<1>5. CacheTyped(kept) /\ CacheTrue(kept)
  <2>1. CASE NoData(p)
    <3>1. Guarded(Dname) => TrueData(Dtype, Dname) = {}
      BY <1>2, <2>1, TruthfulFacts
    <3>2. CacheTyped(Store(CachedFrom(p), Dtype, Dname, {})) /\ CacheTrue(Store(CachedFrom(p), Dtype, Dname, {}))
      BY <1>2, <3>1, CameFacts, StoreNothing DEF Right, Types
    <3> QED
      BY <2>1, <3>2
  <2>2. CASE ~NoData(p)
    BY <2>2, CameFacts
  <2> QED
    BY <2>1, <2>2
<1> HIDE DEF data, kept
<1>6. world' = world /\ type' = type
  BY <1>1 DEF Known, LowerWith, Answer, Goto, rarely
<1>7. Framed
  BY <1>1, <1>5, <1>6, CacheNew, Counted DEF Framed
<1> QED
  BY <1>1, <1>3, <1>4, <1>7, KnownStep

LEMMA StepHaveReferral ==
    ASSUME QueryIInv, at = "WAIT", InTime, NEW a \in zservers[level], NEW p \in Says(a), HaveReferral(p)
    PROVE  QueryIInv'
<1> DEFINE nsOf(z) == {r.data : r \in {x \in p.au : x.owner = z /\ x.type = "NS"}}
<1>1. PICK ref \in Referrals(p) :
        /\ Cnames(p) = {} /\ p.rcode = 0 /\ OnlyReferral(p) /\ ~LameFor(p, ref)
        /\ cache' = CachedFrom(p)
        /\ IF ~GoesDown(ref) THEN DIE
           ELSE /\ control' = [control EXCEPT ![level] = ref]
                /\ zservers' = [zservers EXCEPT ![level] = {}]
                /\ \E some \in SomeNs(nsOf(ref)) : ns' = [ns EXCEPT ![level] = some]
                /\ Goto("HAVENS") /\ UNCHANGED <<level, name, alias, cname>>
  BY DEF HaveReferral
<1>2. world' = world /\ type' = type /\ Framed
  <2>1. world' = world /\ type' = type
    BY <1>1 DEF DIE, Goto, rarely
  <2> QED
    BY <1>1, <2>1, CameFacts, CacheNew, Counted DEF Framed
<1>3. CASE ~GoesDown(ref)
  BY <1>1, <1>2, <1>3, DieStep
<1>4. CASE GoesDown(ref)
  <2>1. /\ control' = [control EXCEPT ![level] = ref]
        /\ zservers' = [zservers EXCEPT ![level] = {}]
        /\ at' = "HAVENS" /\ UNCHANGED <<level, name, alias, cname>>
    BY <1>1, <1>4 DEF Goto
  <2>2. PICK some \in SomeNs(nsOf(ref)) : ns' = [ns EXCEPT ![level] = some]
    BY <1>1, <1>4
  <2>3. some \subseteq nsOf(ref)
    BY DEF SomeNs
  <2>4. ref \in SuffixesOf(Dname) /\ control[level] \in SuffixesOf(ref)
    BY <1>1, <1>4, SuffixDef DEF GoesDown, LameFor
  <2>5. roots_same(Dname, ref) /\ (Guarded(ref) => Guarded(control[level]))
    BY <2>4, CameFacts, SameFields, ReferralUnguarded
  <2>6. some \in SUBSET (NameSet \cap SomeData)
    <3>1. \A r \in p.au : r.type = "NS" => r \in AnyRecord /\ r.data \in NameSet
      BY CameFacts, QueryConstants DEF Told
    <3> QED
      BY <2>3, <3>1 DEF SomeData
  <2>7. Guarded(ref) => some \subseteq world.leads
    <3> SUFFICES ASSUME Guarded(ref), NEW n \in some PROVE n \in world.leads
      OBVIOUS
    <3>1. p \in Truthful(Serves[a])
      BY <2>5, CameFacts
    <3>2. \A r \in p.au : r.type = "NS" => r \in Truth
      BY <3>1, SameFields, TruthfulFacts
    <3>3. PICK r \in p.au : r.owner = ref /\ r.type = "NS" /\ r.data = n
      BY <2>3
    <3> QED
      BY <3>2, <3>3, SameFields, OnlyTruthLeads DEF Guarded
  <2>8. {} \in SUBSET SomeData /\ {} \subseteq world.honest
    OBVIOUS
  <2> QED
    BY <1>2, <2>1, <2>2, <2>4, <2>5, <2>6, <2>7, <2>8, ServersStep
<1> QED
  BY <1>3, <1>4

LEMMA StepHAVEPACKET ==
    ASSUME QueryIInv, HAVEPACKET
    PROVE  QueryIInv'
<1>1. PICK a \in zservers[level] : \E p \in Says(a) :
        Lame(a, p) \/ HaveCname(p) \/ HaveNxdomain(p) \/ HaveAnswer(p) \/ HaveReferral(p)
  BY DEF HAVEPACKET
<1>2. PICK p \in Says(a) :
        Lame(a, p) \/ HaveCname(p) \/ HaveNxdomain(p) \/ HaveAnswer(p) \/ HaveReferral(p)
  BY <1>1
<1>3. at = "WAIT" /\ InTime
  BY DEF HAVEPACKET
<1> QED
  BY <1>2, <1>3, StepLame, StepHaveCname, StepHaveNxdomain, StepHaveAnswer, StepHaveReferral

\* A question is put: nothing is in use of the last one.
LEMMA Stepquery_start ==
    ASSUME QueryIInv, query_start
    PROVE  QueryIInv'
<1>1. PICK w \in Wanted : name' = [name EXCEPT ![0] = w.name] /\ type' = w.type
  BY DEF query_start
<1>2. /\ at = "idle" /\ at' = "NEWNAME" /\ loop' = 0 /\ level' = 0 /\ cache' = cache /\ world' = world
      /\ UNCHANGED <<control, ns, zservers, alias, cname>>
  BY DEF query_start
<1>3. Fields /\ TrueCache /\ SomeData' = SomeData
  BY <1>2, InvFacts, WorldStays
<1>4. /\ 0 \in Levels /\ LoopMax \in Nat /\ w.name \in NameSet /\ w.type \in Types
      /\ alias = <<>> /\ name' \in [Levels -> NameSet]
  BY <1>1, <1>2, <1>3, FieldFacts, QueryConstants DEF Fields
<1>5. Fields'
  BY <1>1, <1>2, <1>3, <1>4, CacheStays DEF Fields, CacheTyped
<1>6. InUse' = {} /\ 1 .. level' = {} /\ 1 .. Len(alias') = {}
  BY <1>2, <1>4 DEF InUse
<1>7. Steered' /\ Led' /\ TrueFound' /\ TrueChain' /\ AnswerIsTrue'
  BY <1>2, <1>6 DEF Steered, Led, TrueFound, TrueChain, AnswerIsTrue
<1>8. TrueCache'
  <2>1. CacheTyped(cache)' /\ CacheTrue(cache)'
    BY <1>2, <1>3, CacheStays
  <2> QED
    BY <2>1, CacheFacts, PTL
<1> QED
  BY <1>5, <1>7, <1>8 DEF QueryIInv

\* An entry is dropped, or nothing happens: the query is as it was.
LEMMA StepCacheOnly ==
    ASSUME QueryIInv, NEW c, CacheTyped(c), CacheTrue(c), cache' = c,
           UNCHANGED <<at, loop, level, name, control, ns, zservers, alias, type, cname, world, reply>>
    PROVE  QueryIInv'
<1>1. Fields /\ SomeData' = SomeData /\ CacheTyped(cache)' /\ CacheTrue(cache)'
  BY InvFacts, WorldStays, CacheNew
<1>2. Fields'
  BY <1>1 DEF Fields, CacheTyped
<1>3. TrueCache'
  BY <1>1, CacheFacts, PTL
<1>4. InUse' = InUse
  BY DEF InUse
<1>5. Steered' /\ Led'
  BY <1>4 DEF QueryIInv, Steered, Led, Guarded, roots_same
<1>6. TrueFound' /\ TrueChain'
  BY DEF QueryIInv, TrueFound, TrueChain, Guarded, Dname, TrueData, Protected
<1>7. AnswerIsTrue'
  BY DEF QueryIInv, AnswerIsTrue, TrueData, Protected
<1> QED
  BY <1>2, <1>3, <1>5, <1>6, <1>7 DEF QueryIInv

LEMMA StepForgotten ==
    ASSUME QueryIInv, Forgotten
    PROVE  QueryIInv'
<1> DEFINE D == (Types \cup {"ANY"}) \X NameSet
           R == [known : BOOLEAN, data : SUBSET SomeData]
<1>1. PICK k \in DOMAIN cache : cache' = [cache EXCEPT ![k] = Absent]
  BY DEF Forgotten
<1>2. CacheTyped(cache) /\ CacheTrue(cache) /\ cache \in [D -> R]
  BY InvFacts, FieldFacts DEF CacheTyped
<1> DEFINE c == [cache EXCEPT ![k] = Absent]
<1>3. Absent \in R /\ Absent.known = FALSE /\ Absent.data = {}
  BY DEF Absent
<1>4. c \in [D -> R] /\ \A j \in D : c[j] = Absent \/ c[j] = cache[j]
  <2> HIDE DEF D, R
  <2> QED
    BY <1>2, <1>3
<1> HIDE DEF c
<1>5. CacheTyped(c)
  <2>1. \A n \in NameSet : c[<<"NS", n>>].data \cup c[<<"CNAME", n>>].data \subseteq NameSet
    <3> TAKE n \in NameSet
    <3>1. <<"NS", n>> \in D /\ <<"CNAME", n>> \in D
      BY DEF Types
    <3>2. cache[<<"NS", n>>].data \cup cache[<<"CNAME", n>>].data \subseteq NameSet
      BY <1>2 DEF CacheTyped
    <3> HIDE DEF D
    <3> QED
      BY <1>3, <1>4, <3>1, <3>2
  <2> QED
    BY <1>4, <2>1 DEF CacheTyped
<1>6. CacheTrue(c)
  <2> SUFFICES ASSUME NEW t \in Types \cup {"ANY"}, NEW n \in NameSet,
                      Guarded(n), c[<<t, n>>].known
               PROVE  Right(t, n, c[<<t, n>>].data)
    BY DEF CacheTrue
  <2>1. <<t, n>> \in D
    OBVIOUS
  <2>2. c[<<t, n>>] = cache[<<t, n>>]
    BY <1>3, <1>4, <2>1
  <2> QED
    BY <1>2, <2>2 DEF CacheTrue
<1>7. cache' = c
  BY <1>1 DEF c
<1> QED
  BY <1>5, <1>6, <1>7, StepCacheOnly DEF Forgotten

LEMMA Stutter ==
    ASSUME QueryIInv, UNCHANGED qvars
    PROVE  QueryIInv'
BY InvFacts, FieldFacts, StepCacheOnly DEF qvars

-----------------------------------------------------------------------------
(* The theorems                                                             *)

LEMMA Begins ==
    QInit => QueryIInv
<1> SUFFICES ASSUME QInit PROVE QueryIInv
  OBVIOUS
<1>1. /\ at = "idle" /\ level = 0 /\ alias = <<>> /\ loop = 0 /\ type = "A" /\ cname = Root
      /\ name = [l \in Levels |-> Root] /\ control = [l \in Levels |-> Root]
      /\ ns = [l \in Levels |-> {}] /\ zservers = [l \in Levels |-> {}]
      /\ world \in Worlds /\ reply = NoReply
      /\ cache = [k \in (Types \cup {"ANY"}) \X NameSet |-> Absent]
  BY DEF QInit
<1>2. Root \in NameSet /\ LoopMax \in Nat /\ MaxAlias \in Nat /\ 0 \in Levels
  BY QueryConstants DEF Levels
<1>3. /\ cache \in [(Types \cup {"ANY"}) \X NameSet -> [known : BOOLEAN, data : SUBSET SomeData]]
      /\ \A k \in DOMAIN cache : cache[k].known = FALSE /\ cache[k].data = {}
  BY <1>1 DEF Absent
<1>4. \A n \in NameSet : cache[<<"NS", n>>].data \cup cache[<<"CNAME", n>>].data \subseteq NameSet
  <2> TAKE n \in NameSet
  <2>1. <<"NS", n>> \in DOMAIN cache /\ <<"CNAME", n>> \in DOMAIN cache
    BY <1>1 DEF Types
  <2> QED
    BY <1>3, <2>1
<1>5. Fields
  BY <1>1, <1>2, <1>3, <1>4 DEF Fields, Types
<1>6. InUse = {} /\ 1 .. level = {} /\ 1 .. Len(alias) = {}
  BY <1>1 DEF InUse
<1>7. Steered /\ Led /\ TrueFound /\ TrueChain /\ TrueCache
  BY <1>1, <1>3, <1>6 DEF Steered, Led, TrueFound, TrueChain, TrueCache
<1>8. AnswerIsTrue
  BY <1>1 DEF AnswerIsTrue, NoReply
<1> QED
  BY <1>5, <1>7, <1>8 DEF QueryIInv

LEMMA QueryStep ==
    ASSUME QueryIInv, [QNext]_qvars
    PROVE  QueryIInv'
<1>1. CASE query_start
  BY <1>1, Stepquery_start
<1>2. CASE Runs
  <2>1. CASE TooLong
    BY <2>1, StepTooLong
  <2>2. CASE globalip
    BY <2>2, Stepglobalip
  <2>3. CASE CachedNxdomain
    BY <2>3, StepCachedNxdomain
  <2>4. CASE CachedCname
    BY <2>4, StepCachedCname
  <2>5. CASE CachedAnswer
    BY <2>5, StepCachedAnswer
  <2>6. CASE ChooseServers
    BY <2>6, StepChooseServers
  <2>7. CASE NextNs
    BY <2>7, StepNextNs
  <2>8. CASE Send
    BY <2>8, StepSend
  <2>9. CASE NotSent
    BY <2>9, StepNotSent
  <2>10. CASE LOWERLEVEL
    BY <2>10, StepLOWERLEVEL
  <2>11. CASE NoName
    BY <2>11, StepNoName
  <2>12. CASE CNAME
    BY <2>12, StepCNAME
  <2>13. CASE HAVEPACKET
    BY <2>13, StepHAVEPACKET
  <2>14. CASE Unreadable
    BY <2>14, StepUnreadable
  <2>15. CASE Unanswered
    BY <2>15, StepUnanswered
  <2> QED
    BY <1>2, <2>1, <2>2, <2>3, <2>4, <2>5, <2>6, <2>7, <2>8, <2>9, <2>10, <2>11,
       <2>12, <2>13, <2>14, <2>15 DEF Runs
<1>3. CASE Forgotten
  BY <1>3, StepForgotten
<1>4. CASE UNCHANGED qvars
  BY <1>4, Stutter
<1> QED
  BY <1>1, <1>2, <1>3, <1>4 DEF QNext

(* The invariant of the engine is inductive: every label of doit, every     *)
(* packet, lying or not, every question and every entry the cache drops.     *)
THEOREM QueryInvariance == QSpec => []QueryIInv
<1>1. QInit => QueryIInv
  BY Begins
<1>2. QueryIInv /\ [QNext]_qvars => QueryIInv'
  BY QueryStep
<1> QED
  BY <1>1, <1>2, PTL DEF QSpec

(* query.c with roots.c: whatever servers that are not truthful put into      *)
(* their packets, the search stays above the names asked about, and nothing   *)
(* false of the protected zone is remembered or answered: no record that it   *)
(* has not, not that a type or a name of it is missing which it has.          *)
THEOREM LyingServersAreKeptOut == QSpec => []LiesAreKeptOut
<1>1. QueryIInv => LiesAreKeptOut
  <2> SUFFICES ASSUME QueryIInv PROVE LiesAreKeptOut
    OBVIOUS
  <2>1. ControlAboveName
    BY BelowFacts, InvFacts, SuffixDef DEF ControlAboveName
  <2>2. NeverPoisoned
    BY SameFields, ProtectedGuarded DEF QueryIInv, TrueCache, NeverPoisoned
  <2> QED
    BY <2>1, <2>2 DEF QueryIInv, LiesAreKeptOut
<1> QED
  BY <1>1, QueryInvariance, PTL

LEMMA QueryTypes == QueryIInv => QTypeOK
<1> SUFFICES ASSUME QueryIInv PROVE QTypeOK
  OBVIOUS
<1>1. \A k \in DOMAIN cache : cache[k].data \subseteq SomeData
  BY DEF QueryIInv, Fields
<1> QED
  BY <1>1 DEF QueryIInv, Fields, QTypeOK

(* query.c: every field keeps its type, level stays below QUERY_MAXLEVEL, loop *)
(* below its 100 and the aliases below QUERY_MAXALIAS.                        *)
THEOREM QueryTypeCorrect == QSpec => []QTypeOK
BY QueryTypes, QueryInvariance, PTL


-----------------------------------------------------------------------------
(* Names on the wire (Packet)                                               *)

\* What response_addname works on: the message, what is remembered of it
Msgs == {m \in Seq(Nat) : Len(m) <= MaxLen}
Tables == {t \in Seq(P!EndsAt) : Len(t) <= NAMES}
Builds == [msg : Msgs, table : Tables, ok : BOOLEAN, ended : BOOLEAN]

LEMMA MsgFacts ==
    /\ \A m \in Msgs : m \in Seq(Nat) /\ Len(m) \in Nat /\ Len(m) <= MaxLen
    /\ \A t \in Tables : t \in Seq(P!EndsAt) /\ Len(t) \in Nat /\ Len(t) <= NAMES
BY DEF Msgs, Tables

LEMMA BuildFacts ==
    ASSUME NEW r \in Builds
    PROVE  /\ r.msg \in Msgs /\ r.table \in Tables /\ r.ok \in BOOLEAN /\ r.ended \in BOOLEAN
           /\ [r EXCEPT !.ok = FALSE, !.ended = TRUE] \in Builds
           /\ [r EXCEPT !.ended = TRUE] \in Builds
           /\ \A m \in Msgs : [r EXCEPT !.msg = m] \in Builds
           /\ \A t \in Tables : [r EXCEPT !.table = t] \in Builds
<1>1. r.msg \in Msgs /\ r.table \in Tables /\ r.ok \in BOOLEAN /\ r.ended \in BOOLEAN
  BY DEF Builds
<1>2. [r EXCEPT !.ok = FALSE, !.ended = TRUE] \in Builds
  BY DEF Builds
<1>3. [r EXCEPT !.ended = TRUE] \in Builds
  BY DEF Builds
<1>4. ASSUME NEW m \in Msgs PROVE [r EXCEPT !.msg = m] \in Builds
  BY DEF Builds
<1>5. ASSUME NEW t \in Tables PROVE [r EXCEPT !.table = t] \in Builds
  BY DEF Builds
<1> QED
  BY <1>1, <1>2, <1>3, <1>4, <1>5

LEMMA AddbytesFacts ==
    ASSUME NEW r \in Builds, NEW bytes \in Seq(Nat)
    PROVE  P!response_addbytes(r, bytes) \in Builds
<1>1. r.msg \in Seq(Nat) /\ Len(r.msg) \in Nat
  BY BuildFacts, MsgFacts
<1>2. CASE Len(r.msg) + Len(bytes) > MaxLen
  BY <1>2, BuildFacts DEF P!response_addbytes
<1>3. CASE ~(Len(r.msg) + Len(bytes) > MaxLen)
  <2>1. P!response_addbytes(r, bytes) = [r EXCEPT !.msg = r.msg \o bytes]
    BY <1>3 DEF P!response_addbytes
  <2>2. r.msg \o bytes \in Msgs
    <3>1. r.msg \o bytes \in Seq(Nat) /\ Len(r.msg \o bytes) = Len(r.msg) + Len(bytes)
      BY <1>1, ConcatProperties
    <3> QED
      BY <1>1, <1>3, <3>1, PacketConstants DEF P!PacketConstants, Msgs
  <2> QED
    BY <2>1, <2>2, BuildFacts
<1> QED
  BY <1>2, <1>3

LEMMA PointerFacts ==
    ASSUME NEW place \in Nat PROVE P!Pointer(place) \in Seq(Nat)
<1>1. \A x \in Nat, r \in Nat \ {0} : x % r \in Nat /\ x \div r \in Nat
  OBVIOUS
<1>2. \A x, y \in Nat : x * y \in Nat /\ (x > 0 /\ y > 0 => x * y > 0)
  OBVIOUS
<1>3. Radix \in Nat \ {0} /\ Radix > 0
  BY PacketConstants DEF P!PacketConstants
<1>4. Radix * Radix \in Nat \ {0} /\ P!Compressed \in Nat
  BY <1>1, <1>2, <1>3 DEF P!Compressed
<1>5. P!Compressed * Radix + place \in Nat
  BY <1>2, <1>3, <1>4
<1>6. (P!Compressed * Radix + place) % (Radix * Radix) \in Nat
  BY <1>1, <1>4, <1>5
<1> DEFINE v == (P!Compressed * Radix + place) % (Radix * Radix)
<1>7. P!Pointer(place) = <<v \div Radix, v % Radix>>
  BY DEF P!Pointer
<1>8. v \in Nat
  BY <1>6
<1> HIDE DEF v
<1>9. v \div Radix \in Nat /\ v % Radix \in Nat
  BY <1>1, <1>3, <1>8
<1> QED
  BY <1>7, <1>9

LEMMA AddLabelFacts ==
    ASSUME NEW r \in Builds, NEW d \in Seq(Seq(Nat)), Len(d) > 0
    PROVE  P!AddLabel(r, d) \in Builds
<1> DEFINE t == r.table
           same == {j \in 1 .. Len(t) : t[j].name = d}
           first == CHOOSE j \in same : \A k \in same : j <= k
<1>1. t \in Seq(P!EndsAt) /\ Len(t) \in Nat /\ Len(t) <= NAMES /\ Len(r.msg) \in Nat
  BY BuildFacts, MsgFacts
<1> HIDE DEF t
<1>2. CASE r.ended
  BY <1>2 DEF P!AddLabel
<1>3. CASE ~r.ended /\ same # {}
  <2>1. first \in same
    <3>1. IsFiniteSet(same)
      <4>1. IsFiniteSet(1 .. Len(t))
        BY <1>1, FS_Interval
      <4>2. same \subseteq 1 .. Len(t)
        OBVIOUS
      <4> HIDE DEF same
      <4> QED
        BY <4>1, <4>2, FS_Subset
    <3>2. \E j \in same : \A k \in same : j <= k
      <4>1. same \in SUBSET Nat
        BY <1>1
      <4> HIDE DEF same
      <4> QED
        BY <1>3, <3>1, <4>1, Least
    <3> HIDE DEF same
    <3> QED
      BY <3>2
  <2>2. first \in 1 .. Len(t)
    BY <2>1
  <2> HIDE DEF first
  <2>3. P!Pointer(t[first].at) \in Seq(Nat)
    <3>1. t[first] \in P!EndsAt
      BY <1>1, <2>2
    <3>2. t[first].at \in Nat
      BY <3>1 DEF P!EndsAt
    <3> QED
      BY <3>2, PointerFacts
  <2>4. P!AddLabel(r, d) =
            [P!response_addbytes(r, P!Pointer(t[first].at)) EXCEPT !.ended = TRUE]
    BY <1>3 DEF P!AddLabel, first, t
  <2> QED
    BY <2>3, <2>4, AddbytesFacts, BuildFacts
<1>4. CASE ~r.ended /\ same = {}
  <2> DEFINE e == [name |-> d, at |-> Len(r.msg)]
             s == P!Remember(r, d)
  <2>1. P!AddLabel(r, d) = P!response_addbytes(s, <<Len(d[1])>> \o d[1])
    BY <1>4 DEF P!AddLabel, t
  <2>2. s \in Builds
    <3>1. CASE P!dns_domain_length(d) <= Remembered /\ Len(t) < NAMES
      <4>1. s = [r EXCEPT !.table = Append(t, e)]
        BY <3>1 DEF P!Remember, t
      <4>2. e \in P!EndsAt
        BY <1>1 DEF P!EndsAt
      <4> HIDE DEF e
      <4>3. Append(t, e) \in Tables
        <5>1. Append(t, e) \in Seq(P!EndsAt) /\ Len(Append(t, e)) = Len(t) + 1
          BY <1>1, <4>2, AppendProperties
        <5> QED
          BY <1>1, <3>1, <5>1, PacketConstants DEF P!PacketConstants, Tables
      <4> HIDE DEF s
      <4> QED
        BY <4>1, <4>3, BuildFacts
    <3>2. CASE ~(P!dns_domain_length(d) <= Remembered /\ Len(t) < NAMES)
      BY <3>2 DEF P!Remember, t
    <3> QED
      BY <3>1, <3>2
  <2>3. <<Len(d[1])>> \o d[1] \in Seq(Nat)
    <3>1. d[1] \in Seq(Nat)
      OBVIOUS
    <3>2. <<Len(d[1])>> \in Seq(Nat)
      BY <3>1
    <3> QED
      BY <3>1, <3>2, ConcatProperties
  <2> HIDE DEF s
  <2> QED
    BY <2>1, <2>2, <2>3, AddbytesFacts
<1> QED
  BY <1>2, <1>3, <1>4

LEMMA AddnameFacts ==
    ASSUME P!PacketInv, NEW d \in Names
    PROVE  P!response_addname(d) \in Builds
<1> DEFINE L == Len(d)
           base == [msg |-> msg, table |-> remembered, ok |-> TRUE, ended |-> FALSE]
           F == [p \in Builds \X (0 .. L) |->
                    IF p[2] = 0 THEN base ELSE P!AddLabel(p[1], P!EndFrom(d, p[2]))]
           add[i \in 0 .. L] == IF i = 0 THEN base ELSE P!AddLabel(add[i - 1], P!EndFrom(d, i))
<1>1. d \in Seq(Seq(Nat)) /\ L \in Nat /\ base \in Builds
  <2>1. d \in Seq(Seq(Nat))
    BY PacketConstants DEF P!PacketConstants
  <2>2. base \in Builds
    BY DEF P!PacketInv, Builds, Msgs, Tables
  <2> HIDE DEF base
  <2> QED
    BY <2>1, <2>2
<1>2. ASSUME NEW i \in 1 .. L PROVE P!EndFrom(d, i) \in Seq(Seq(Nat)) /\ Len(P!EndFrom(d, i)) > 0
  <2>1. \A k \in i .. L : d[k] \in Seq(Nat)
    BY <1>1
  <2>2. i <= L /\ L - i + 1 > 0 /\ i \in Int
    BY <1>1
  <2> HIDE DEF L
  <2>3. SubSeq(d, i, L) \in Seq(Seq(Nat)) /\ Len(SubSeq(d, i, L)) = L - i + 1
    BY <1>1, <2>1, <2>2, SubSeqProperties
  <2> QED
    BY <2>2, <2>3 DEF P!EndFrom, L
<1> HIDE DEF L, base, F, add
<1>3. F \in [Builds \X (0 .. L) -> Builds]
  <2>1. ASSUME NEW r \in Builds, NEW i \in 0 .. L
        PROVE  (IF i = 0 THEN base ELSE P!AddLabel(r, P!EndFrom(d, i))) \in Builds
    <3>1. CASE i = 0
      BY <1>1, <3>1
    <3>2. CASE i # 0
      <4>1. i \in 1 .. L
        BY <1>1, <3>2
      <4> QED
        BY <1>2, <3>2, <4>1, AddLabelFacts
    <3> QED
      BY <3>1, <3>2
  <2> QED
    BY <2>1 DEF F
<1>4. PICK g : Iterates(g, F, Builds, base, 0, L)
  <2>1. 0 <= L /\ 0 \in Nat /\ Steps(F, Builds, 0, L)
    BY <1>1, <1>3 DEF Steps
  <2> QED
    BY <1>1, <2>1, Iterated
<1>5. g \in [0 .. L -> Builds] /\ g[0] = base /\ \A n \in 1 .. L : g[n] = F[<<g[n - 1], n>>]
  BY <1>4 DEF Iterates
<1>6. g = [i \in 0 .. L |-> IF i = 0 THEN base ELSE P!AddLabel(g[i - 1], P!EndFrom(d, i))]
  <2>1. ASSUME NEW i \in 0 .. L, i # 0 PROVE g[i] = P!AddLabel(g[i - 1], P!EndFrom(d, i))
    <3>1. i \in 1 .. L /\ i - 1 \in 0 .. L
      BY <1>1, <2>1
    <3>2. <<g[i - 1], i>> \in Builds \X (0 .. L)
      BY <1>5, <3>1
    <3> QED
      BY <1>5, <2>1, <3>1, <3>2 DEF F
  <2> QED
    BY <1>5, <2>1
<1>7. add = [i \in 0 .. L |-> IF i = 0 THEN base ELSE P!AddLabel(add[i - 1], P!EndFrom(d, i))]
  BY <1>6 DEF add
<1> DEFINE B == {i \in 0 .. L : add[i] \in Builds}
<1>8. 0 \in B
  BY <1>1, <1>7
<1>9. ASSUME NEW i \in 0 + 1 .. L, i - 1 \in B PROVE i \in B
  <2>1. i \in 1 .. L /\ i \in 0 .. L /\ i # 0
    BY <1>1
  <2>2. add[i] = P!AddLabel(add[i - 1], P!EndFrom(d, i))
    BY <1>7, <2>1
  <2> QED
    BY <1>2, <1>9, <2>1, <2>2, AddLabelFacts
<1>10. \A i \in 0 .. L : i \in B
  <2> HIDE DEF B
  <2> QED
    BY <1>1, <1>8, <1>9, Stepwise
<1>11. add[L] \in Builds
  BY <1>1, <1>10
<1>12. P!response_addname(d) =
          IF add[L].ended THEN add[L] ELSE P!response_addbytes(add[L], <<0>>)
  BY DEF P!response_addname, add, L, base
<1>13. P!response_addbytes(add[L], <<0>>) \in Builds
  <2>1. <<0>> \in Seq(Nat)
    OBVIOUS
  <2> QED
    BY <1>11, <2>1, AddbytesFacts
<1> QED
  BY <1>11, <1>12, <1>13

LEMMA PacketBegins == P!PInit => P!PacketInv
<1> SUFFICES ASSUME P!PInit PROVE P!PacketInv
  OBVIOUS
<1>1. remembered = <<>> /\ <<>> \in Seq(P!EndsAt) /\ Len(<<>>) = 0
  BY DEF P!PInit
<1>2. \A n \in Nat : P!Zeros(n) \in Seq(Nat) /\ Len(P!Zeros(n)) = n
  BY DEF P!Zeros
<1> QED
  BY <1>1, <1>2, PacketConstants DEF P!PInit, P!PacketInv, P!PacketConstants

LEMMA PacketStep ==
    ASSUME P!PacketInv, [P!PNext]_packetVars PROVE P!PacketInv'
<1>1. CASE P!AddName
  <2>1. PICK d \in Names : msg' = P!response_addname(d).msg /\ remembered' = P!response_addname(d).table
    BY <1>1 DEF P!AddName
  <2> QED
    BY <2>1, AddnameFacts, BuildFacts DEF P!PacketInv, Msgs, Tables
<1>2. CASE P!AddBytes
  <2>1. PICK n \in Fillers : Len(msg) + n <= MaxLen /\ msg' = msg \o P!Zeros(n)
    BY <1>2 DEF P!AddBytes
  <2>2. n \in Nat /\ msg \in Seq(Nat)
    BY PacketConstants DEF P!PacketConstants, P!PacketInv
  <2>3. P!Zeros(n) \in Seq(Nat) /\ Len(P!Zeros(n)) = n
    BY <2>2 DEF P!Zeros
  <2>4. msg' \in Seq(Nat) /\ Len(msg') = Len(msg) + n
    BY <2>1, <2>2, <2>3, ConcatProperties
  <2> QED
    BY <1>2, <2>1, <2>4 DEF P!PacketInv, P!AddBytes
<1>3. CASE UNCHANGED packetVars
  BY <1>3 DEF packetVars, P!PacketInv
<1> QED
  BY <1>1, <1>2, <1>3 DEF P!PNext

-----------------------------------------------------------------------------
(* Host names (Qualify)                                                     *)

LEMMA RefreshFacts ==
    ASSUME Host!HostIInv, NEW c, Host!Cached(c), NEW value
    PROVE  /\ Host!Cached(Host!Fetched(c, value))
           /\ Host!Fetched(c, value).ok =>
                \/ /\ c.ok /\ clock <= c.deadline
                   /\ Host!Fetched(c, value).value = c.value
                   /\ Host!Fetched(c, value).deadline = c.deadline
                \/ /\ value # Unread /\ Host!Fetched(c, value).value = value
                   /\ Host!Fetched(c, value).deadline = clock + Life
<1> DEFINE n == Host!Fetched(c, value)
<1>1. /\ c = [ok |-> c.ok, uses |-> c.uses, deadline |-> c.deadline, value |-> c.value]
      /\ c.ok \in BOOLEAN /\ c.uses \in 0 .. Uses - 1 /\ c.deadline \in Int
      /\ c.ok => c.value # Unread
  BY DEF Host!Cached
<1>2. Uses \in Nat \ {0} /\ Life \in Nat /\ clock \in Nat /\ clock + Life \in Int
  BY QualifyConstants DEF Host!HostIInv, Host!QualifyConstants
<1>3. CASE Host!Valid(c)
  <2>1. c.ok /\ clock <= c.deadline /\ c.uses > 0
    BY <1>1, <1>2, <1>3 DEF Host!Valid
  <2>2. n = [c EXCEPT !.uses = @ - 1]
    BY <1>3 DEF Host!Fetched
  <2>3. /\ n = [ok |-> n.ok, uses |-> n.uses, deadline |-> n.deadline, value |-> n.value]
        /\ n.ok = c.ok /\ n.uses = c.uses - 1 /\ n.deadline = c.deadline /\ n.value = c.value
    BY <1>1, <2>2
  <2>4. c.uses - 1 \in 0 .. Uses - 1
    BY <1>1, <1>2, <2>1
  <2> HIDE DEF n
  <2>5. Host!Cached(n)
    BY <1>1, <2>3, <2>4 DEF Host!Cached
  <2> QED
    BY <2>1, <2>3, <2>5 DEF n
<1>4. CASE ~Host!Valid(c) /\ value = Unread
  <2>1. n = [c EXCEPT !.ok = FALSE, !.value = value]
    BY <1>4 DEF Host!Fetched
  <2>2. /\ n = [ok |-> n.ok, uses |-> n.uses, deadline |-> n.deadline, value |-> n.value]
        /\ n.ok = FALSE /\ n.uses = c.uses /\ n.deadline = c.deadline
    BY <1>1, <2>1
  <2> HIDE DEF n
  <2>3. Host!Cached(n) /\ ~n.ok
    BY <1>1, <2>2 DEF Host!Cached
  <2> QED
    BY <2>3 DEF n
<1>5. CASE ~Host!Valid(c) /\ value # Unread
  <2>1. n = [ok |-> TRUE, uses |-> Uses - 1, deadline |-> clock + Life, value |-> value]
    BY <1>5 DEF Host!Fetched
  <2>2. Uses - 1 \in 0 .. Uses - 1
    BY <1>2
  <2>3. Host!Cached(n)
    BY <1>2, <1>5, <2>1, <2>2 DEF Host!Cached
  <2> QED
    BY <1>5, <2>1, <2>3
<1> QED
  BY <1>3, <1>4, <1>5

\* There is always a server to ask.
LEMMA SomeServers ==
    ASSUME NEW f \in Files
    PROVE  Host!ServersOf(f) # <<>> \/ Host!ServersOf(f) = Unread
<1>1. f.resolv \notin {Missing, Unread} => f.resolv.servers \in Seq(STRING)
  BY QualifyConstants DEF Host!QualifyConstants
<1>2. ASSUME NEW s \in Seq(STRING), NEW g, DOMAIN g = DOMAIN s, s # <<>> PROVE g # <<>>
  BY <1>2
<1> QED
  BY <1>1, <1>2 DEF Host!ServersOf

\* What a question needs of the cache of servers
LEMMA ResolverFacts ==
    ASSUME Host!HostIInv, NEW c, c = Host!dns_resolvconfip
    PROVE  /\ Host!Cached(c)
           /\ c.ok =>
                /\ c.value # <<>>
                /\ \E t \in 0 .. clock : c.deadline = t + Life /\ Host!NamedIn(t, c.value)
                /\ \E t \in Host!Recent(clock) : Host!NamedIn(t, c.value)
<1>1. /\ clock \in 0 .. MaxTime /\ clock \in Nat /\ files \in Files /\ Host!Cached(resolvers)
      /\ files \in was[clock] /\ Life \in Nat
  BY QualifyConstants DEF Host!HostIInv, Host!QualifyConstants
<1>2. c = Host!Fetched(resolvers, Host!ServersOf(files))
  BY DEF Host!dns_resolvconfip
<1>3. Host!Cached(c)
  BY <1>1, <1>2, RefreshFacts
<1>4. ASSUME c.ok, resolvers.ok, clock <= resolvers.deadline,
             c.value = resolvers.value, c.deadline = resolvers.deadline
      PROVE  /\ c.value # <<>>
             /\ \E t \in 0 .. clock : c.deadline = t + Life /\ Host!NamedIn(t, c.value)
             /\ \E t \in Host!Recent(clock) : Host!NamedIn(t, c.value)
  <2>1. /\ resolvers.value # <<>>
        /\ \E t \in 0 .. clock : resolvers.deadline = t + Life /\ Host!NamedIn(t, resolvers.value)
    BY <1>4 DEF Host!HostIInv
  <2>2. PICK t \in 0 .. clock : resolvers.deadline = t + Life /\ Host!NamedIn(t, resolvers.value)
    BY <2>1
  <2>3. t \in Host!Recent(clock)
    BY <1>1, <1>4, <2>2 DEF Host!Recent
  <2> QED
    BY <1>4, <2>1, <2>2, <2>3
<1>5. ASSUME c.ok, Host!ServersOf(files) # Unread, c.value = Host!ServersOf(files),
             c.deadline = clock + Life
      PROVE  /\ c.value # <<>>
             /\ \E t \in 0 .. clock : c.deadline = t + Life /\ Host!NamedIn(t, c.value)
             /\ \E t \in Host!Recent(clock) : Host!NamedIn(t, c.value)
  <2>1. Host!NamedIn(clock, c.value)
    BY <1>1, <1>5 DEF Host!NamedIn
  <2>2. clock \in 0 .. clock /\ clock \in Host!Recent(clock)
    BY <1>1 DEF Host!Recent
  <2>3. c.value # <<>>
    BY <1>1, <1>5, SomeServers
  <2> QED
    BY <1>5, <2>1, <2>2, <2>3
<1> QED
  BY <1>1, <1>2, <1>3, <1>4, <1>5, RefreshFacts

LEMMA HostBegins == Host!QualifyInit => Host!HostIInv
<1> SUFFICES ASSUME Host!QualifyInit PROVE Host!HostIInv
  OBVIOUS
<1>1. Uses \in Nat \ {0} /\ Life \in Nat /\ MaxTime \in Nat
  BY QualifyConstants DEF Host!QualifyConstants
<1>2. clock = 0 /\ clock \in 0 .. MaxTime /\ files \in Files /\ call = [stage |-> "idle"]
  BY <1>1 DEF Host!QualifyInit, Host!Idle
<1>3. was \in [0 .. MaxTime -> SUBSET Files] /\ files \in was[clock]
  BY <1>2 DEF Host!QualifyInit
<1>4. rules = Host!Empty /\ resolvers = Host!Empty
  BY DEF Host!QualifyInit
<1>5. Host!Cached(Host!Empty) /\ Host!Empty.ok = FALSE
  BY <1>1 DEF Host!Cached, Host!Empty
<1>6. Host!CallOK /\ call.stage # "wait"
  BY <1>2 DEF Host!CallOK
<1> QED
  BY <1>2, <1>3, <1>4, <1>5, <1>6 DEF Host!HostIInv

\* Files that were there are remembered, so what they named stays named.
LEMMA StillNamed ==
    ASSUME env' = env, Host!HostIInv, NEW t, NEW value, Host!NamedIn(t, value),
           was[t] \subseteq was'[t]
    PROVE  \E f \in was'[t] : value = Host!ServersOf(f)'
<1>1. PICK f \in was[t] : value = Host!ServersOf(f)
  BY DEF Host!NamedIn
<1>2. Host!ServersOf(f)' = Host!ServersOf(f)
  BY DEF Host!ServersOf
<1> QED
  BY <1>1, <1>2

\* Of a step that neither fetches rules nor files: the caches and the calls are
\* what matters.
LEMMA CallStep ==
    ASSUME Host!HostIInv, UNCHANGED <<env, files, clock, was>>,
           Host!Cached(rules)', Host!Cached(resolvers)', Host!CallOK',
           \/ resolvers' = resolvers
           \/ resolvers' = Host!dns_resolvconfip,
           call'.stage = "wait" =>
                \/ call' = call
                \/ /\ resolvers'.ok /\ resolvers' = Host!dns_resolvconfip
                   /\ call'.using = resolvers'.value /\ call'.asked = clock
    PROVE  Host!HostIInv'
<1>1. /\ clock \in 0 .. MaxTime /\ clock \in Nat /\ files \in Files
      /\ was \in [0 .. MaxTime -> SUBSET Files] /\ files \in was[clock]
  BY QualifyConstants DEF Host!HostIInv, Host!QualifyConstants
<1>2. \A t, value : Host!NamedIn(t, value) => \E f \in was'[t] : value = Host!ServersOf(f)'
  BY StillNamed
<1>3. resolvers'.ok =>
        /\ resolvers'.value # <<>>
        /\ \E t \in 0 .. clock : resolvers'.deadline = t + Life /\ Host!NamedIn(t, resolvers'.value)
  <2>1. CASE resolvers' = resolvers
    BY <2>1 DEF Host!HostIInv
  <2>2. CASE resolvers' = Host!dns_resolvconfip
    BY <2>2, ResolverFacts
  <2> QED
    BY <2>1, <2>2
<1>4. call'.stage = "wait" =>
        /\ call'.using # <<>> /\ call'.asked \in 0 .. clock
        /\ \E t \in Host!Recent(call'.asked) : Host!NamedIn(t, call'.using)
  <2>1. CASE call' = call
    BY <2>1 DEF Host!HostIInv
  <2>2. CASE /\ resolvers'.ok /\ resolvers' = Host!dns_resolvconfip
             /\ call'.using = resolvers'.value /\ call'.asked = clock
    <3>1. clock \in 0 .. clock
      BY <1>1
    <3>2. resolvers'.value # <<>> /\ \E t \in Host!Recent(clock) : Host!NamedIn(t, resolvers'.value)
      BY <2>2, ResolverFacts
    <3> QED
      BY <2>2, <3>1, <3>2
  <2> QED
    BY <2>1, <2>2
<1>5. clock' = clock /\ files' = files /\ was' = was
  OBVIOUS
<1>6. resolvers'.ok =>
        /\ resolvers'.value # <<>>
        /\ \E t \in 0 .. clock' :
              resolvers'.deadline = t + Life /\ \E f \in was'[t] : resolvers'.value = Host!ServersOf(f)'
  BY <1>2, <1>3, <1>5
<1>7. call'.stage = "wait" =>
        /\ call'.using # <<>> /\ call'.asked \in 0 .. clock'
        /\ \E t \in Host!Recent(call'.asked) : \E f \in was'[t] : call'.using = Host!ServersOf(f)'
  BY <1>2, <1>4, <1>5
<1> QED
  BY <1>1, <1>5, <1>6, <1>7 DEF Host!HostIInv, Host!NamedIn, Host!Recent

LEMMA AskStep ==
    ASSUME Host!HostIInv, NEW h, Host!dns_ip4_qualify(h)
    PROVE  Host!HostIInv'
<1>1. /\ UNCHANGED <<env, files, clock, was, resolvers>>
      /\ rules' = Host!Fetched(rules, Host!RulesOf(files))
  BY DEF Host!dns_ip4_qualify, Host!dns_resolvconfrewrite
<1>2. Host!Cached(rules) /\ Host!Cached(resolvers)
  BY DEF Host!HostIInv
<1>3. Host!Cached(rules') /\ Host!Cached(resolvers')
  BY <1>1, <1>2, RefreshFacts
<1>4. PICK s, plus, i : call' \in {Host!Called("A", h, s, plus, i),
                               [Host!Called("A", h, s, plus, i) EXCEPT !.stage = "failed"]}
  BY DEF Host!dns_ip4_qualify
<1>5. Host!CallOK' /\ call'.stage # "wait"
  BY <1>4 DEF Host!CallOK, Host!Fields, Host!Called
<1>6. Host!Cached(rules)' /\ Host!Cached(resolvers)'
  BY <1>3 DEF Host!Cached
<1> QED
  BY <1>1, <1>5, <1>6, CallStep

LEMMA SimpleStep ==
    ASSUME Host!HostIInv, NEW kind, NEW h, Host!Simple(kind, h)
    PROVE  Host!HostIInv'
<1>1. /\ UNCHANGED <<env, files, clock, was, rules, resolvers>>
      /\ call' = Host!Called(kind, h, h, Len(h), Len(h) + 1)
  BY DEF Host!Simple
<1>2. Host!Cached(rules)' /\ Host!Cached(resolvers)'
  BY <1>1 DEF Host!HostIInv, Host!Cached
<1>3. Host!CallOK' /\ call'.stage # "wait"
  BY <1>1 DEF Host!CallOK, Host!Fields, Host!Called
<1> QED
  BY <1>1, <1>2, <1>3, CallStep

\* A call that goes on has all its fields.
LEMMA GotFacts ==
    ASSUME NEW c, c = [f \in Host!Fields |-> c[f]], NEW out
    PROVE  /\ Host!Got(c, out).stage \in {"done", "name"}
           /\ Host!Got(c, out) = [f \in Host!Fields |-> Host!Got(c, out)[f]]
BY DEF Host!Got, Host!Fields, Host!Called

LEMMA NameStep ==
    ASSUME Host!HostIInv, Host!Name
    PROVE  Host!HostIInv'
<1>1. /\ UNCHANGED <<env, files, clock, was, rules>>
      /\ call = [f \in Host!Fields |-> call[f]]
      /\ Host!Cached(rules) /\ Host!Cached(resolvers)
  BY DEF Host!Name, Host!HostIInv, Host!CallOK
<1> DEFINE j == IF call.i > Len(call.s) THEN 0 ELSE Host!UpToPlus(call.s, call.i)
           s == Host!Shifted(call.s, call.plus, call.i, j)
           n == SubSeq(s, 1, call.plus + j)
           c == [call EXCEPT !.s = s, !.i = @ + j, !.names = Append(@, n)]
<1>2. \/ (\E out : call' = Host!Got(c, out)) /\ resolvers' = resolvers
      \/ /\ resolvers' = Host!dns_resolvconfip
         /\ IF resolvers'.ok
            THEN call' = [c EXCEPT !.stage = "wait", !.using = resolvers'.value, !.asked = clock]
            ELSE Host!Fails
  <2>1. CASE call.type = "A" /\ Host!Literal(n)
    BY <2>1 DEF Host!Name
  <2>2. CASE ~(call.type = "A" /\ Host!Literal(n))
    BY <2>2 DEF Host!Name
  <2> QED
    BY <2>1, <2>2
<1> HIDE DEF j, s, n
<1>3. c = [f \in Host!Fields |-> c[f]]
  BY <1>1 DEF Host!Fields
<1> HIDE DEF c
<1>4. CASE (\E out : call' = Host!Got(c, out)) /\ resolvers' = resolvers
  <2>1. PICK out : call' = Host!Got(c, out)
    BY <1>4
  <2>2. Host!CallOK' /\ call'.stage # "wait"
    BY <1>3, <2>1, GotFacts DEF Host!CallOK
  <2>3. Host!Cached(rules)' /\ Host!Cached(resolvers)'
    BY <1>1, <1>4 DEF Host!Cached
  <2> QED
    BY <1>1, <1>4, <2>2, <2>3, CallStep
<1>5. CASE /\ resolvers' = Host!dns_resolvconfip
           /\ IF resolvers'.ok
              THEN call' = [c EXCEPT !.stage = "wait", !.using = resolvers'.value,
                                     !.asked = clock]
              ELSE Host!Fails
  <2>1. Host!Cached(resolvers')
    BY <1>5, ResolverFacts
  <2>2. Host!Cached(rules)' /\ Host!Cached(resolvers)'
    BY <1>1, <2>1 DEF Host!Cached
  <2>3. CASE resolvers'.ok
    <3>1. call' = [c EXCEPT !.stage = "wait", !.using = resolvers'.value, !.asked = clock]
      BY <1>5, <2>3
    <3>2. /\ call'.stage = "wait" /\ call'.using = resolvers'.value /\ call'.asked = clock
          /\ call' = [f \in Host!Fields |-> call'[f]]
      BY <1>3, <3>1 DEF Host!Fields
    <3>3. Host!CallOK'
      BY <3>2 DEF Host!CallOK
    <3> QED
      BY <1>1, <1>5, <2>2, <2>3, <3>2, <3>3, CallStep
  <2>4. CASE ~resolvers'.ok
    <3>1. call' = [call EXCEPT !.stage = "failed"]
      BY <1>5, <2>4 DEF Host!Fails
    <3>2. call'.stage = "failed"
      BY <1>1, <3>1 DEF Host!Fields
    <3>3. Host!CallOK'
      BY <3>2 DEF Host!CallOK
    <3> QED
      BY <1>1, <1>5, <2>2, <3>2, <3>3, CallStep
  <2> QED
    BY <2>3, <2>4
<1> QED
  BY <1>2, <1>4, <1>5

LEMMA AnsweredStep ==
    ASSUME Host!HostIInv, Host!Answered
    PROVE  Host!HostIInv'
<1>1. /\ UNCHANGED <<env, files, clock, was, rules, resolvers>>
      /\ call = [f \in Host!Fields |-> call[f]]
  BY DEF Host!Answered, Host!HostIInv, Host!CallOK
<1>2. Host!Cached(rules)' /\ Host!Cached(resolvers)'
  BY <1>1 DEF Host!HostIInv, Host!Cached
<1>3. Host!Fails \/ \E out : call' = Host!Got(call, out)
  BY DEF Host!Answered
<1>4. CASE Host!Fails
  <2>1. call' = [call EXCEPT !.stage = "failed"]
    BY <1>4 DEF Host!Fails
  <2>2. call'.stage = "failed"
    BY <1>1, <2>1 DEF Host!Fields
  <2>3. Host!CallOK'
    BY <2>2 DEF Host!CallOK
  <2> QED
    BY <1>1, <1>2, <2>2, <2>3, CallStep
<1>5. CASE \E out : call' = Host!Got(call, out)
  <2>1. PICK out : call' = Host!Got(call, out)
    BY <1>5
  <2>2. Host!CallOK' /\ call'.stage # "wait"
    BY <1>1, <2>1, GotFacts DEF Host!CallOK
  <2> QED
    BY <1>1, <1>2, <2>2, CallStep
<1> QED
  BY <1>3, <1>4, <1>5

\* Files that change and time that passes leave what was fetched fetched then.
LEMMA OthersStep ==
    ASSUME Host!HostIInv, UNCHANGED <<env, rules, resolvers, call>>,
           clock' \in 0 .. MaxTime, clock <= clock', files' \in Files,
           was' \in [0 .. MaxTime -> SUBSET Files], files' \in was'[clock'],
           \A t \in 0 .. clock : was[t] \subseteq was'[t]
    PROVE  Host!HostIInv'
<1>1. /\ clock \in Nat /\ clock' \in Nat /\ 0 .. clock \subseteq 0 .. clock'
      /\ Host!Cached(rules) /\ Host!Cached(resolvers) /\ Host!CallOK
  BY QualifyConstants DEF Host!HostIInv, Host!QualifyConstants
<1>2. \A t \in 0 .. clock : \A value :
        Host!NamedIn(t, value) => \E f \in was'[t] : value = Host!ServersOf(f)'
  BY StillNamed
<1>3. Host!Cached(rules)' /\ Host!Cached(resolvers)' /\ Host!CallOK'
  BY <1>1 DEF Host!Cached, Host!CallOK
<1>4. resolvers'.ok =>
        /\ resolvers'.value # <<>>
        /\ \E t \in 0 .. clock' :
              resolvers'.deadline = t + Life /\ \E f \in was'[t] : resolvers'.value = Host!ServersOf(f)'
  BY <1>1, <1>2 DEF Host!HostIInv
<1>5. call'.stage = "wait" =>
        /\ call'.using # <<>> /\ call'.asked \in 0 .. clock'
        /\ \E t \in Host!Recent(call'.asked) : \E f \in was'[t] : call'.using = Host!ServersOf(f)'
  <2> SUFFICES ASSUME call.stage = "wait"
               PROVE  /\ call.using # <<>> /\ call.asked \in 0 .. clock'
                      /\ \E t \in Host!Recent(call.asked) :
                            \E f \in was'[t] : call.using = Host!ServersOf(f)'
    OBVIOUS
  <2>1. /\ call.using # <<>> /\ call.asked \in 0 .. clock
        /\ \E t \in Host!Recent(call.asked) : Host!NamedIn(t, call.using)
    BY DEF Host!HostIInv
  <2>2. PICK t \in Host!Recent(call.asked) : Host!NamedIn(t, call.using)
    BY <2>1
  <2>3. t \in 0 .. clock
    BY <1>1, <2>1, <2>2 DEF Host!Recent
  <2> QED
    BY <1>1, <1>2, <2>1, <2>2, <2>3
<1> QED
  BY <1>3, <1>4, <1>5 DEF Host!HostIInv, Host!NamedIn, Host!Recent

LEMMA HostStep ==
    ASSUME Host!HostIInv, [Host!QualifyNext]_qualifyVars
    PROVE  Host!HostIInv'
<1>1. /\ clock \in 0 .. MaxTime /\ MaxTime \in Nat /\ clock \in Nat /\ files \in Files
      /\ was \in [0 .. MaxTime -> SUBSET Files] /\ files \in was[clock]
  BY QualifyConstants DEF Host!HostIInv, Host!QualifyConstants
<1>2. ASSUME NEW h, Host!dns_ip4_qualify(h) PROVE Host!HostIInv'
  BY <1>2, AskStep
<1>3. ASSUME NEW h, Host!dns_mx(h) \/ Host!dns_txt(h) \/ Host!dns_name4(h) PROVE Host!HostIInv'
  BY <1>3, SimpleStep DEF Host!dns_mx, Host!dns_txt, Host!dns_name4
<1>4. CASE Host!Name
  BY <1>4, NameStep
<1>5. CASE Host!Answered
  BY <1>5, AnsweredStep
<1>6. CASE Host!EditFiles
  <2>1. /\ UNCHANGED <<env, rules, resolvers, call>> /\ clock' = clock /\ files' \in Files
        /\ was' = [was EXCEPT ![clock] = was[clock] \cup {files'}]
    BY <1>6 DEF Host!EditFiles
  <2>2. /\ was' \in [0 .. MaxTime -> SUBSET Files] /\ files' \in was'[clock']
        /\ \A t \in 0 .. clock : was[t] \subseteq was'[t]
    BY <1>1, <2>1
  <2>3. clock' \in 0 .. MaxTime /\ clock <= clock'
    BY <1>1, <2>1
  <2> QED
    BY <2>1, <2>2, <2>3, OthersStep
<1>7. CASE Host!Tick
  <2>1. /\ UNCHANGED <<env, rules, resolvers, call>> /\ clock' = clock + 1 /\ clock < MaxTime
        /\ files' = files /\ was' = [was EXCEPT ![clock'] = {files}]
    BY <1>7 DEF Host!Tick
  <2>2. clock' \in 0 .. MaxTime /\ clock <= clock'
    BY <1>1, <2>1
  <2>3. \A t \in 0 .. clock : t # clock'
    BY <1>1, <2>1
  <2>4. /\ was' \in [0 .. MaxTime -> SUBSET Files] /\ files' \in was'[clock']
        /\ \A t \in 0 .. clock : was[t] \subseteq was'[t]
    BY <1>1, <2>1, <2>2, <2>3
  <2>5. files' \in Files
    BY <1>1, <2>1
  <2> QED
    BY <2>1, <2>2, <2>4, <2>5, OthersStep
<1>8. CASE UNCHANGED qualifyVars
  <2>1. UNCHANGED <<env, rules, resolvers, call, clock, files, was>> /\ clock <= clock'
    BY <1>1, <1>8 DEF qualifyVars
  <2> QED
    BY <1>1, <2>1, OthersStep
<1> QED
  BY <1>2, <1>3, <1>4, <1>5, <1>6, <1>7, <1>8 DEF Host!QualifyNext

-----------------------------------------------------------------------------
(* The four parts together                                                  *)

LEMMA EachByItself ==
    ResolverSpec => [](IInv /\ QueryIInv /\ P!PacketInv /\ Host!HostIInv)
<1> DEFINE Inv == IInv /\ QueryIInv /\ P!PacketInv /\ Host!HostIInv
           Step == TransmitOnly \/ QueryOnly \/ PacketOnly \/ QualifyOnly
           all == <<part, vars, qvars, packetVars, qualifyVars>>
<1>1. ResolverInit => Inv
  BY InitInv, Begins, PacketBegins, HostBegins DEF ResolverInit
<1>2. ASSUME Inv, [Step]_all PROVE Inv'
  <2>1. /\ [Next]_vars /\ [QNext]_qvars
        /\ [P!PNext]_packetVars /\ [Host!QualifyNext]_qualifyVars
    BY <1>2 DEF TransmitOnly, QueryOnly, PacketOnly, QualifyOnly
  <2>2. IInv'
    BY <1>2, <2>1, InvarianceStep
  <2> QED
    BY <1>2, <2>1, <2>2, QueryStep, PacketStep, HostStep
<1> QED
  BY <1>1, <1>2, PTL DEF ResolverSpec

\* One of the parts runs, the same all the time.
LEMMA OnePart ==
    ResolverSpec => [](part \in {"transmit", "query", "packet", "qualify"})
<1> DEFINE One4 == part \in {"transmit", "query", "packet", "qualify"}
           Step == TransmitOnly \/ QueryOnly \/ PacketOnly \/ QualifyOnly
           all == <<part, vars, qvars, packetVars, qualifyVars>>
<1>1. ResolverInit => One4
  BY DEF ResolverInit
<1>2. One4 /\ [Step]_all => One4'
  BY DEF TransmitOnly, QueryOnly, PacketOnly, QualifyOnly
<1> QED
  BY <1>1, <1>2, PTL DEF ResolverSpec

\* The types of the resolver, in every part of it and however its questions,
\* packets, names and files go.
THEOREM ResolverTypesCorrect == ResolverSpec => []ResolverTypeOK
<1>1. IInv => TypeOK
  BY DEF IInv
<1>2. QueryIInv => QTypeOK
  BY QueryTypes
<1>3. P!PacketInv => P!PTypeOK
  BY DEF P!PacketInv, P!PTypeOK
<1>4. Host!HostIInv => Host!QualifyTypeOK
  BY DEF Host!HostIInv, Host!QualifyTypeOK, Host!Cached, Host!Sound, Host!CallOK
<1>5. IInv /\ QueryIInv /\ P!PacketInv /\ Host!HostIInv =>
        (part \in {"transmit", "query", "packet", "qualify"} => ResolverTypeOK)
  <2> SUFFICES ASSUME IInv, QueryIInv, P!PacketInv, Host!HostIInv,
                      part \in {"transmit", "query", "packet", "qualify"}
               PROVE  ResolverTypeOK
    OBVIOUS
  <2>1. CASE part = "transmit"
    BY <1>1, <2>1 DEF ResolverTypeOK
  <2>2. CASE part = "query"
    BY <1>2, <2>2 DEF ResolverTypeOK
  <2>3. CASE part = "packet"
    BY <1>3, <2>3 DEF ResolverTypeOK
  <2>4. CASE part = "qualify"
    BY <1>4, <2>4 DEF ResolverTypeOK
  <2> QED
    BY <2>1, <2>2, <2>3, <2>4
<1> QED
  BY <1>5, EachByItself, OnePart, PTL

(* dns_rcip.c: whatever happened to the files since, a question goes to        *)
(* servers that they named within the last Life seconds.                      *)
THEOREM RecentServersAreAsked == ResolverSpec => []Host!AsksRecentServers
<1>1. Host!HostIInv => Host!AsksRecentServers
  BY DEF Host!HostIInv, Host!AsksRecentServers, Host!NamedIn
<1> QED
  BY <1>1, EachByItself, PTL
=============================================================================
