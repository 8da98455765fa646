------------------------------ MODULE ServerProofs ------------------------------
(***************************************************************************)
(* Proofs about the server: its event loop (LoopIInv is inductive), for any   *)
(* number of clients, descriptors and events per epoll_wait, and the search    *)
(* for an answer (LookupIInv is inductive), for any data file, any queries     *)
(* and any size of addr.                                                     *)
(***************************************************************************)
EXTENDS MCServer, OrderProofs

-----------------------------------------------------------------------------
(* The lists of the kernel and of the loop                                   *)

\* A list that something is added to unless it is there
LEMMA WakeFacts ==
    ASSUME NEW A, NEW s \in Seq(A), NEW f \in A
    PROVE  /\ Wake(s, f) \in Seq(A)
           /\ ToSet(Wake(s, f)) = ToSet(s) \cup {f}
           /\ IsInjective(s) => IsInjective(Wake(s, f))
<1>1. CASE f \in ToSet(s)
  BY <1>1 DEF Wake
<1>2. CASE f \notin ToSet(s)
  <2>1. /\ Wake(s, f) \in Seq(A) /\ Len(Wake(s, f)) = Len(s) + 1
        /\ \A i \in 1 .. Len(s) : Wake(s, f)[i] = s[i]
        /\ Wake(s, f)[Len(s) + 1] = f
    BY <1>2, AppendProperties DEF Wake
  <2>2. Len(s) \in Nat /\ DOMAIN s = 1 .. Len(s) /\ DOMAIN Wake(s, f) = 1 .. Len(s) + 1
    BY <2>1
  <2>3. ToSet(Wake(s, f)) = ToSet(s) \cup {f}
    <3>1. \A i \in 1 .. Len(s) + 1 : i \in 1 .. Len(s) \/ i = Len(s) + 1
      BY <2>2
    <3>2. \A i \in 1 .. Len(s) : i \in 1 .. Len(s) + 1
      BY <2>2
    <3>3. Len(s) + 1 \in 1 .. Len(s) + 1
      BY <2>2
    <3> QED
      BY <2>1, <2>2, <3>1, <3>2, <3>3 DEF ToSet
  <2>4. \A i \in 1 .. Len(s) : s[i] # f
    BY <1>2, <2>2 DEF ToSet
  <2>5. IsInjective(s) => IsInjective(Wake(s, f))
    BY <2>1, <2>2, <2>4 DEF IsInjective
  <2> QED
    BY <2>1, <2>3, <2>5
<1> QED
  BY <1>1, <1>2

\* The rest of a list
LEMMA TailFacts ==
    ASSUME NEW A, NEW s \in Seq(A), s # <<>>
    PROVE  /\ Tail(s) \in Seq(A) /\ Head(s) = s[1] /\ s[1] \in ToSet(s) /\ s[1] \in A
           /\ ToSet(s) = ToSet(Tail(s)) \cup {s[1]}
           /\ DOMAIN Tail(s) = 1 .. Len(s) - 1
           /\ \A i \in 1 .. Len(s) - 1 : i + 1 \in DOMAIN s /\ Tail(s)[i] = s[i + 1]
           /\ IsInjective(s) => IsInjective(Tail(s)) /\ s[1] \notin ToSet(Tail(s))
<1>1. /\ Len(s) \in Nat \ {0} /\ DOMAIN s = 1 .. Len(s) /\ Head(s) = s[1] /\ s[1] \in A
      /\ Tail(s) \in Seq(A) /\ Len(Tail(s)) = Len(s) - 1
      /\ DOMAIN Tail(s) = 1 .. Len(s) - 1
      /\ \A i \in 1 .. Len(s) - 1 : Tail(s)[i] = s[i + 1]
  OBVIOUS
<1>2. /\ \A i \in 1 .. Len(s) - 1 : i + 1 \in 1 .. Len(s)
      /\ \A i \in 1 .. Len(s) : i = 1 \/ (i - 1 \in 1 .. Len(s) - 1 /\ (i - 1) + 1 = i)
      /\ 1 \in 1 .. Len(s)
  BY <1>1
<1>3. ToSet(s) = ToSet(Tail(s)) \cup {s[1]}
  <2>1. \A i \in 1 .. Len(s) : s[i] \in ToSet(Tail(s)) \cup {s[1]}
    <3> TAKE i \in 1 .. Len(s)
    <3>1. CASE i # 1
      <4>1. i - 1 \in 1 .. Len(s) - 1 /\ Tail(s)[i - 1] = s[i]
        BY <1>1, <1>2, <3>1
      <4> QED
        BY <1>1, <4>1 DEF ToSet
    <3> QED
      BY <3>1
  <2>2. \A i \in 1 .. Len(s) - 1 : Tail(s)[i] \in ToSet(s)
    BY <1>1, <1>2 DEF ToSet
  <2>3. s[1] \in ToSet(s)
    BY <1>1, <1>2 DEF ToSet
  <2> QED
    BY <1>1, <2>1, <2>2, <2>3 DEF ToSet
<1>4. ASSUME IsInjective(s)
      PROVE  IsInjective(Tail(s)) /\ s[1] \notin ToSet(Tail(s))
  BY <1>1, <1>2, <1>4 DEF IsInjective, ToSet
<1>5. s[1] \in ToSet(s)
  BY <1>1, <1>2 DEF ToSet
<1> QED
  BY <1>1, <1>2, <1>3, <1>4, <1>5

\* Two lists that have nothing in common, one after the other
LEMMA JoinFacts ==
    ASSUME NEW A, NEW s \in Seq(A), NEW t \in Seq(A), IsInjective(s), IsInjective(t),
           ToSet(s) \cap ToSet(t) = {}
    PROVE  s \o t \in Seq(A) /\ ToSet(s \o t) = ToSet(s) \cup ToSet(t) /\ IsInjective(s \o t)
<1> DEFINE u == s \o t
           m == Len(s)
           n == Len(t)
<1>1. /\ u \in Seq(A) /\ DOMAIN u = 1 .. m + n
      /\ m \in Nat /\ n \in Nat /\ DOMAIN s = 1 .. m /\ DOMAIN t = 1 .. n
      /\ \A i \in 1 .. m + n : u[i] = IF i <= m THEN s[i] ELSE t[i - m]
  BY ConcatProperties
<1> HIDE DEF u, m, n
<1>2. /\ \A i \in 1 .. m : i \in 1 .. m + n /\ u[i] = s[i]
      /\ \A i \in 1 .. n : i + m \in 1 .. m + n /\ u[i + m] = t[i]
      /\ \A i \in 1 .. m + n : i \in 1 .. m \/ (i - m \in 1 .. n /\ u[i] = t[i - m])
  BY <1>1
<1>3. ToSet(u) = ToSet(s) \cup ToSet(t)
  <2>1. \A i \in 1 .. m + n : u[i] \in ToSet(s) \cup ToSet(t)
    BY <1>1, <1>2 DEF ToSet
  <2>2. \A i \in 1 .. m : s[i] \in ToSet(u)
    BY <1>1, <1>2 DEF ToSet
  <2>3. \A i \in 1 .. n : t[i] \in ToSet(u)
    <3> TAKE i \in 1 .. n
    <3>1. i + m \in DOMAIN u /\ u[i + m] = t[i]
      BY <1>1, <1>2
    <3> QED
      BY <3>1 DEF ToSet
  <2>4. /\ ToSet(u) = {u[i] : i \in 1 .. m + n}
        /\ ToSet(s) = {s[i] : i \in 1 .. m}
        /\ ToSet(t) = {t[i] : i \in 1 .. n}
    BY <1>1 DEF ToSet
  <2>5. ToSet(u) \subseteq ToSet(s) \cup ToSet(t)
    BY <2>1, <2>4
  <2>6. ToSet(s) \subseteq ToSet(u) /\ ToSet(t) \subseteq ToSet(u)
    BY <2>2, <2>3, <2>4
  <2> QED
    BY <2>5, <2>6
<1>4. IsInjective(u)
  <2> SUFFICES ASSUME NEW i \in 1 .. m + n, NEW j \in 1 .. m + n, u[i] = u[j]
               PROVE  i = j
    BY <1>1 DEF IsInjective
  <2>1. CASE i \in 1 .. m /\ j \in 1 .. m
    BY <1>1, <1>2, <2>1 DEF IsInjective
  <2>2. CASE i \notin 1 .. m /\ j \notin 1 .. m
    <3>1. i - m \in 1 .. n /\ j - m \in 1 .. n /\ t[i - m] = t[j - m]
      BY <1>2, <2>2
    <3>2. i - m = j - m
      BY <1>1, <3>1 DEF IsInjective
    <3> QED
      BY <1>1, <3>2
  <2>3. ASSUME NEW k \in 1 .. m, NEW l \in 1 .. m + n, l \notin 1 .. m, u[k] = u[l]
        PROVE  FALSE
    <3>1. u[k] = s[k] /\ l - m \in 1 .. n /\ u[l] = t[l - m]
      BY <1>2, <2>3
    <3>2. s[k] \in ToSet(s) /\ t[l - m] \in ToSet(t)
      BY <1>1, <3>1 DEF ToSet
    <3> QED
      BY <2>3, <3>1, <3>2
  <2>4. i \in 1 .. m <=> j \in 1 .. m
    BY <2>3
  <2> QED
    BY <2>1, <2>2, <2>4
<1> QED
  BY <1>1, <1>3, <1>4 DEF u

-----------------------------------------------------------------------------
(* The event loop                                                          *)

Rest == SubSeq(ready, Scanned + 1, Len(ready))

\* What epoll_wait returns are events of the ready list, each once; what can be
\* read and is not among them is in the rest of the list.
LEMMA EpollFacts ==
    ASSUME ready \in Seq(Watched), IsInjective(ready)
    PROVE  /\ Fired \in Seq(Watched) /\ IsInjective(Fired)
           /\ \A f \in ToSet(Fired) : f \in ToSet(ready) /\ HasEvent(f)
           /\ Rest \in Seq(Watched) /\ IsInjective(Rest)
           /\ ToSet(Rest) \subseteq ToSet(ready)
           /\ ToSet(Rest) \cap ToSet(Fired) = {}
           /\ \A f \in ToSet(ready) : HasEvent(f) => f \in ToSet(Fired) \cup ToSet(Rest)
<1> DEFINE P == {i \in DOMAIN ready : HasEvent(ready[i])}
           n == Cardinality(P)
           m == IF n <= EvqueLen THEN n ELSE EvqueLen
           len == Len(ready)
<1>1. /\ len \in Nat /\ DOMAIN ready = 1 .. len
      /\ \A i \in 1 .. len : ready[i] \in Watched /\ ready[i] \in ToSet(ready)
      /\ EvqueLen \in Nat \ {0}
  BY LoopConstants DEF ToSet
<1>2. P \in SUBSET Nat /\ P \in SUBSET (1 .. len)
  BY <1>1
<1>3. IsFiniteSet(P)
  <2>1. IsFiniteSet(1 .. len)
    BY <1>1, FS_Interval
  <2> QED
    BY <1>2, <2>1, FS_Subset
<1>4. \A i \in DOMAIN ready : i \in P <=> HasEvent(ready[i])
  OBVIOUS
<1>5. Events = InOrder(P)
  BY DEF Events
<1> HIDE DEF P
<1>6. /\ n \in Nat /\ Events \in Seq(P) /\ Len(Events) = n
      /\ \A i \in P : \E k \in 1 .. n : Events[k] = i
      /\ \A k, l \in 1 .. n : k < l => Events[k] < Events[l]
  BY <1>2, <1>3, <1>5, Ordered
<1>7. Fired = [k \in 1 .. m |-> ready[Events[k]]]
  BY <1>6 DEF Fired
<1>8. Scanned = IF n <= EvqueLen THEN len ELSE Events[EvqueLen]
  BY <1>6 DEF Scanned
<1> HIDE DEF n, len
<1>9. m \in Nat /\ m <= n /\ \A k \in 1 .. m : k \in 1 .. n
  BY <1>1, <1>6
<1> HIDE DEF m
<1>10. \A k \in 1 .. n : Events[k] \in P /\ Events[k] \in 1 .. len
  <2> TAKE k \in 1 .. n
  <2>1. k \in 1 .. Len(Events)
    BY <1>6
  <2>2. Events[k] \in P
    BY <1>6, <2>1, ElementOfSeq
  <2> QED
    BY <1>2, <2>2
<1>11. Fired \in Seq(Watched) /\ DOMAIN Fired = 1 .. m
       /\ \A k \in 1 .. m : Fired[k] = ready[Events[k]]
  <2>1. Fired \in [1 .. m -> Watched]
    BY <1>1, <1>7, <1>9, <1>10
  <2> QED
    BY <1>7, <1>9, <2>1
<1>12. IsInjective(Fired)
  <2> SUFFICES ASSUME NEW k \in 1 .. m, NEW l \in 1 .. m, Fired[k] = Fired[l]
               PROVE  k = l
    BY <1>11 DEF IsInjective
  <2>1. Events[k] \in DOMAIN ready /\ Events[l] \in DOMAIN ready /\ k \in 1 .. n /\ l \in 1 .. n
    BY <1>1, <1>9, <1>10
  <2>2. Events[k] = Events[l] /\ Events[k] \in Nat
    BY <1>1, <1>11, <2>1 DEF IsInjective
  <2>3. ~(k < l) /\ ~(l < k)
    BY <1>6, <2>1, <2>2
  <2> QED
    BY <1>9, <2>3
<1>13. ASSUME NEW f \in ToSet(Fired)
       PROVE  f \in ToSet(ready) /\ HasEvent(f)
  <2>1. PICK k \in 1 .. m : f = ready[Events[k]]
    BY <1>11 DEF ToSet
  <2> QED
    BY <1>1, <1>4, <1>9, <1>10, <2>1
<1>14. Scanned \in 0 .. len
  BY <1>1, <1>6, <1>8, <1>10
<1>15. /\ Rest \in Seq(Watched) /\ DOMAIN Rest = 1 .. len - Scanned
       /\ \A i \in 1 .. len - Scanned : Rest[i] = ready[Scanned + i] /\ Scanned + i \in 1 .. len
  <2>1. \A i \in Scanned + 1 .. len : ready[i] \in Watched
    BY <1>1, <1>14
  <2>2. /\ Rest \in Seq(Watched)
        /\ Len(Rest) = IF Scanned + 1 <= len THEN len - (Scanned + 1) + 1 ELSE 0
        /\ \A i \in 1 .. len - (Scanned + 1) + 1 : Rest[i] = ready[(Scanned + 1) + i - 1]
    BY <1>1, <1>14, <2>1, SubSeqProperties DEF Rest, len
  <2>3. Len(Rest) = len - Scanned /\ DOMAIN Rest = 1 .. Len(Rest)
    BY <1>1, <1>14, <2>2
  <2>4. \A i \in 1 .. len - Scanned :
            /\ i \in 1 .. len - (Scanned + 1) + 1
            /\ (Scanned + 1) + i - 1 = Scanned + i
            /\ Scanned + i \in 1 .. len
    BY <1>1, <1>14
  <2> QED
    BY <2>2, <2>3, <2>4
<1>16. ToSet(Rest) \subseteq ToSet(ready)
  BY <1>1, <1>15 DEF ToSet
<1>17. IsInjective(Rest)
  <2> SUFFICES ASSUME NEW i \in 1 .. len - Scanned, NEW j \in 1 .. len - Scanned,
                      Rest[i] = Rest[j]
               PROVE  i = j
    BY <1>15 DEF IsInjective
  <2>1. Scanned + i = Scanned + j
    BY <1>1, <1>15 DEF IsInjective
  <2> QED
    BY <1>14, <2>1
<1>18. ASSUME NEW k \in 1 .. m
       PROVE  Events[k] <= Scanned
  <2>1. CASE n <= EvqueLen
    BY <1>1, <1>8, <1>9, <1>10, <2>1
  <2>2. CASE ~(n <= EvqueLen)
    <3>1. m = EvqueLen /\ EvqueLen \in 1 .. n /\ k \in 1 .. n /\ k <= EvqueLen
      BY <1>1, <1>6, <2>2 DEF m
    <3>2. k = EvqueLen \/ Events[k] < Events[EvqueLen]
      BY <1>6, <3>1
    <3>3. Events[k] \in 1 .. len /\ Events[EvqueLen] \in 1 .. len
      BY <1>10, <3>1
    <3>4. Scanned = Events[EvqueLen]
      BY <1>8, <2>2
    <3> HIDE DEF Events, Scanned
    <3> QED
      BY <1>1, <3>2, <3>3, <3>4
  <2> QED
    BY <2>1, <2>2
<1>19. ToSet(Rest) \cap ToSet(Fired) = {}
  <2> SUFFICES ASSUME NEW i \in 1 .. len - Scanned, NEW k \in 1 .. m, Rest[i] = Fired[k]
               PROVE  FALSE
    BY <1>11, <1>15 DEF ToSet
  <2>1. ready[Scanned + i] = ready[Events[k]] /\ Scanned + i \in DOMAIN ready
        /\ Events[k] \in DOMAIN ready
    BY <1>1, <1>9, <1>10, <1>11, <1>15
  <2>2. Scanned + i = Events[k]
    BY <2>1 DEF IsInjective
  <2> QED
    BY <1>14, <1>18, <2>2
<1>20. ASSUME NEW f \in ToSet(ready), HasEvent(f)
       PROVE  f \in ToSet(Fired) \cup ToSet(Rest)
  <2>1. PICK i \in 1 .. len : f = ready[i]
    BY <1>1 DEF ToSet
  <2>2. PICK k \in 1 .. n : Events[k] = i
    BY <1>1, <1>4, <1>6, <1>20, <2>1
  <2>3. CASE k \in 1 .. m
    <3>1. f = Fired[k] /\ k \in DOMAIN Fired
      BY <1>11, <2>1, <2>2, <2>3
    <3> QED
      BY <3>1 DEF ToSet
  <2>4. CASE k \notin 1 .. m
    <3>1. EvqueLen < k /\ EvqueLen \in 1 .. n /\ ~(n <= EvqueLen)
      BY <1>1, <1>6, <2>4 DEF m
    <3>2. Scanned < i
      BY <1>6, <1>8, <2>2, <3>1
    <3>3. i - Scanned \in 1 .. len - Scanned /\ Scanned + (i - Scanned) = i
      BY <1>1, <1>14, <3>2
    <3>4. Rest[i - Scanned] = f /\ i - Scanned \in DOMAIN Rest
      BY <1>15, <2>1, <3>3
    <3> QED
      BY <3>4 DEF ToSet
  <2> QED
    BY <2>3, <2>4
<1> QED
  BY <1>11, <1>12, <1>13, <1>15, <1>16, <1>17, <1>19, <1>20

\* The listening sockets and the connections have descriptors of their own.
LEMMA Descriptors ==
    /\ Watched = LevelTriggered \cup ConnFd
    /\ LevelTriggered = {Udp53, Tcp53} /\ Udp53 # Tcp53
    /\ Udp53 \notin ConnFd /\ Tcp53 \notin ConnFd
    /\ Nobody \notin Conn
    /\ ConnFd \in SUBSET Nat /\ IsFiniteSet(ConnFd)
<1>1. MaxFd \in Nat /\ Nobody \notin Conn
  BY LoopConstants
<1>2. IsFiniteSet(ConnFd)
  BY <1>1, FS_Interval DEF ConnFd
<1>3. ConnFd \in SUBSET Nat /\ Udp53 \notin ConnFd /\ Tcp53 \notin ConnFd /\ Udp53 # Tcp53
  BY <1>1 DEF ConnFd, Udp53, Tcp53
<1> QED
  BY <1>1, <1>2, <1>3 DEF Watched, LevelTriggered

\* A client has at most one descriptor, and FdOf finds it.
LEMMA FdFacts ==
    ASSUME LoopTypeOK, NEW c \in Conn
    PROVE  /\ c \in Open <=> \E f \in ConnFd : owner[f] = c
           /\ \A f \in ConnFd : owner[f] = c => FdOf(c) = f
<1>1. c # Nobody
  BY Descriptors
<1>2. \A f, g \in ConnFd : owner[f] = owner[g] /\ f # g => owner[f] = Nobody
  BY DEF LoopTypeOK
<1>3. c \in Open <=> \E f \in ConnFd : owner[f] = c
  BY <1>1 DEF Open
<1>4. ASSUME NEW f \in ConnFd, owner[f] = c
      PROVE  FdOf(c) = f
  <2>1. FdOf(c) \in ConnFd /\ owner[FdOf(c)] = c
    BY <1>4 DEF FdOf
  <2> QED
    BY <1>1, <1>2, <1>4, <2>1
<1> QED
  BY <1>3, <1>4

\* The client connects.
LEMMA ConnectStep ==
    ASSUME LoopIInv, NEW c \in Conn, Connect(c)
    PROVE  LoopIInv'
<1>1. /\ LoopTypeOK /\ Apart /\ Watches /\ OneEach /\ Noticed /\ Measured
      /\ EventsAreCurrent /\ GeoOfAsker
  BY DEF LoopIInv
<1>2. /\ c \notin Open /\ c \notin ToSet(backlog)
      /\ backlog' = Wake(backlog, c) /\ ready' = Wake(ready, Tcp53)
      /\ UNCHANGED <<owner, rx, peer, udpq, armed, batch, at, cur, sclen, ip>>
  BY DEF Connect, Idle, Wake
<1>3. \A f \in ConnFd : owner[f] # c
  BY <1>1, <1>2, FdFacts
<1>4. /\ backlog' \in Seq(Conn) /\ IsInjective(backlog')
      /\ ToSet(backlog') = ToSet(backlog) \cup {c}
  <2>1. backlog \in Seq(Conn) /\ IsInjective(backlog)
    BY <1>1 DEF LoopTypeOK
  <2> QED
    BY <1>2, <2>1, WakeFacts
<1>5. /\ ready' \in Seq(Watched) /\ IsInjective(ready')
      /\ ToSet(ready') = ToSet(ready) \cup {Tcp53}
  <2>1. ready \in Seq(Watched) /\ IsInjective(ready) /\ Tcp53 \in Watched
    BY <1>1, Descriptors DEF LoopTypeOK
  <2> QED
    BY <1>2, <2>1, WakeFacts
<1>6. LoopTypeOK'
  BY <1>1, <1>2, <1>4, <1>5 DEF LoopTypeOK
<1>7. Apart'
  BY <1>1, <1>2, <1>3, <1>4 DEF Apart
<1>8. Watches'
  BY <1>1, <1>2, <1>5, Descriptors DEF Watches, Taken, InBatch
<1>9. OneEach' /\ Measured' /\ EventsAreCurrent' /\ GeoOfAsker'
  BY <1>1, <1>2 DEF OneEach, Measured, EventsAreCurrent, GeoOfAsker, InBatch
<1>10. Noticed'
  BY <1>1, <1>2, <1>5, Descriptors DEF Noticed, Taken, InBatch, HasEvent, Readable
<1> QED
  BY <1>6, <1>7, <1>8, <1>9, <1>10 DEF LoopIInv

\* Something happens on a client's connection.
LEMMA WakeConnFacts ==
    ASSUME LoopTypeOK, NEW c \in Conn, WakeConn(c)
    PROVE  /\ ready' \in Seq(Watched) /\ IsInjective(ready')
           /\ ToSet(ready) \subseteq ToSet(ready')
           /\ ToSet(ready') \subseteq ToSet(ready) \cup armed
           /\ \A f \in armed : owner[f] = c => f \in ToSet(ready')
<1>1. ready \in Seq(Watched) /\ IsInjective(ready) /\ armed \subseteq ConnFd
  BY DEF LoopTypeOK
<1>2. CASE c \in Open /\ FdOf(c) \in armed
  <2>1. FdOf(c) \in Watched /\ ready' = Wake(ready, FdOf(c))
    BY <1>1, <1>2, Descriptors DEF WakeConn
  <2>2. /\ ready' \in Seq(Watched) /\ IsInjective(ready')
        /\ ToSet(ready') = ToSet(ready) \cup {FdOf(c)}
    BY <1>1, <2>1, WakeFacts
  <2> QED
    BY <1>1, <1>2, <2>2, FdFacts
<1>3. CASE ~(c \in Open /\ FdOf(c) \in armed)
  <2>1. ready' = ready
    BY <1>3 DEF WakeConn
  <2> QED
    BY <1>1, <1>3, <2>1, FdFacts
<1> QED
  BY <1>2, <1>3

\* Segment and HangUp touch what is known of one client and wake its connection.
LEMMA TouchStep ==
    ASSUME LoopIInv, NEW c \in Conn, WakeConn(c),
           rx' \in [Conn -> {"none", "part", "whole", "more"}],
           peer' \in [Conn -> {"up", "fin", "rst", "finrst"}],
           \A d \in Conn \ {c} : rx'[d] = rx[d] /\ peer'[d] = peer[d],
           UNCHANGED <<backlog, owner, udpq, armed, batch, at, cur, sclen, ip>>
    PROVE  LoopIInv'
<1>1. /\ LoopTypeOK /\ Apart /\ Watches /\ OneEach /\ Noticed /\ Measured
      /\ EventsAreCurrent /\ GeoOfAsker
  BY DEF LoopIInv
<1>2. /\ ready' \in Seq(Watched) /\ IsInjective(ready')
      /\ ToSet(ready) \subseteq ToSet(ready')
      /\ ToSet(ready') \subseteq ToSet(ready) \cup armed
      /\ \A f \in armed : owner[f] = c => f \in ToSet(ready')
  BY <1>1, WakeConnFacts
<1>3. LoopTypeOK'
  BY <1>1, <1>2 DEF LoopTypeOK
<1>4. Apart' /\ OneEach' /\ Measured' /\ EventsAreCurrent' /\ GeoOfAsker'
  BY <1>1 DEF Apart, OneEach, Measured, EventsAreCurrent, GeoOfAsker, InBatch
<1>5. Watches'
  BY <1>1, <1>2 DEF Watches, Taken, InBatch
<1>6. Noticed'
  <2>1. \A f \in LevelTriggered : HasEvent(f)' => f \in ToSet(ready')
    BY <1>1, <1>2, Descriptors DEF Noticed, HasEvent
  <2>2. ASSUME NEW f \in armed, HasEvent(f)' PROVE f \in ToSet(ready')
    <3>1. f \in ConnFd /\ owner[f] \in Conn
      BY <1>1 DEF LoopTypeOK, Watches
    <3>2. CASE owner[f] # c
      <4>1. HasEvent(f)
        BY <2>2, <3>1, <3>2, Descriptors DEF HasEvent, Readable
      <4> QED
        BY <1>1, <1>2, <4>1 DEF Noticed
    <3> QED
      BY <1>2, <3>2
  <2> QED
    BY <1>1, <2>1, <2>2 DEF Noticed, Taken, InBatch
<1> QED
  BY <1>3, <1>4, <1>5, <1>6 DEF LoopIInv

LEMMA ClientStep ==
    ASSUME LoopIInv, NEW c \in Conn, Segment(c) \/ HangUp(c)
    PROVE  LoopIInv'
<1>1. /\ rx \in [Conn -> {"none", "part", "whole", "more"}]
      /\ peer \in [Conn -> {"up", "fin", "rst", "finrst"}]
  BY DEF LoopIInv, LoopTypeOK
<1>2. CASE Segment(c)
  <2>1. PICK next \in {"part", "whole", "more"} : rx' = [rx EXCEPT ![c] = next]
    BY <1>1, <1>2 DEF Segment
  <2>2. /\ rx' \in [Conn -> {"none", "part", "whole", "more"}]
        /\ \A d \in Conn \ {c} : rx'[d] = rx[d]
    BY <1>1, <2>1
  <2> QED
    BY <1>1, <1>2, <2>2, TouchStep DEF Segment
<1>3. CASE HangUp(c)
  <2>1. PICK how \in {"fin", "rst", "finrst"} : peer' = [peer EXCEPT ![c] = how]
    BY <1>1, <1>3 DEF HangUp
  <2>2. /\ peer' \in [Conn -> {"up", "fin", "rst", "finrst"}]
        /\ \A d \in Conn \ {c} : peer'[d] = peer[d]
    BY <1>1, <2>1
  <2> QED
    BY <1>1, <1>3, <2>2, TouchStep DEF HangUp
<1> QED
  BY <1>2, <1>3

\* A datagram arrives.
LEMMA DatagramStep ==
    ASSUME LoopIInv, NEW d \in Dgram, Datagram(d)
    PROVE  LoopIInv'
<1>1. /\ LoopTypeOK /\ Apart /\ Watches /\ OneEach /\ Noticed /\ Measured
      /\ EventsAreCurrent /\ GeoOfAsker
  BY DEF LoopIInv
<1>2. /\ udpq' = Append(udpq, d) /\ ready' = Wake(ready, Udp53)
      /\ UNCHANGED <<backlog, owner, rx, peer, armed, batch, at, cur, sclen, ip>>
  BY DEF Datagram
<1>3. /\ ready' \in Seq(Watched) /\ IsInjective(ready')
      /\ ToSet(ready') = ToSet(ready) \cup {Udp53}
  <2>1. ready \in Seq(Watched) /\ IsInjective(ready) /\ Udp53 \in Watched
    BY <1>1, Descriptors DEF LoopTypeOK
  <2> QED
    BY <1>2, <2>1, WakeFacts
<1>4. udpq' \in Seq(Dgram)
  BY <1>1, <1>2 DEF LoopTypeOK
<1>5. LoopTypeOK'
  BY <1>1, <1>2, <1>3, <1>4 DEF LoopTypeOK
<1>6. Watches'
  BY <1>1, <1>2, <1>3, Descriptors DEF Watches, Taken, InBatch
<1>7. Apart' /\ OneEach' /\ Measured' /\ EventsAreCurrent' /\ GeoOfAsker'
  BY <1>1, <1>2 DEF Apart, OneEach, Measured, EventsAreCurrent, GeoOfAsker, InBatch
<1>8. Noticed'
  BY <1>1, <1>2, <1>3, Descriptors DEF Noticed, Taken, InBatch, HasEvent, Readable
<1> QED
  BY <1>5, <1>6, <1>7, <1>8 DEF LoopIInv

\* epoll_wait returns: the events move from the ready list to the batch.
LEMMA EpollStep ==
    ASSUME LoopIInv, EpollWait
    PROVE  LoopIInv'
<1>1. /\ LoopTypeOK /\ Apart /\ Watches /\ OneEach /\ Noticed /\ Measured
      /\ EventsAreCurrent /\ GeoOfAsker
  BY DEF LoopIInv
<1> DEFINE kept == Kept(Fired, LevelTriggered)
<1>2. /\ at = "loop" /\ batch = <<>>
      /\ batch' = [k \in DOMAIN Fired |-> Event(Fired[k])]
      /\ armed' = armed \ ToSet(Fired)
      /\ ready' = Rest \o kept
      /\ UNCHANGED <<backlog, owner, rx, peer, udpq, at, cur, sclen, ip>>
  BY DEF EpollWait, Rest, netVars
<1>3. /\ ready \in Seq(Watched) /\ IsInjective(ready) /\ armed \subseteq ConnFd
      /\ owner \in [ConnFd -> Conn \cup {Nobody}]
  BY <1>1 DEF LoopTypeOK
<1>4. /\ Fired \in Seq(Watched) /\ IsInjective(Fired)
      /\ \A f \in ToSet(Fired) : f \in ToSet(ready) /\ HasEvent(f)
      /\ Rest \in Seq(Watched) /\ IsInjective(Rest)
      /\ ToSet(Rest) \subseteq ToSet(ready)
      /\ ToSet(Rest) \cap ToSet(Fired) = {}
      /\ \A f \in ToSet(ready) : HasEvent(f) => f \in ToSet(Fired) \cup ToSet(Rest)
  BY <1>3, EpollFacts
<1> HIDE DEF Fired, Rest
<1>5. /\ kept \in Seq(Watched) /\ IsInjective(kept)
      /\ ToSet(kept) = ToSet(Fired) \cap LevelTriggered
  BY <1>4, KeptFacts
<1> HIDE DEF kept
<1>6. /\ ready' \in Seq(Watched) /\ IsInjective(ready')
      /\ ToSet(ready') = ToSet(Rest) \cup (ToSet(Fired) \cap LevelTriggered)
  <2>1. ToSet(Rest) \cap ToSet(kept) = {}
    BY <1>4, <1>5
  <2> QED
    BY <1>2, <1>4, <1>5, <2>1, JoinFacts
<1>7. /\ Len(Fired) \in Nat /\ DOMAIN Fired = 1 .. Len(Fired)
      /\ \A k \in 1 .. Len(Fired) : Fired[k] \in Watched /\ Fired[k] \in ToSet(Fired)
      /\ \A f \in ToSet(Fired) : \E k \in 1 .. Len(Fired) : f = Fired[k]
      /\ \A k, l \in 1 .. Len(Fired) : Fired[k] = Fired[l] => k = l
  BY <1>4, ElementOfSeq DEF ToSet, IsInjective
<1>8. ASSUME NEW k \in 1 .. Len(Fired)
      PROVE  /\ batch'[k].fd = Fired[k]
             /\ batch'[k].conn = IF Fired[k] \in ConnFd THEN owner[Fired[k]] ELSE Nobody
             /\ batch'[k] \in [fd : Watched, conn : Conn \cup {Nobody}, events : {"in", "hup"}]
  <2>1. batch'[k] = EventAs(Fired[k], Fired[k])
    BY <1>2, <1>7 DEF Event
  <2>2. Fired[k] \in Watched
    BY <1>7
  <2> QED
    BY <1>3, <2>1, <2>2 DEF EventAs
<1>9. DOMAIN batch' = 1 .. Len(Fired) /\ Len(batch') = Len(Fired)
      /\ batch' \in Seq([fd : Watched, conn : Conn \cup {Nobody}, events : {"in", "hup"}])
  <2>1. batch' \in [1 .. Len(Fired) ->
                      [fd : Watched, conn : Conn \cup {Nobody}, events : {"in", "hup"}]]
    BY <1>2, <1>7, <1>8
  <2> DEFINE E == [fd : Watched, conn : Conn \cup {Nobody}, events : {"in", "hup"}]
             n == Len(Fired)
  <2>2. batch' \in [1 .. n -> E] /\ n \in Nat
    BY <1>7, <2>1
  <2> HIDE DEF E, n
  <2>3. batch' \in Seq(E) /\ Len(batch') = n /\ DOMAIN batch' = 1 .. n
    BY <2>2
  <2> QED
    BY <2>3 DEF E, n
<1>10. \A f : InBatch(f)' <=> f \in ToSet(Fired)
  BY <1>7, <1>8, <1>9 DEF InBatch
<1>11. LoopTypeOK'
  <2>1. /\ backlog \in Seq(Conn) /\ IsInjective(backlog)
        /\ owner \in [ConnFd -> Conn \cup {Nobody}]
        /\ \A f, g \in ConnFd : owner[f] = owner[g] /\ f # g => owner[f] = Nobody
        /\ rx \in [Conn -> {"none", "part", "whole", "more"}]
        /\ peer \in [Conn -> {"up", "fin", "rst", "finrst"}]
        /\ udpq \in Seq(Dgram)
        /\ at \in {"loop", "send", "killed"}
        /\ cur \in {Udp53} \cup ConnFd
        /\ sclen \in {"negative", "short", "right"}
        /\ ip \in Conn \cup Dgram \cup {Nobody}
    BY <1>1 DEF LoopTypeOK
  <2>2. armed' \subseteq ConnFd
    BY <1>2, <1>3
  <2> QED
    BY <1>2, <1>6, <1>9, <2>1, <2>2 DEF LoopTypeOK
<1>12. Apart' /\ Measured' /\ GeoOfAsker'
  BY <1>1, <1>2 DEF Apart, Measured, GeoOfAsker
<1>13. Watches'
  <2>1. \A f \in armed' : owner[f] # Nobody /\ f \notin ToSet(Fired)
    BY <1>1, <1>2 DEF Watches
  <2>2. \A f \in ToSet(ready') : f \in LevelTriggered \cup armed'
    BY <1>1, <1>2, <1>4, <1>6 DEF Watches
  <2> QED
    BY <1>2, <1>10, <2>1, <2>2 DEF Watches, Taken
<1>14. OneEach'
  BY <1>2, <1>7, <1>8, <1>9 DEF OneEach
<1>15. EventsAreCurrent'
  <2> SUFFICES ASSUME NEW k \in 1 .. Len(Fired), Fired[k] \in ConnFd
               PROVE  owner[Fired[k]] # Nobody
    BY <1>2, <1>8, <1>9 DEF EventsAreCurrent
  <2>1. HasEvent(Fired[k])
    BY <1>4, <1>7
  <2> QED
    BY <2>1, Descriptors DEF HasEvent
<1>16. Noticed'
  <2>1. \A f : HasEvent(f)' <=> HasEvent(f)
    BY <1>2 DEF HasEvent, Readable
  <2>2. \A f \in LevelTriggered : HasEvent(f) => f \in ToSet(ready')
    BY <1>1, <1>4, <1>6 DEF Noticed
  <2>3. \A f \in armed' : HasEvent(f) => f \in ToSet(ready')
    BY <1>1, <1>2, <1>4, <1>6 DEF Noticed
  <2>4. \A f \in ConnFd : owner[f] # Nobody => f \in ToSet(Fired) \/ f \in armed'
    BY <1>1, <1>2 DEF Noticed, Taken, InBatch
  <2> QED
    BY <1>2, <1>10, <2>1, <2>2, <2>3, <2>4 DEF Noticed, Taken
<1> QED
  BY <1>11, <1>12, <1>13, <1>14, <1>15, <1>16 DEF LoopIInv

\* The first event of the batch has been looked at.
LEMMA BatchTail ==
    ASSUME LoopIInv, NEW F, Turn(F), Done
    PROVE  /\ batch' \in Seq([fd : Watched, conn : Conn \cup {Nobody}, events : {"in", "hup"}])
           /\ at = "loop" /\ batch[1].fd \in F /\ batch[1].fd \in Watched /\ InBatch(batch[1].fd)
           /\ batch[1].fd \in ConnFd => owner[batch[1].fd] # Nobody
           /\ \A i, j \in DOMAIN batch' : batch'[i].fd = batch'[j].fd => i = j
           /\ \A i \in 1 .. Len(batch') :
                batch'[i].fd \in ConnFd =>
                    /\ owner[batch'[i].fd] = batch'[i].conn
                    /\ batch'[i].conn # Nobody
                    /\ batch'[i].fd # batch[1].fd
           /\ \A f : InBatch(f)' <=> InBatch(f) /\ f # batch[1].fd
<1> DEFINE E == [fd : Watched, conn : Conn \cup {Nobody}, events : {"in", "hup"}]
<1>1. batch \in Seq(E) /\ OneEach /\ EventsAreCurrent
  BY DEF LoopIInv, LoopTypeOK
<1>2. at = "loop" /\ batch # <<>> /\ batch[1].fd \in F /\ batch' = Tail(batch)
  BY DEF Turn, Done
<1>3. batch[1] \in E => batch[1].fd \in Watched
  BY DEF E
<1> HIDE DEF E
<1>4. /\ batch' \in Seq(E) /\ batch[1] \in E
      /\ DOMAIN batch' = 1 .. Len(batch) - 1
      /\ \A i \in 1 .. Len(batch) - 1 : i + 1 \in DOMAIN batch /\ batch'[i] = batch[i + 1]
  BY <1>1, <1>2, TailFacts
<1>5. Len(batch) \in Nat \ {0} /\ DOMAIN batch = 1 .. Len(batch) /\ 1 \in 1 .. Len(batch)
      /\ Len(batch') = Len(batch) - 1
  BY <1>1, <1>2
<1>6. \A i \in 1 .. Len(batch) : i # 1 => i - 1 \in 1 .. Len(batch) - 1 /\ (i - 1) + 1 = i
  BY <1>5
<1>7. \A i, j \in 1 .. Len(batch) - 1 :
        /\ batch'[i].fd = batch'[j].fd => i = j
        /\ batch'[i].fd # batch[1].fd
  <2> SUFFICES ASSUME NEW i \in 1 .. Len(batch) - 1, NEW j \in 1 .. Len(batch) - 1
               PROVE  /\ batch'[i].fd = batch'[j].fd => i = j
                      /\ batch'[i].fd # batch[1].fd
    OBVIOUS
  <2>1. batch'[i] = batch[i + 1] /\ batch'[j] = batch[j + 1]
        /\ i + 1 \in DOMAIN batch /\ j + 1 \in DOMAIN batch /\ 1 \in DOMAIN batch
    BY <1>4, <1>5
  <2>2. /\ batch'[i].fd = batch'[j].fd => i + 1 = j + 1
        /\ batch'[i].fd = batch[1].fd => i + 1 = 1
    BY <1>1, <2>1 DEF OneEach
  <2> QED
    BY <1>5, <2>2
<1>8. InBatch(batch[1].fd) /\ (batch[1].fd \in ConnFd => owner[batch[1].fd] # Nobody)
  BY <1>1, <1>5 DEF InBatch, EventsAreCurrent
<1>9. \A i \in 1 .. Len(batch') :
        batch'[i].fd \in ConnFd =>
            owner[batch'[i].fd] = batch'[i].conn /\ batch'[i].conn # Nobody
  BY <1>1, <1>4, <1>5 DEF EventsAreCurrent
<1>10. ASSUME NEW f
       PROVE  InBatch(f)' <=> InBatch(f) /\ f # batch[1].fd
  <2>1. InBatch(f)' => InBatch(f) /\ f # batch[1].fd
    BY <1>4, <1>5, <1>7 DEF InBatch
  <2>2. ASSUME InBatch(f), f # batch[1].fd PROVE InBatch(f)'
    <3>1. PICK i \in 1 .. Len(batch) : batch[i].fd = f /\ i # 1
      BY <2>2 DEF InBatch
    <3>2. i - 1 \in 1 .. Len(batch') /\ batch'[i - 1] = batch[i]
      BY <1>4, <1>5, <1>6, <3>1
    <3> QED
      BY <3>1, <3>2 DEF InBatch
  <2> QED
    BY <2>1, <2>2
<1>11. batch' \in Seq([fd : Watched, conn : Conn \cup {Nobody}, events : {"in", "hup"}])
       /\ batch[1].fd \in Watched
  BY <1>3, <1>4 DEF E
<1>12. DOMAIN batch' = 1 .. Len(batch') /\ Len(batch') = Len(batch) - 1
  BY <1>4, <1>5
<1>13. /\ \A i, j \in DOMAIN batch' : batch'[i].fd = batch'[j].fd => i = j
       /\ \A i \in 1 .. Len(batch') : batch'[i].fd # batch[1].fd
  BY <1>4, <1>7, <1>12
<1> QED
  BY <1>2, <1>8, <1>9, <1>10, <1>11, <1>13

\* One datagram is read.
LEMMA ServeUdpStep ==
    ASSUME LoopIInv, ServeUdp
    PROVE  LoopIInv'
<1>1. /\ LoopTypeOK /\ Apart /\ Watches /\ OneEach /\ Noticed /\ Measured
  BY DEF LoopIInv
<1>2. /\ Turn({Udp53}) /\ udpq # <<>> /\ ip' = Head(udpq) /\ udpq' = Tail(udpq) /\ Done
      /\ UNCHANGED <<backlog, owner, rx, peer, ready, armed, at, cur, sclen>>
  BY DEF ServeUdp
<1>3. /\ batch' \in Seq([fd : Watched, conn : Conn \cup {Nobody}, events : {"in", "hup"}])
      /\ at = "loop"
      /\ \A i, j \in DOMAIN batch' : batch'[i].fd = batch'[j].fd => i = j
      /\ \A i \in 1 .. Len(batch') :
            batch'[i].fd \in ConnFd =>
                owner[batch'[i].fd] = batch'[i].conn /\ batch'[i].conn # Nobody
      /\ \A f \in ConnFd : InBatch(f)' <=> InBatch(f)
  <2>1. batch[1].fd \in {Udp53} /\ \A f : InBatch(f)' <=> InBatch(f) /\ f # batch[1].fd
    BY <1>2, BatchTail
  <2>2. \A f \in ConnFd : InBatch(f)' <=> InBatch(f)
    BY <2>1, Descriptors
  <2> QED
    BY <1>2, <2>2, BatchTail
<1>4. udpq' \in Seq(Dgram) /\ ip' \in Conn \cup Dgram \cup {Nobody}
  <2>1. udpq \in Seq(Dgram)
    BY <1>1 DEF LoopTypeOK
  <2> QED
    BY <1>2, <2>1
<1>5. LoopTypeOK'
  BY <1>1, <1>2, <1>3, <1>4 DEF LoopTypeOK
<1>6. Apart' /\ Measured' /\ OneEach' /\ GeoOfAsker' /\ EventsAreCurrent'
  BY <1>1, <1>2, <1>3 DEF Apart, Measured, OneEach, GeoOfAsker, EventsAreCurrent
<1>7. \A f \in ConnFd : f \in armed => ~InBatch(f)
  BY <1>1 DEF Watches, Taken
<1>8. armed \subseteq ConnFd
  BY <1>1 DEF LoopTypeOK
<1>9. Watches'
  BY <1>1, <1>2, <1>3, <1>7, <1>8 DEF Watches, Taken
<1>10. Noticed'
  <2>1. \A f \in LevelTriggered \cup armed : HasEvent(f)' => HasEvent(f)
    BY <1>2, <1>8, Descriptors DEF HasEvent, Readable
  <2> QED
    BY <1>1, <1>2, <1>3, <2>1 DEF Noticed, Taken
<1> QED
  BY <1>5, <1>6, <1>9, <1>10 DEF LoopIInv

\* accept finds a connection and gives it the lowest descriptor.
LEMMA AcceptStep ==
    ASSUME LoopIInv, Accept
    PROVE  LoopIInv'
<1>1. /\ LoopTypeOK /\ Apart /\ Watches /\ OneEach /\ Noticed /\ Measured
      /\ EventsAreCurrent
  BY DEF LoopIInv
<1> DEFINE c == Head(backlog)
           f == CHOOSE g \in Free : \A h \in Free : g <= h
<1>2. /\ at = "loop" /\ batch # <<>> /\ backlog # <<>> /\ Free # {} /\ backlog' = Tail(backlog)
      /\ owner' = [owner EXCEPT ![f] = c] /\ armed' = armed \cup {f}
      /\ ready' = IF Readable(c) THEN Wake(ready, f) ELSE ready
      /\ sclen' = "right"
      /\ UNCHANGED <<rx, peer, udpq, batch, at, cur, ip>>
  BY DEF Accept, Accepted, Turn
<1>3. f \in ConnFd /\ owner[f] = Nobody
  <2>1. Free \in SUBSET Nat /\ IsFiniteSet(Free)
    BY Descriptors, FS_Subset DEF Free
  <2> HIDE DEF Free
  <2>2. /\ Cardinality(Free) \in Nat /\ InOrder(Free) \in Seq(Free)
        /\ Len(InOrder(Free)) = Cardinality(Free)
        /\ \A i \in Free : \E k \in 1 .. Cardinality(Free) : InOrder(Free)[k] = i
        /\ \A k, l \in 1 .. Cardinality(Free) :
                k < l => InOrder(Free)[k] < InOrder(Free)[l]
    BY <2>1, Ordered
  <2>3. 1 \in 1 .. Cardinality(Free)
    BY <1>2, <2>2
  <2>4. InOrder(Free)[1] \in Free
    BY <2>2, <2>3, ElementOfSeq
  <2>5. \A h \in Free : InOrder(Free)[1] <= h
    <3> TAKE h \in Free
    <3>1. PICK k \in 1 .. Cardinality(Free) : InOrder(Free)[k] = h
      BY <2>2
    <3>2. k = 1 \/ InOrder(Free)[1] < h
      BY <2>2, <2>3, <3>1
    <3>3. h \in Nat /\ InOrder(Free)[1] \in Nat
      BY <2>1, <2>4
    <3> HIDE DEF InOrder
    <3> QED
      BY <3>1, <3>2, <3>3
  <2>6. f \in Free
    BY <2>4, <2>5
  <2> QED
    BY <2>6 DEF Free
<1> HIDE DEF f
<1>4. /\ backlog' \in Seq(Conn) /\ IsInjective(backlog')
      /\ c \in Conn /\ c \in ToSet(backlog) /\ c \notin ToSet(backlog')
      /\ ToSet(backlog') \subseteq ToSet(backlog)
  <2>1. backlog \in Seq(Conn) /\ IsInjective(backlog)
    BY <1>1 DEF LoopTypeOK
  <2> QED
    BY <1>2, <2>1, TailFacts
<1> HIDE DEF c
<1>5. c # Nobody /\ \A g \in ConnFd : owner[g] # c
  BY <1>1, <1>4, Descriptors DEF Apart
<1>6. owner \in [ConnFd -> Conn \cup {Nobody}]
  BY <1>1 DEF LoopTypeOK
<1>7. /\ owner' \in [ConnFd -> Conn \cup {Nobody}] /\ owner'[f] = c
      /\ \A g \in ConnFd \ {f} : owner'[g] = owner[g]
  BY <1>2, <1>3, <1>4, <1>6
<1>8. f \notin armed /\ f \notin ToSet(ready) /\ ~InBatch(f)
  BY <1>1, <1>3, Descriptors DEF Watches, EventsAreCurrent, InBatch
<1>9. /\ ready' \in Seq(Watched) /\ IsInjective(ready')
      /\ ToSet(ready) \subseteq ToSet(ready')
      /\ ToSet(ready') \subseteq ToSet(ready) \cup {f}
      /\ Readable(c) => f \in ToSet(ready')
  <2>1. ready \in Seq(Watched) /\ IsInjective(ready) /\ f \in Watched
    BY <1>1, <1>3, Descriptors DEF LoopTypeOK
  <2> QED
    BY <1>2, <2>1, WakeFacts
<1>10. LoopTypeOK'
  <2>1. \A g, h \in ConnFd : owner'[g] = owner'[h] /\ g # h => owner'[g] = Nobody
    <3>1. \A g, h \in ConnFd : owner[g] = owner[h] /\ g # h => owner[g] = Nobody
      BY <1>1 DEF LoopTypeOK
    <3> QED
      BY <1>5, <1>7, <3>1
  <2>2. armed' \subseteq ConnFd
    BY <1>1, <1>2, <1>3 DEF LoopTypeOK
  <2>3. /\ rx \in [Conn -> {"none", "part", "whole", "more"}]
        /\ peer \in [Conn -> {"up", "fin", "rst", "finrst"}]
        /\ udpq \in Seq(Dgram)
        /\ batch \in Seq([fd : Watched, conn : Conn \cup {Nobody}, events : {"in", "hup"}])
        /\ at \in {"loop", "send", "killed"}
        /\ cur \in {Udp53} \cup ConnFd
        /\ ip \in Conn \cup Dgram \cup {Nobody}
    BY <1>1 DEF LoopTypeOK
  <2> QED
    BY <1>2, <1>4, <1>7, <1>9, <2>1, <2>2, <2>3 DEF LoopTypeOK
<1>11. Apart'
  BY <1>1, <1>4, <1>7 DEF Apart
<1>12. \A g : InBatch(g)' <=> InBatch(g)
  BY <1>2 DEF InBatch
<1>13. Watches'
  <2>1. \A g \in armed : g \in ConnFd
    BY <1>1 DEF LoopTypeOK
  <2> QED
    BY <1>1, <1>2, <1>5, <1>7, <1>8, <1>9, <1>12, <2>1 DEF Watches, Taken
<1>14. OneEach' /\ Measured' /\ GeoOfAsker'
  BY <1>1, <1>2, <1>12 DEF OneEach, Measured, GeoOfAsker
<1>15. EventsAreCurrent'
  BY <1>1, <1>2, <1>7, <1>8 DEF EventsAreCurrent, InBatch
<1>16. Noticed'
  <2>1. \A g \in LevelTriggered : HasEvent(g)' => g \in ToSet(ready')
    <3>1. \A g \in LevelTriggered : HasEvent(g)' => HasEvent(g)
      BY <1>2, Descriptors DEF HasEvent
    <3> QED
      BY <1>1, <1>9, <3>1 DEF Noticed
  <2>2. ASSUME NEW g \in armed', HasEvent(g)' PROVE g \in ToSet(ready')
    <3>1. CASE g = f
      <4>1. Readable(c)
        BY <1>2, <1>3, <1>7, <2>2, <3>1, Descriptors DEF HasEvent, Readable
      <4> QED
        BY <1>9, <3>1, <4>1
    <3>2. CASE g # f
      <4>1. g \in armed /\ g \in ConnFd
        BY <1>1, <1>2, <2>2, <3>2 DEF LoopTypeOK
      <4>2. HasEvent(g)
        BY <1>2, <1>7, <2>2, <3>2, <4>1, Descriptors DEF HasEvent, Readable
      <4> QED
        BY <1>1, <1>9, <4>1, <4>2 DEF Noticed
    <3> QED
      BY <3>1, <3>2
  <2>3. at # "killed" =>
            \A g \in ConnFd : owner'[g] # Nobody => InBatch(g) \/ g \in armed'
    BY <1>1, <1>2, <1>7 DEF Noticed, Taken
  <2> QED
    BY <1>2, <1>12, <2>1, <2>2, <2>3 DEF Noticed, Taken
<1> QED
  BY <1>10, <1>11, <1>13, <1>14, <1>15, <1>16 DEF LoopIInv

\* accept drops the connection, since sclen is negative: nobody is connected.
LEMMA AcceptRefusedStep ==
    ASSUME LoopIInv, AcceptRefused
    PROVE  LoopIInv'
<1>1. /\ LoopTypeOK /\ Apart /\ Watches /\ OneEach /\ Noticed /\ Measured
  BY DEF LoopIInv
<1> DEFINE c == Head(backlog)
<1>2. /\ Turn({Tcp53}) /\ backlog # <<>> /\ sclen = "negative" /\ backlog' = Tail(backlog)
      /\ rx' = [rx EXCEPT ![c] = "none"] /\ peer' = [peer EXCEPT ![c] = "up"] /\ Done
      /\ UNCHANGED <<owner, udpq, ready, armed, at, cur, sclen, ip>>
  BY DEF AcceptRefused, Forget
<1>3. \A f \in ConnFd : owner[f] = Nobody
  BY <1>1, <1>2 DEF Measured
<1>4. armed = {} /\ \A f \in ConnFd : ~InBatch(f)
  BY <1>1, <1>3 DEF Watches, LoopTypeOK, LoopIInv, EventsAreCurrent, InBatch
<1>5. /\ batch' \in Seq([fd : Watched, conn : Conn \cup {Nobody}, events : {"in", "hup"}])
      /\ at = "loop"
      /\ \A i, j \in DOMAIN batch' : batch'[i].fd = batch'[j].fd => i = j
      /\ \A i \in 1 .. Len(batch') :
            batch'[i].fd \in ConnFd =>
                owner[batch'[i].fd] = batch'[i].conn /\ batch'[i].conn # Nobody
  BY <1>2, BatchTail
<1>6. backlog' \in Seq(Conn) /\ IsInjective(backlog') /\ c \in Conn
  <2>1. backlog \in Seq(Conn) /\ IsInjective(backlog)
    BY <1>1 DEF LoopTypeOK
  <2> QED
    BY <1>2, <2>1, TailFacts
<1> HIDE DEF c
<1>7. /\ rx' \in [Conn -> {"none", "part", "whole", "more"}]
      /\ peer' \in [Conn -> {"up", "fin", "rst", "finrst"}]
  BY <1>1, <1>2, <1>6 DEF LoopTypeOK
<1>8. LoopTypeOK'
  BY <1>1, <1>2, <1>5, <1>6, <1>7 DEF LoopTypeOK
<1>9. Apart' /\ Measured' /\ OneEach' /\ GeoOfAsker' /\ EventsAreCurrent'
  BY <1>1, <1>2, <1>3, <1>5 DEF Apart, Measured, OneEach, GeoOfAsker, EventsAreCurrent
<1>10. Watches'
  BY <1>1, <1>2, <1>4 DEF Watches
<1>11. Noticed'
  <2>1. \A g \in LevelTriggered : HasEvent(g)' => HasEvent(g)
    BY <1>2, Descriptors DEF HasEvent
  <2> QED
    BY <1>1, <1>2, <1>3, <1>4, <2>1 DEF Noticed
<1> QED
  BY <1>8, <1>9, <1>10, <1>11 DEF LoopIInv

\* accept has nothing to take, or no descriptor to give.
LEMMA AcceptEndStep ==
    ASSUME LoopIInv, AcceptEnd
    PROVE  LoopIInv'
<1>1. /\ LoopTypeOK /\ Apart /\ Watches /\ OneEach /\ Noticed /\ Measured
  BY DEF LoopIInv
<1>2. /\ Turn({Tcp53}) /\ Done
      /\ UNCHANGED <<backlog, owner, rx, peer, udpq, ready, armed, at, cur, sclen, ip>>
  BY DEF AcceptEnd, netVars
<1>3. /\ batch' \in Seq([fd : Watched, conn : Conn \cup {Nobody}, events : {"in", "hup"}])
      /\ at = "loop"
      /\ \A i, j \in DOMAIN batch' : batch'[i].fd = batch'[j].fd => i = j
      /\ \A i \in 1 .. Len(batch') :
            batch'[i].fd \in ConnFd =>
                owner[batch'[i].fd] = batch'[i].conn /\ batch'[i].conn # Nobody
      /\ \A f \in ConnFd : InBatch(f)' <=> InBatch(f)
  <2>1. batch[1].fd \in {Tcp53} /\ \A f : InBatch(f)' <=> InBatch(f) /\ f # batch[1].fd
    BY <1>2, BatchTail
  <2>2. \A f \in ConnFd : InBatch(f)' <=> InBatch(f)
    BY <2>1, Descriptors
  <2> QED
    BY <1>2, <2>2, BatchTail
<1>4. LoopTypeOK'
  BY <1>1, <1>2, <1>3 DEF LoopTypeOK
<1>5. Apart' /\ Measured' /\ OneEach' /\ GeoOfAsker' /\ EventsAreCurrent'
  BY <1>1, <1>2, <1>3 DEF Apart, Measured, OneEach, GeoOfAsker, EventsAreCurrent
<1>6. armed \subseteq ConnFd
  BY <1>1 DEF LoopTypeOK
<1>7. Watches'
  BY <1>1, <1>2, <1>3, <1>6 DEF Watches, Taken
<1>8. Noticed'
  <2>1. \A f : HasEvent(f)' <=> HasEvent(f)
    BY <1>2 DEF HasEvent, Readable
  <2> QED
    BY <1>1, <1>2, <1>3, <2>1 DEF Noticed, Taken
<1> QED
  BY <1>4, <1>5, <1>7, <1>8 DEF LoopIInv

\* A whole request is read.
LEMMA ReadStep ==
    ASSUME LoopIInv, Read
    PROVE  LoopIInv'
<1>1. /\ LoopTypeOK /\ Apart /\ Watches /\ OneEach /\ Noticed /\ Measured
  BY DEF LoopIInv
<1>2. PICK f \in ConnFd :
        /\ Turn({f}) /\ ip' = IF sclen = "right" THEN owner[f] ELSE Nobody
        /\ at' = "send" /\ cur' = f /\ Done
        /\ UNCHANGED <<backlog, owner, rx, peer, udpq, ready, armed, sclen>>
  BY DEF Read, netVars
<1>3. /\ batch' \in Seq([fd : Watched, conn : Conn \cup {Nobody}, events : {"in", "hup"}])
      /\ at = "loop" /\ batch[1].fd = f /\ owner[f] # Nobody /\ InBatch(f)
      /\ \A i, j \in DOMAIN batch' : batch'[i].fd = batch'[j].fd => i = j
      /\ \A i \in 1 .. Len(batch') :
            batch'[i].fd \in ConnFd =>
                owner[batch'[i].fd] = batch'[i].conn /\ batch'[i].conn # Nobody
      /\ \A g : InBatch(g)' <=> InBatch(g) /\ g # f
  <2>1. batch[1].fd = f
    BY <1>2, BatchTail
  <2> QED
    BY <1>2, <2>1, BatchTail
<1>4. ip' = owner[f] /\ owner[f] \in Conn
  BY <1>1, <1>2, <1>3 DEF Measured, LoopTypeOK
<1>5. LoopTypeOK'
  BY <1>1, <1>2, <1>3, <1>4 DEF LoopTypeOK
<1>6. \A g : Taken(g)' <=> Taken(g)
  BY <1>2, <1>3 DEF Taken
<1>7. Apart' /\ Measured' /\ OneEach' /\ GeoOfAsker' /\ EventsAreCurrent'
  BY <1>1, <1>2, <1>3, <1>4 DEF Apart, Measured, OneEach, GeoOfAsker, EventsAreCurrent
<1>8. Watches'
  BY <1>1, <1>2, <1>6 DEF Watches
<1>9. Noticed'
  <2>1. \A g : HasEvent(g)' <=> HasEvent(g)
    BY <1>2 DEF HasEvent, Readable
  <2> QED
    BY <1>1, <1>2, <1>3, <1>6, <2>1 DEF Noticed
<1> QED
  BY <1>5, <1>7, <1>8, <1>9 DEF LoopIInv

\* A descriptor is closed: nothing is left of it, the others are as they were.
LEMMA CloseFacts ==
    ASSUME LoopTypeOK, Watches, NEW f \in ConnFd, owner[f] # Nobody, Close(f),
           backlog' = backlog, udpq' = udpq
    PROVE  /\ owner' \in [ConnFd -> Conn \cup {Nobody}] /\ owner'[f] = Nobody
           /\ \A g \in ConnFd \ {f} : owner'[g] = owner[g]
           /\ \A g, h \in ConnFd : owner'[g] = owner'[h] /\ g # h => owner'[g] = Nobody
           /\ rx' \in [Conn -> {"none", "part", "whole", "more"}]
           /\ peer' \in [Conn -> {"up", "fin", "rst", "finrst"}]
           /\ armed' = armed \ {f} /\ armed' \subseteq ConnFd
           /\ ready' \in Seq(Watched) /\ IsInjective(ready')
           /\ ToSet(ready') = ToSet(ready) \ {f}
           /\ \A g \in LevelTriggered \cup armed' : HasEvent(g)' => HasEvent(g)
<1>1. /\ owner \in [ConnFd -> Conn \cup {Nobody}]
      /\ \A g, h \in ConnFd : owner[g] = owner[h] /\ g # h => owner[g] = Nobody
      /\ rx \in [Conn -> {"none", "part", "whole", "more"}]
      /\ peer \in [Conn -> {"up", "fin", "rst", "finrst"}]
      /\ ready \in Seq(Watched) /\ IsInjective(ready)
      /\ armed \subseteq ConnFd
  BY DEF LoopTypeOK
<1>2. /\ owner' = [owner EXCEPT ![f] = Nobody]
      /\ rx' = [rx EXCEPT ![owner[f]] = "none"]
      /\ peer' = [peer EXCEPT ![owner[f]] = "up"]
      /\ armed' = armed \ {f}
      /\ ready' = Kept(ready, Watched \ {f})
  BY DEF Close, Forget
<1>3. /\ owner' \in [ConnFd -> Conn \cup {Nobody}] /\ owner'[f] = Nobody
      /\ \A g \in ConnFd \ {f} : owner'[g] = owner[g]
  BY <1>1, <1>2
<1>4. /\ rx' \in [Conn -> {"none", "part", "whole", "more"}]
      /\ peer' \in [Conn -> {"up", "fin", "rst", "finrst"}]
      /\ \A c \in Conn : c # owner[f] => rx'[c] = rx[c] /\ peer'[c] = peer[c]
  BY <1>1, <1>2
<1>5. \A g, h \in ConnFd : owner'[g] = owner'[h] /\ g # h => owner'[g] = Nobody
  BY <1>1, <1>3
<1>6. /\ ready' \in Seq(Watched) /\ IsInjective(ready')
      /\ ToSet(ready') = ToSet(ready) \cap (Watched \ {f})
  BY <1>1, <1>2, KeptFacts
<1>7. ToSet(ready) \subseteq Watched
  BY <1>1, ElementOfSeq DEF ToSet
<1>8. ASSUME NEW g \in LevelTriggered \cup armed', HasEvent(g)'
      PROVE  HasEvent(g)
  <2>1. CASE g \in LevelTriggered
    BY <1>8, <2>1, Descriptors DEF HasEvent
  <2>2. CASE g \in armed'
    <3>1. g \in ConnFd /\ g # f /\ owner[g] \in Conn /\ owner[g] # owner[f]
      BY <1>1, <1>2, <2>2 DEF Watches
    <3> QED
      BY <1>3, <1>4, <1>8, <3>1, Descriptors DEF HasEvent, Readable
  <2> QED
    BY <2>1, <2>2
<1> QED
  BY <1>1, <1>2, <1>3, <1>4, <1>5, <1>6, <1>7, <1>8

\* The connection of an event is dropped.
LEMMA DropStep ==
    ASSUME LoopIInv, Drop
    PROVE  LoopIInv'
<1>1. /\ LoopTypeOK /\ Apart /\ Watches /\ OneEach /\ Noticed /\ Measured
  BY DEF LoopIInv
<1>2. PICK f \in ConnFd :
        /\ Turn({f}) /\ Close(f) /\ Done
        /\ UNCHANGED <<backlog, udpq, at, cur, sclen, ip>>
  BY DEF Drop
<1>3. /\ batch' \in Seq([fd : Watched, conn : Conn \cup {Nobody}, events : {"in", "hup"}])
      /\ at = "loop" /\ batch[1].fd = f /\ owner[f] # Nobody /\ InBatch(f)
      /\ \A i, j \in DOMAIN batch' : batch'[i].fd = batch'[j].fd => i = j
      /\ \A i \in 1 .. Len(batch') :
            batch'[i].fd \in ConnFd =>
                /\ owner[batch'[i].fd] = batch'[i].conn
                /\ batch'[i].conn # Nobody
                /\ batch'[i].fd # f
      /\ \A g : InBatch(g)' <=> InBatch(g) /\ g # f
  <2>1. batch[1].fd = f
    BY <1>2, BatchTail
  <2> QED
    BY <1>2, <2>1, BatchTail
<1>4. /\ owner' \in [ConnFd -> Conn \cup {Nobody}] /\ owner'[f] = Nobody
      /\ \A g \in ConnFd \ {f} : owner'[g] = owner[g]
      /\ \A g, h \in ConnFd : owner'[g] = owner'[h] /\ g # h => owner'[g] = Nobody
      /\ rx' \in [Conn -> {"none", "part", "whole", "more"}]
      /\ peer' \in [Conn -> {"up", "fin", "rst", "finrst"}]
      /\ armed' = armed \ {f} /\ armed' \subseteq ConnFd
      /\ ready' \in Seq(Watched) /\ IsInjective(ready')
      /\ ToSet(ready') = ToSet(ready) \ {f}
      /\ \A g \in LevelTriggered \cup armed' : HasEvent(g)' => HasEvent(g)
  BY <1>1, <1>2, <1>3, CloseFacts
<1>5. LoopTypeOK'
  BY <1>1, <1>2, <1>3, <1>4 DEF LoopTypeOK
<1>6. Apart' /\ Measured' /\ OneEach' /\ GeoOfAsker' /\ EventsAreCurrent'
  BY <1>1, <1>2, <1>3, <1>4 DEF Apart, Measured, OneEach, GeoOfAsker, EventsAreCurrent
<1>7. \A g : Taken(g)' <=> InBatch(g) /\ g # f
  BY <1>2, <1>3 DEF Taken
<1>8. Watches'
  BY <1>1, <1>4, <1>7 DEF Watches, Taken
<1>9. Noticed'
  <2>1. \A g \in LevelTriggered \cup armed' : g # f
    BY <1>4, Descriptors
  <2>2. \A g \in LevelTriggered \cup armed' : HasEvent(g)' => g \in ToSet(ready')
    BY <1>1, <1>4, <2>1 DEF Noticed
  <2>3. \A g \in ConnFd : owner'[g] # Nobody => Taken(g)' \/ g \in armed'
    BY <1>1, <1>3, <1>4, <1>7 DEF Noticed, Taken
  <2> QED
    BY <2>2, <2>3 DEF Noticed
<1> QED
  BY <1>5, <1>6, <1>8, <1>9 DEF LoopIInv

\* The answer is sent and the connection closed.
LEMMA SendStep ==
    ASSUME LoopIInv, SendTcp
    PROVE  LoopIInv'
<1>1. /\ LoopTypeOK /\ Apart /\ Watches /\ OneEach /\ Noticed /\ Measured
      /\ EventsAreCurrent
  BY DEF LoopIInv
<1>2. /\ at = "send" /\ Close(cur) /\ at' = "loop" /\ cur' = Udp53
      /\ UNCHANGED <<backlog, udpq, batch, sclen, ip>>
  BY DEF SendTcp
<1>3. cur \in ConnFd /\ owner[cur] # Nobody /\ ~InBatch(cur)
  BY <1>1, <1>2 DEF OneEach
<1>4. /\ owner' \in [ConnFd -> Conn \cup {Nobody}] /\ owner'[cur] = Nobody
      /\ \A g \in ConnFd \ {cur} : owner'[g] = owner[g]
      /\ \A g, h \in ConnFd : owner'[g] = owner'[h] /\ g # h => owner'[g] = Nobody
      /\ rx' \in [Conn -> {"none", "part", "whole", "more"}]
      /\ peer' \in [Conn -> {"up", "fin", "rst", "finrst"}]
      /\ armed' = armed \ {cur} /\ armed' \subseteq ConnFd
      /\ ready' \in Seq(Watched) /\ IsInjective(ready')
      /\ ToSet(ready') = ToSet(ready) \ {cur}
      /\ \A g \in LevelTriggered \cup armed' : HasEvent(g)' => HasEvent(g)
  BY <1>1, <1>2, <1>3, CloseFacts
<1>5. LoopTypeOK'
  BY <1>1, <1>2, <1>4 DEF LoopTypeOK
<1>6. \A g : InBatch(g)' <=> InBatch(g)
  BY <1>2 DEF InBatch
<1>7. Apart' /\ Measured' /\ OneEach' /\ GeoOfAsker'
  BY <1>1, <1>2, <1>4 DEF Apart, Measured, OneEach, GeoOfAsker
<1>8. EventsAreCurrent'
  BY <1>1, <1>2, <1>3, <1>4 DEF EventsAreCurrent, InBatch
<1>9. Watches'
  BY <1>1, <1>2, <1>4, <1>6 DEF Watches, Taken
<1>10. Noticed'
  <2>1. \A g \in LevelTriggered \cup armed' : g # cur
    BY <1>3, <1>4, Descriptors
  <2>2. \A g \in LevelTriggered \cup armed' : HasEvent(g)' => g \in ToSet(ready')
    BY <1>1, <1>4, <2>1 DEF Noticed
  <2>3. \A g \in ConnFd : owner'[g] # Nobody => Taken(g)' \/ g \in armed'
    BY <1>1, <1>2, <1>4, <1>6 DEF Noticed, Taken
  <2> QED
    BY <2>2, <2>3 DEF Noticed
<1> QED
  BY <1>5, <1>7, <1>8, <1>9, <1>10 DEF LoopIInv

\* The write raises SIGPIPE.
LEMMA KilledStep ==
    ASSUME LoopIInv, Killed
    PROVE  LoopIInv'
<1>1. /\ LoopTypeOK /\ Apart /\ Watches /\ OneEach /\ Noticed /\ Measured
      /\ EventsAreCurrent
  BY DEF LoopIInv
<1>2. /\ at' = "killed"
      /\ UNCHANGED <<backlog, owner, rx, peer, udpq, ready, armed, batch, cur, sclen, ip>>
  BY DEF Killed, netVars
<1>3. LoopTypeOK'
  BY <1>1, <1>2 DEF LoopTypeOK
<1>4. \A f : HasEvent(f)' <=> HasEvent(f)
  BY <1>2 DEF HasEvent, Readable
<1>5. Apart' /\ Measured' /\ OneEach' /\ GeoOfAsker' /\ EventsAreCurrent' /\ Watches'
  BY <1>1, <1>2
     DEF Apart, Measured, OneEach, GeoOfAsker, EventsAreCurrent, Watches, Taken, InBatch
<1>6. Noticed'
  BY <1>1, <1>2, <1>4 DEF Noticed
<1> QED
  BY <1>3, <1>5, <1>6 DEF LoopIInv

LEMMA LoopStart == LoopInit => LoopIInv
<1> SUFFICES ASSUME LoopInit PROVE LoopIInv
  OBVIOUS
<1>1. /\ backlog = <<>> /\ udpq = <<>> /\ ready = <<>> /\ batch = <<>> /\ armed = {}
      /\ \A f \in ConnFd : owner[f] = Nobody
      /\ at = "loop"
  BY DEF LoopInit
<1>2. /\ ToSet(<<>>) = {} /\ IsInjective(<<>>) /\ DOMAIN <<>> = {}
      /\ 1 .. Len(<<>>) = {}
  BY DEF ToSet, IsInjective
<1>3. LoopTypeOK
  BY <1>1, <1>2 DEF LoopTypeOK, LoopInit
<1>4. Apart /\ Watches /\ OneEach /\ Measured /\ EventsAreCurrent /\ GeoOfAsker
  BY <1>1, <1>2 DEF Apart, Watches, OneEach, Measured, EventsAreCurrent, GeoOfAsker
<1>5. Noticed
  BY <1>1, Descriptors DEF Noticed, HasEvent
<1> QED
  BY <1>3, <1>4, <1>5 DEF LoopIInv

\* The invariant the rest follows from: a descriptor that is out is watched, or
\* among the events that were returned, or being answered, and never two of these.
THEOREM LoopInvariance == LoopSpec => []LoopIInv
<1>1. LoopIInv /\ [LoopNext]_loopVars => LoopIInv'
  <2> SUFFICES ASSUME LoopIInv, [LoopNext]_loopVars PROVE LoopIInv'
    OBVIOUS
  <2>1. ASSUME NEW c \in Conn, Connect(c) \/ Segment(c) \/ HangUp(c) PROVE LoopIInv'
    BY <2>1, ConnectStep, ClientStep
  <2>2. ASSUME NEW d \in Dgram, Datagram(d) PROVE LoopIInv'
    BY <2>2, DatagramStep
  <2>3. CASE Serve
    BY <2>3, EpollStep, ServeUdpStep, AcceptStep, AcceptRefusedStep, AcceptEndStep,
       ReadStep, DropStep, SendStep, KilledStep DEF Serve
  <2>4. CASE UNCHANGED loopVars
    BY <2>4 DEF loopVars, netVars, LoopIInv, LoopTypeOK, Apart, Watches, OneEach, Noticed,
       Measured, EventsAreCurrent, GeoOfAsker, Taken, InBatch, HasEvent, Readable
  <2> QED
    BY <2>1, <2>2, <2>3, <2>4 DEF LoopNext
<1> QED
  BY <1>1, LoopStart, PTL DEF LoopSpec

\* The variables have their types: no descriptor has two clients, no client two
\* descriptors, and neither list of the kernel names anything twice.
THEOREM LoopTypeCorrect == LoopSpec => []LoopTypeOK
<1>1. LoopIInv => LoopTypeOK
  BY DEF LoopIInv
<1> QED
  BY <1>1, LoopInvariance, PTL

\* An event that waits in fired_events is for the connection it was fired for,
\* although main closes and accepts between two of them.
THEOREM EventsStayCurrent == LoopSpec => []EventsAreCurrent
<1>1. LoopIInv => EventsAreCurrent
  BY DEF LoopIInv
<1> QED
  BY <1>1, LoopInvariance, PTL

\* No wake-up is lost although the watches are one-shot and never armed again.
THEOREM NobodyIsForgotten == LoopSpec => []NothingForgotten
<1>1. LoopIInv => NothingForgotten
  <2> SUFFICES ASSUME LoopIInv, at # "killed" PROVE NothingForgotten
    BY DEF NothingForgotten
  <2>1. Noticed /\ LevelTriggered = {Udp53, Tcp53}
    BY Descriptors DEF LoopIInv
  <2> QED
    BY <2>1 DEF Noticed, NothingForgotten, Taken
<1> QED
  BY <1>1, LoopInvariance, PTL

\* The address an answer is chosen by is that of the client it goes to.
THEOREM AskerIsLocated == LoopSpec => []GeoOfAsker
<1>1. LoopIInv => GeoOfAsker
  BY DEF LoopIInv
<1> QED
  BY <1>1, LoopInvariance, PTL

-----------------------------------------------------------------------------
(* The search for an answer                                                  *)

\* Lists without repetition that share nothing have none together.
LEMMA OnceJoined ==
    ASSUME NEW s, NEW t, Listed(s), Listed(t), Once(s), Once(t),
           \A a \in ToSet(s), b \in ToSet(t) : ~Same(a, b) /\ ~Same(b, a)
    PROVE  Once(s \o t)
<1> DEFINE u == s \o t
           m == Len(s)
           n == Len(t)
<1>1. /\ m \in Nat /\ n \in Nat /\ Len(u) = m + n
      /\ \A i \in 1 .. m : u[i] = s[i] /\ s[i] \in ToSet(s)
      /\ \A i \in m + 1 .. m + n : i - m \in 1 .. n /\ u[i] = t[i - m]
      /\ \A i \in 1 .. n : t[i] \in ToSet(t)
  BY Joined, ListedFacts DEF Listed
<1> HIDE DEF u, m, n
<1>2. SUFFICES ASSUME NEW i \in 1 .. m + n, NEW j \in 1 .. m + n, Same(u[i], u[j])
               PROVE  i = j
  BY <1>1 DEF Once, u
<1>3. \A k \in 1 .. m + n : k \notin 1 .. m => k \in m + 1 .. m + n
  BY <1>1
<1>4. CASE i \in 1 .. m /\ j \in 1 .. m
  BY <1>1, <1>2, <1>4 DEF Once, m
<1>5. CASE i \notin 1 .. m /\ j \notin 1 .. m
  <2>1. Same(t[i - m], t[j - m]) /\ i - m \in 1 .. n /\ j - m \in 1 .. n
    BY <1>1, <1>2, <1>3, <1>5
  <2>2. i - m = j - m
    BY <2>1 DEF Once, n
  <2> QED
    BY <1>1, <2>2
<1>6. CASE i \in 1 .. m /\ j \notin 1 .. m
  BY <1>1, <1>2, <1>3, <1>6
<1>7. CASE i \notin 1 .. m /\ j \in 1 .. m
  BY <1>1, <1>2, <1>3, <1>7
<1> QED
  BY <1>4, <1>5, <1>6, <1>7

\* Records of the database, none twice
Picked(records) == records \in Seq(DOMAIN db) /\ IsInjective(records)

LEMMA FoundFacts ==
    ASSUME Timed, NEW n, NEW flagwild
    PROVE  /\ Picked(Found(n, flagwild))
           /\ \A i \in ToSet(Found(n, flagwild)) : InTime(db[i])
<1> DEFINE S == {i \in DOMAIN db : /\ db[i].key = n
                                   /\ db[i].loc \in {Anywhere, clientloc}
                                   /\ db[i].wild = flagwild
                                   /\ InTime(db[i])}
<1>1. S \in SUBSET Nat /\ S \in SUBSET DOMAIN db /\ DOMAIN db = 1 .. Len(db) /\ Len(db) \in Nat
  BY DEF Timed
<1>2. IsFiniteSet(S)
  <2>1. IsFiniteSet(DOMAIN db)
    BY <1>1, FS_Interval
  <2> QED
    BY <1>1, <2>1, FS_Subset
<1>3. \A i \in S : InTime(db[i])
  OBVIOUS
<1>4. Found(n, flagwild) = InOrder(S)
  BY DEF Found
<1> HIDE DEF S
<1>5. /\ Cardinality(S) \in Nat /\ InOrder(S) \in Seq(S) /\ Len(InOrder(S)) = Cardinality(S)
      /\ \A k, l \in 1 .. Cardinality(S) : k < l => InOrder(S)[k] < InOrder(S)[l]
  BY <1>1, <1>2, Ordered
<1> DEFINE f == InOrder(S)
<1> HIDE DEF f
<1>6. /\ f \in Seq(S) /\ DOMAIN f = 1 .. Len(f) /\ Len(f) = Cardinality(S)
      /\ \A i \in 1 .. Len(f) : f[i] \in S
      /\ \A x \in ToSet(f) : x \in S
  BY <1>5, ListedFacts DEF f
<1>7. \A k, l \in 1 .. Len(f) : k < l => f[k] < f[l]
  BY <1>5, <1>6 DEF f
<1>8. IsInjective(f)
  <2> SUFFICES ASSUME NEW k \in 1 .. Len(f), NEW l \in 1 .. Len(f), f[k] = f[l]
               PROVE  k = l
    BY <1>6 DEF IsInjective
  <2>1. f[k] \in Nat
    BY <1>1, <1>6
  <2>2. ~(k < l) /\ ~(l < k)
    BY <1>7, <2>1
  <2> QED
    BY <2>2
<1>9. f \in Seq(DOMAIN db)
  BY <1>1, <1>6, SeqMonotonic
<1> QED
  BY <1>3, <1>4, <1>6, <1>8, <1>9 DEF Picked, f

LEMMA PickedFacts ==
    ASSUME NEW records, Picked(records), NEW T
    PROVE  Picked(Kept(records, T)) /\ ToSet(Kept(records, T)) = ToSet(records) \cap T
BY KeptFacts DEF Picked

\* The records are given to an owner, each with its own ttl.
LEMMA Giving ==
    ASSUME NEW owner_, NEW records, Picked(records)
    PROVE  /\ Listed(GiveAll(owner_, records)) /\ Once(GiveAll(owner_, records))
           /\ \A rr \in ToSet(GiveAll(owner_, records)) :
                rr.owner = owner_ /\ rr.of \in ToSet(records) /\ rr.ttl = Ttl(db[rr.of])
<1> DEFINE g == GiveAll(owner_, records)
           n == Len(records)
<1>1. /\ n \in Nat /\ DOMAIN records = 1 .. n
      /\ \A i \in 1 .. n : records[i] \in ToSet(records)
      /\ \A i, j \in 1 .. n : records[i] = records[j] => i = j
  BY ListedFacts DEF Picked, IsInjective
<1>2. g = [i \in 1 .. n |-> RR(owner_, records[i], Ttl(db[records[i]]))]
  BY DEF GiveAll
<1> HIDE DEF g, n
<1>3. \A i \in 1 .. n : /\ g[i].owner = owner_ /\ g[i].of = records[i]
                        /\ g[i].ttl = Ttl(db[records[i]])
  BY <1>2 DEF RR
<1>4. DOMAIN g = 1 .. n /\ Len(g) = n /\ g \in Seq({g[i] : i \in 1 .. n})
  BY <1>1, <1>2
<1>5. Listed(g)
  BY <1>4, ListedFacts
<1>6. Once(g)
  BY <1>1, <1>3, <1>4 DEF Once, Same
<1>7. \A rr \in ToSet(g) : \E i \in 1 .. n : rr = g[i]
  BY <1>4 DEF ToSet
<1> QED
  BY <1>1, <1>3, <1>5, <1>6, <1>7 DEF g


\* What addr may be after n of the addresses: n of them, or as many as fit
Draws(list, n) ==
    {t \in Seq(ToSet(list)) :
        /\ Len(t) = IF n < MaxAddr THEN n ELSE MaxAddr
        /\ IsInjective(t)
        /\ \A i \in 1 .. Len(t) : \E j \in 1 .. n : t[i] = list[j]}

\* The next address goes somewhere, and none is there twice.
LEMMA Shuffled ==
    ASSUME NEW list, Listed(list), IsInjective(list), NEW n \in 1 .. Len(list),
           NEW t \in Draws(list, n - 1), NEW s \in Shuffle(t, n, list[n])
    PROVE  s \in Draws(list, n)
<1> DEFINE A == ToSet(list)
           a == list[n]
<1>1. /\ MaxAddr \in Nat \ {0} /\ Len(list) \in Nat
      /\ \A i \in 1 .. Len(list) : list[i] \in A
      /\ \A i, j \in 1 .. Len(list) : list[i] = list[j] => i = j
      /\ a \in A
  <2>1. MaxAddr \in Nat \ {0}
    BY LookupConstants
  <2>2. /\ Len(list) \in Nat /\ DOMAIN list = 1 .. Len(list)
        /\ \A i \in 1 .. Len(list) : list[i] \in A
    BY ListedFacts DEF Listed
  <2> QED
    BY <2>1, <2>2 DEF IsInjective
<1>2. /\ t \in Seq(A) /\ IsInjective(t)
      /\ Len(t) = IF n - 1 < MaxAddr THEN n - 1 ELSE MaxAddr
      /\ \A i \in 1 .. Len(t) : \E j \in 1 .. n - 1 : t[i] = list[j]
  BY DEF Draws
<1>3. /\ DOMAIN t = 1 .. Len(t) /\ Len(t) \in Nat
      /\ \A i \in 1 .. Len(t) : t[i] \in A
      /\ \A i, j \in 1 .. Len(t) : t[i] = t[j] => i = j
  <2>1. /\ DOMAIN t = 1 .. Len(t) /\ Len(t) \in Nat
        /\ \A i \in 1 .. Len(t) : t[i] \in A
    BY <1>2, ListedFacts
  <2> QED
    BY <1>2, <2>1 DEF IsInjective
<1>4. \A i \in 1 .. Len(t) : t[i] # a
  <2> TAKE i \in 1 .. Len(t)
  <2>1. PICK j \in 1 .. n - 1 : t[i] = list[j]
    BY <1>2
  <2> DEFINE L == Len(list)
  <2>2. L \in Nat /\ n \in 1 .. L
    BY <1>1
  <2>3. j \in 1 .. Len(list) /\ j # n
    <3> HIDE DEF L
    <3>1. j \in 1 .. L /\ j # n
      BY <2>2
    <3> QED
      BY <3>1 DEF L
  <2> QED
    BY <1>1, <2>1, <2>3
<1> HIDE DEF A, a
<1>5. \A i \in 1 .. Len(t) : \E j \in 1 .. n : t[i] = list[j]
  <2>1. \A j \in 1 .. n - 1 : j \in 1 .. n
    OBVIOUS
  <2> QED
    BY <1>2, <2>1
<1>6. a = list[n] /\ n \in 1 .. n /\ n \in Nat
  BY DEF a
<1>0. ASSUME NEW x \in Seq(A), Len(x) = (IF n < MaxAddr THEN n ELSE MaxAddr), IsInjective(x),
             \A i \in 1 .. Len(x) : \E j \in 1 .. n : x[i] = list[j]
      PROVE  x \in Draws(list, n)
  BY <1>0 DEF Draws, A
<1>7. CASE n > MaxAddr
  <2>1. Len(t) = MaxAddr
    BY <1>1, <1>2, <1>7
  <2>2. CASE s = t
    <3>1. Len(t) = IF n < MaxAddr THEN n ELSE MaxAddr
      BY <1>1, <1>6, <1>7, <2>1
    <3> QED
      BY <1>0, <1>2, <1>5, <2>2, <3>1
  <2>3. CASE s # t
    <3>1. PICK i \in 1 .. MaxAddr : s = [t EXCEPT ![i] = a]
      <4>1. (n > MaxAddr) = TRUE /\ (n < MaxAddr) = FALSE
        BY <1>1, <1>6, <1>7
      <4> QED
        BY <2>3, <4>1 DEF Shuffle, a
    <3>2. /\ DOMAIN s = 1 .. MaxAddr /\ s[i] = a
          /\ \A k \in 1 .. MaxAddr : k # i => s[k] = t[k]
      BY <1>3, <2>1, <3>1
    <3>3. s \in Seq(A) /\ Len(s) = MaxAddr
      <4>1. s \in [1 .. MaxAddr -> A]
        BY <1>1, <1>3, <2>1, <3>1
      <4> QED
        BY <1>1, <4>1
    <3>4. IsInjective(s)
      BY <1>3, <1>4, <2>1, <3>2 DEF IsInjective
    <3>5. \A k \in 1 .. MaxAddr : \E j \in 1 .. n : s[k] = list[j]
      BY <1>5, <1>6, <2>1, <3>2
    <3> QED
      <4>1. MaxAddr = IF n < MaxAddr THEN n ELSE MaxAddr
        BY <1>1, <1>6, <1>7
      <4> QED
        BY <1>0, <3>3, <3>4, <3>5, <4>1
  <2> QED
    BY <2>2, <2>3
<1>8. CASE ~(n > MaxAddr)
  <2>1. Len(t) = n - 1
    BY <1>1, <1>2, <1>8
  <2>2. PICK i \in 1 .. n : s = [Append(t, IF i < n THEN t[i] ELSE a) EXCEPT ![i] = a]
    <3>1. \A i \in 1 .. IF n < MaxAddr THEN n ELSE MaxAddr : i \in 1 .. n
      BY <1>1, <1>8
    <3> QED
      BY <1>8, <3>1 DEF Shuffle, a
  <2> DEFINE b == IF i < n THEN t[i] ELSE a
             u == Append(t, b)
  <2>3. b \in A
    <3>1. i < n => i \in 1 .. n - 1
      OBVIOUS
    <3> QED
      BY <1>1, <1>3, <2>1, <3>1
  <2>4. /\ u \in Seq(A) /\ Len(u) = n /\ DOMAIN u = 1 .. n /\ u[n] = b
        /\ \A k \in 1 .. n - 1 : u[k] = t[k]
    BY <1>2, <2>1, <2>3, AppendProperties
  <2>5. s = [u EXCEPT ![i] = a] /\ b = IF i < n THEN t[i] ELSE a
    BY <2>2
  <2> HIDE DEF b, u
  <2>6. /\ DOMAIN s = 1 .. n /\ s[i] = a
        /\ \A k \in 1 .. n : k # i => s[k] = u[k]
    BY <2>4, <2>5
  <2>7. \A k \in 1 .. n - 1 : k # i => s[k] = t[k]
    BY <2>4, <2>6
  <2>8. n # i => s[n] = t[i] /\ i \in 1 .. n - 1
    BY <2>4, <2>5, <2>6
  <2>9. \A k \in 1 .. n : k \in 1 .. n - 1 \/ k = n
    OBVIOUS
  <2>10. s \in Seq(A) /\ Len(s) = n
    <3>1. u \in [1 .. n -> A]
      BY <2>4
    <3>2. s \in [1 .. n -> A]
      BY <1>1, <2>5, <3>1
    <3> QED
      BY <1>6, <3>2
  <2>11. IsInjective(s)
    <3> SUFFICES ASSUME NEW k \in 1 .. n, NEW l \in 1 .. n, s[k] = s[l]
                 PROVE  k = l
      BY <2>6 DEF IsInjective
    <3>1. \A h \in 1 .. n - 1 : t[h] # a
      BY <1>4, <2>1
    <3>2. \A g, h \in 1 .. n - 1 : t[g] = t[h] => g = h
      BY <1>3, <2>1
    <3>3. CASE k = i
      BY <2>6, <2>7, <2>8, <2>9, <3>1, <3>3
    <3>4. CASE l = i
      BY <2>6, <2>7, <2>8, <2>9, <3>1, <3>4
    <3>5. CASE k # i /\ l # i
      BY <2>6, <2>7, <2>8, <2>9, <3>2, <3>5
    <3> QED
      BY <3>3, <3>4, <3>5
  <2>12. \A k \in 1 .. n : \E j \in 1 .. n : s[k] = list[j]
    <3>1. ASSUME NEW h \in 1 .. n - 1 PROVE \E j \in 1 .. n : t[h] = list[j]
      BY <1>5, <1>6, <2>1
    <3>2. \E j \in 1 .. n : a = list[j]
      BY <1>6
    <3> TAKE k \in 1 .. n
    <3>3. CASE k = i
      BY <2>6, <3>2, <3>3
    <3>4. CASE k # i /\ k \in 1 .. n - 1
      BY <2>7, <3>1, <3>4
    <3>5. CASE k # i /\ k = n
      BY <2>8, <3>1, <3>5
    <3> QED
      BY <2>9, <3>3, <3>4, <3>5
  <2> QED
    <3>1. n = IF n < MaxAddr THEN n ELSE MaxAddr
      BY <1>1, <1>6, <1>8
    <3> QED
      BY <1>0, <2>10, <2>11, <2>12, <3>1
<1> QED
  BY <1>7, <1>8

\* All the addresses, or as many as fit, in some order
LEMMA DrawnFacts ==
    ASSUME NEW list, Listed(list), IsInjective(list), NEW s \in Drawn(list)
    PROVE  s \in Seq(ToSet(list)) /\ IsInjective(s)
<1> DEFINE L == Len(list)
           after[n \in 0 .. L] ==
                IF n = 0 THEN {<<>>} ELSE UNION {Shuffle(t, n, list[n]) : t \in after[n - 1]}
           Most == UNION {Draws(list, n) : n \in 0 .. L}
           S == SUBSET Most
           Next_(X, n) ==
                (UNION {Shuffle(t, n, list[n]) : t \in X \cap Draws(list, n - 1)}) \cap Most
           F == [p \in S \X (0 .. L) |-> Next_(p[1], p[2])]
           none == {<<>>}
<1> HIDE DEF L, after, Most, S, F, Next_, none
<1>1. L \in Nat
  BY ListedFacts DEF Listed, L
<1>2. \A n \in 1 .. L : \A t \in Draws(list, n - 1) : Shuffle(t, n, list[n]) \subseteq Draws(list, n)
  BY Shuffled DEF L
<1>3. none \subseteq Draws(list, 0) /\ none \in S
  <2>1. <<>> \in Draws(list, 0)
    BY LookupConstants DEF Draws, IsInjective
  <2>2. 0 \in 0 .. L
    BY <1>1
  <2> QED
    BY <2>1, <2>2 DEF S, Most, none
<1>4. F \in [S \X (0 .. L) -> S]
  <2>1. \A X, n : Next_(X, n) \in S
    BY DEF Next_, S
  <2> QED
    BY <2>1 DEF F
<1>5. PICK g : Iterates(g, F, S, none, 0, L)
  <2>1. 0 <= L /\ 0 \in Nat /\ Steps(F, S, 0, L)
    BY <1>1, <1>4 DEF Steps
  <2> QED
    BY <1>1, <1>3, <2>1, Iterated
<1>0. g \in [0 .. L -> S] /\ g[0] = none /\ \A n \in 1 .. L : g[n] = F[<<g[n - 1], n>>]
  BY <1>5 DEF Iterates
<1>6. \A n \in 1 .. L : F[<<g[n - 1], n>>] =
        UNION {Shuffle(t, n, list[n]) : t \in g[n - 1] \cap Draws(list, n - 1)}
  <2> TAKE n \in 1 .. L
  <2>1. n \in 0 .. L /\ n - 1 \in 0 .. L
    BY <1>1
  <2>2. <<g[n - 1], n>> \in S \X (0 .. L)
    BY <1>0, <2>1
  <2>3. UNION {Shuffle(t, n, list[n]) : t \in g[n - 1] \cap Draws(list, n - 1)} \subseteq Most
    BY <1>2, <2>1 DEF Most
  <2>4. F[<<g[n - 1], n>>] = Next_(g[n - 1], n)
    BY <2>2 DEF F
  <2> QED
    BY <2>3, <2>4 DEF Next_
<1>7. \A n \in 0 .. L : g[n] \subseteq Draws(list, n)
  <2> TAKE n \in 0 .. L
  <2>1. CASE n = 0
    BY <1>3, <1>0, <2>1
  <2>2. CASE n # 0
    <3>1. n \in 1 .. L
      BY <1>1, <2>2
    <3>2. g[n] = UNION {Shuffle(t, n, list[n]) : t \in g[n - 1] \cap Draws(list, n - 1)}
      BY <1>0, <1>6, <2>2, <3>1
    <3> QED
      BY <1>2, <3>1, <3>2
  <2> QED
    BY <2>1, <2>2
<1>8. g = [n \in 0 .. L |->
            IF n = 0 THEN {<<>>} ELSE UNION {Shuffle(t, n, list[n]) : t \in g[n - 1]}]
  <2>1. ASSUME NEW n \in 0 .. L, n # 0
        PROVE  g[n] = UNION {Shuffle(t, n, list[n]) : t \in g[n - 1]}
    <3>1. n \in 1 .. L /\ n - 1 \in 0 .. L
      BY <1>1, <2>1
    <3>2. g[n - 1] \cap Draws(list, n - 1) = g[n - 1]
      BY <1>7, <3>1
    <3>3. g[n] = F[<<g[n - 1], n>>]
      BY <1>0, <3>1
    <3> QED
      BY <1>6, <3>1, <3>2, <3>3
  <2>2. 0 \in 0 .. L => g[0] = {<<>>}
    BY <1>0 DEF none
  <2> QED
    BY <1>0, <2>1, <2>2
<1>9. after = [n \in 0 .. L |->
                IF n = 0 THEN {<<>>} ELSE UNION {Shuffle(t, n, list[n]) : t \in after[n - 1]}]
  BY <1>8 DEF after
<1>10. Drawn(list) = after[L]
  BY DEF Drawn, after, L
<1> DEFINE B == {n \in 0 .. L : after[n] \subseteq Draws(list, n)}
<1>11. 0 \in B
  BY <1>1, <1>3, <1>9 DEF none
<1>12. ASSUME NEW n \in 0 + 1 .. L, n - 1 \in B PROVE n \in B
  <2>1. n \in 1 .. L /\ n \in 0 .. L /\ n # 0
    BY <1>1
  <2>2. after[n] = UNION {Shuffle(t, n, list[n]) : t \in after[n - 1]}
    BY <1>9, <2>1
  <2> QED
    BY <1>2, <1>12, <2>1, <2>2
<1>13. \A n \in 0 .. L : n \in B
  <2> HIDE DEF B
  <2> QED
    BY <1>1, <1>11, <1>12, Stepwise
<1>14. s \in Draws(list, L)
  <2>1. L \in 0 .. L
    BY <1>1
  <2>2. after[L] \subseteq Draws(list, L)
    BY <1>13, <2>1
  <2> QED
    BY <1>10, <2>2
<1> QED
  BY <1>14 DEF Draws

\* The answer is made of records that were found, each said once.
LEMMA AnswerFacts ==
    ASSUME NEW records, Picked(records), NEW a \in Answer(records)
    PROVE  /\ Listed(a) /\ Once(a)
           /\ \A rr \in ToSet(a) : /\ rr.of \in ToSet(records)
                                   /\ TypeOf(rr.of) # "A" => rr.ttl = Ttl(db[rr.of])
<1> DEFINE found == OfType(records, "A")
           T == {i \in ToSet(records) : TypeOf(i) # "A"}
           others == Kept(records, T)
           front == GiveAll(query.name, others)
           last == Ttl(db[found[Len(found)]])
           Back(s) == [i \in 1 .. Len(s) |-> RR(query.name, s[i], last)]
<1>1. PICK s \in Drawn(found) : a = front \o Back(s)
  BY DEF Answer
<1>2. /\ Picked(found) /\ \A i \in ToSet(found) : i \in ToSet(records) /\ TypeOf(i) = "A"
      /\ Picked(others) /\ \A i \in ToSet(others) : i \in ToSet(records) /\ TypeOf(i) # "A"
  BY PickedFacts DEF OfType
<1> HIDE DEF found, T, others, last
<1>3. s \in Seq(ToSet(found)) /\ IsInjective(s)
  <2>1. Listed(found) /\ IsInjective(found)
    BY <1>2, ListedFacts DEF Picked
  <2> QED
    BY <1>1, <2>1, DrawnFacts
<1>4. /\ Listed(front) /\ Once(front)
      /\ \A rr \in ToSet(front) : rr.of \in ToSet(others) /\ rr.ttl = Ttl(db[rr.of])
  BY <1>2, Giving
<1> DEFINE back == Back(s)
<1>5. /\ Listed(back) /\ Once(back)
      /\ \A rr \in ToSet(back) : rr.of \in ToSet(found)
  <2>1. /\ Len(s) \in Nat /\ DOMAIN s = 1 .. Len(s)
        /\ \A i \in 1 .. Len(s) : s[i] \in ToSet(found)
        /\ \A i, j \in 1 .. Len(s) : s[i] = s[j] => i = j
    BY <1>3, ListedFacts DEF IsInjective
  <2>2. /\ DOMAIN back = 1 .. Len(s) /\ Len(back) = Len(s)
        /\ back \in Seq({back[i] : i \in 1 .. Len(s)})
    BY <2>1
  <2>3. \A i \in 1 .. Len(s) : back[i].owner = query.name /\ back[i].of = s[i]
    BY DEF RR
  <2> HIDE DEF back
  <2>4. Listed(back)
    BY <2>2, ListedFacts
  <2>5. Once(back)
    BY <2>1, <2>2, <2>3 DEF Once, Same
  <2>6. \A rr \in ToSet(back) : \E i \in 1 .. Len(s) : rr = back[i]
    BY <2>2 DEF ToSet
  <2> QED
    BY <2>1, <2>3, <2>4, <2>5, <2>6
<1> HIDE DEF front, back
<1>6. \A x \in ToSet(front), y \in ToSet(back) : ~Same(x, y) /\ ~Same(y, x)
  BY <1>2, <1>4, <1>5 DEF Same
<1>7. a = front \o back
  BY <1>1 DEF back
<1>8. Once(a) /\ Listed(a) /\ ToSet(a) = ToSet(front) \cup ToSet(back)
  BY <1>4, <1>5, <1>6, <1>7, Joined, OnceJoined
<1> QED
  BY <1>2, <1>4, <1>5, <1>8

\* The records compiled are timed as the lines are, and name servers and mail
\* exchangers have names.
TimedRecords(s) ==
    /\ Listed(s)
    /\ \A r \in ToSet(s) :
        /\ r.ttl \in Nat /\ r.ttd \in Nat
        /\ r.type \in {"NS", "MX"} => r.data \in Seq(Label)

GoodLine(l) ==
    /\ l.kind \in Kinds /\ l.ttl \in Nat /\ l.ttd \in Nat
    /\ l.name \in Seq(Label) /\ l.to \in Seq(Label)
    /\ l.kind = ":" => l.to[1] \notin {"NS", "MX"}

LEMMA CompiledFacts ==
    ASSUME NEW l, GoodLine(l)
    PROVE  TimedRecords(Compiled(l).rrs)
<1>0. Negative \in Nat
  BY LookupConstants
<1>1. TimedRecords(<<>>)
  BY DEF TimedRecords, Listed, ToSet
<1>2. ASSUME NEW o, NEW type, NEW ttl \in Nat, NEW data,
             type \in {"NS", "MX"} => data \in Seq(Label)
      PROVE  TimedRecords(<<Record(o, type, ttl, data, l)>>)
  <2> DEFINE r == Record(o, type, ttl, data, l)
  <2>1. r.ttl = ttl /\ r.ttd = l.ttd /\ r.type = type /\ r.data = data
    BY DEF Record
  <2> HIDE DEF r
  <2>2. <<r>> \in Seq({r}) /\ ToSet(<<r>>) = {r}
    BY DEF ToSet
  <2>3. l.ttd \in Nat
    BY DEF GoodLine
  <2>4. TimedRecords(<<r>>)
    BY <1>2, <2>1, <2>2, <2>3 DEF TimedRecords, Listed
  <2> QED
    BY <2>4 DEF r
<1>3. ASSUME NEW s, NEW u, TimedRecords(s), TimedRecords(u)
      PROVE  TimedRecords(s \o u)
  BY <1>3, Joined DEF TimedRecords
<1>g. l.ttl \in Nat /\ l.name \in Seq(Label) /\ l.to \in Seq(Label)
  BY DEF GoodLine
<1>4. ASSUME NEW n PROVE TimedRecords(GlueOf(n, l).rrs)
  BY <1>1, <1>2, <1>g DEF GlueOf
<1>5. ASSUME NEW ttl \in Nat, NEW n PROVE TimedRecords(Soa(ttl, n, l).rrs)
  BY <1>2 DEF Soa
<1>6. \A x, y : With(x, y).rrs = x.rrs \o y.rrs
  BY DEF With
<1>t. \A infix \in Label : Target(l, infix) \in Seq(Label)
  <2>1. \A S : \A a, b \in Seq(S), x \in S : a \o <<x>> \o b \in Seq(S)
    OBVIOUS
  <2> QED
    BY <1>g, <2>1, Zenon DEF Target
<1>u. "ns" \in Label /\ "mx" \in Label
  BY LookupConstants
<1>7. TimedRecords(NameServer(l).rrs)
  <2> DEFINE ns == Target(l, "ns")
             r == <<Record(l.name, "NS", l.ttl, ns, l)>>
  <2>1. TimedRecords(r)
    <3>1. ns \in Seq(Label)
      BY <1>t, <1>u, Zenon
    <3> HIDE DEF ns
    <3> QED
      BY <1>2, <1>g, <3>1
  <2>2. NameServer(l).rrs = r \o GlueOf(ns, l).rrs
    <3> DEFINE a == [rrs |-> r, loqs |-> Loq("NS", ns, l)]
    <3>1. NameServer(l) = With(a, GlueOf(ns, l))
      BY Zenon DEF NameServer
    <3>2. a.rrs = r
      OBVIOUS
    <3> HIDE DEF a
    <3> QED
      BY <1>6, <3>1, <3>2
  <2> QED
    BY <1>3, <1>4, <2>1, <2>2
<1>8. TimedRecords(Mail(l).rrs)
  <2> DEFINE mx == Target(l, "mx")
             r == <<Record(l.name, "MX", l.ttl, mx, l)>>
  <2>1. TimedRecords(r)
    <3>1. mx \in Seq(Label)
      BY <1>t, <1>u, Zenon
    <3> HIDE DEF mx
    <3> QED
      BY <1>2, <1>g, <3>1
  <2>2. Mail(l).rrs = r \o GlueOf(mx, l).rrs
    <3> DEFINE a == [rrs |-> r, loqs |-> Loq("MX", l.name, l)]
    <3>1. Mail(l) = With(a, GlueOf(mx, l))
      BY Zenon DEF Mail
    <3>2. a.rrs = r
      OBVIOUS
    <3> HIDE DEF a
    <3> QED
      BY <1>6, <3>1, <3>2
  <2> QED
    BY <1>3, <1>4, <2>1, <2>2
<1>9. TimedRecords(Host(l).rrs)
  BY <1>2, <1>3, <1>4, <1>6, <1>g DEF Host
<1>10. /\ TimedRecords(Alias(l).rrs) /\ TimedRecords(Pointer(l).rrs)
       /\ TimedRecords(Text(l).rrs)
       /\ l.kind = ":" => TimedRecords(Generic(l).rrs)
  <2>1. TimedRecords(Alias(l).rrs)
    BY <1>2, <1>g DEF Alias
  <2>2. TimedRecords(Pointer(l).rrs)
    BY <1>2, <1>g DEF Pointer
  <2>3. TimedRecords(Text(l).rrs)
    BY <1>2, <1>g DEF Text
  <2>4. l.kind = ":" => TimedRecords(Generic(l).rrs)
    BY <1>2, <1>g DEF Generic, GoodLine
  <2> QED
    BY <2>1, <2>2, <2>3, <2>4
<1>11. CASE l.kind = "Z"
  BY <1>5, <1>11, <1>g DEF Compiled
<1>12. CASE l.kind = "."
  <2> DEFINE ttl == IF l.ttl = 0 THEN 0 ELSE Negative
  <2>1. ttl \in Nat
    BY <1>0
  <2> HIDE DEF ttl
  <2>2. TimedRecords(With(Soa(ttl, Target(l, "ns"), l), NameServer(l)).rrs)
    BY <1>3, <1>5, <1>6, <1>7, <2>1
  <2>3. Compiled(l) = With(Soa(ttl, Target(l, "ns"), l), NameServer(l))
    BY <1>12 DEF Compiled, ttl
  <2> QED
    BY <2>2, <2>3
<1>13. CASE l.kind = "&"
  BY <1>7, <1>13 DEF Compiled
<1>14. CASE l.kind \in {"+", "="}
  BY <1>9, <1>14 DEF Compiled
<1>15. CASE l.kind = "@"
  BY <1>8, <1>15 DEF Compiled
<1>16. CASE l.kind = "C"
  BY <1>10, <1>16 DEF Compiled
<1>17. CASE l.kind = "^"
  BY <1>10, <1>17 DEF Compiled
<1>18. CASE l.kind = "'"
  BY <1>10, <1>18 DEF Compiled
<1>19. CASE l.kind = ":"
  BY <1>10, <1>19 DEF Compiled
<1> QED
  BY <1>11, <1>12, <1>13, <1>14, <1>15, <1>16, <1>17, <1>18, <1>19 DEF GoodLine, Kinds

LEMMA RecordsFacts ==
    ASSUME NEW lines \in Data
    PROVE  TimedRecords(RecordsOf(lines))
<1> DEFINE n == Len(lines)
           seqs == [i \in 1 .. n |-> Compiled(lines[i]).rrs]
           A == UNION {ToSet(seqs[i]) : i \in 1 .. n}
<1>1. n \in Nat /\ \A i \in 1 .. n : lines[i] \in ToSet(lines)
  <2>1. lines \in Seq(ToSet(lines))
    BY LookupConstants
  <2> QED
    BY <2>1, ListedFacts
<1>2. \A i \in 1 .. n : TimedRecords(seqs[i])
  <2>1. \A i \in 1 .. n : GoodLine(lines[i])
    BY <1>1, LookupConstants DEF GoodLine
  <2> QED
    BY <2>1, CompiledFacts
<1>3. seqs = [i \in 1 .. n |-> seqs[i]]
  OBVIOUS
<1>4. FlattenSeq(seqs) = RecordsOf(lines)
  BY DEF RecordsOf
<1> HIDE DEF n, seqs
<1>5. \A i \in 1 .. n : seqs[i] \in Seq(A)
  <2> TAKE i \in 1 .. n
  <2>1. seqs[i] \in Seq(ToSet(seqs[i])) /\ ToSet(seqs[i]) \subseteq A
    BY <1>2 DEF TimedRecords, Listed
  <2> QED
    BY <2>1, SeqMonotonic
<1>6. \A r \in A :
        /\ r.ttl \in Nat /\ r.ttd \in Nat
        /\ r.type \in {"NS", "MX"} => r.data \in Seq(Label)
  BY <1>2 DEF TimedRecords
<1> HIDE DEF A
<1>7. seqs \in Seq(Seq(A))
  BY <1>1, <1>3, <1>5
<1>8. RecordsOf(lines) \in Seq(A)
  BY <1>4, <1>7, Flattened
<1> QED
  BY <1>6, <1>8, ListedFacts DEF TimedRecords

-----------------------------------------------------------------------------
(* The invariant                                                            *)

Said ==
    /\ Timed /\ SoundSection(an) /\ SoundSection(au) /\ SoundSection(ar) /\ NoTwice

\* Records fit to be said now
Fresh(s) ==
    /\ Listed(s) /\ Once(s)
    /\ \A rr \in ToSet(s) : /\ rr.of \in DOMAIN db /\ InTime(db[rr.of])
                            /\ TypeOf(rr.of) # "A" => rr.ttl = Ttl(db[rr.of])

LEMMA EmptyFacts == Listed(<<>>) /\ ToSet(<<>>) = {} /\ Once(<<>>) /\ Fresh(<<>>)
BY DEF Listed, ToSet, Once, Fresh

LEMMA FreshGiven ==
    ASSUME NEW owner_, NEW records, Picked(records),
           \A i \in ToSet(records) : InTime(db[i])
    PROVE  /\ Fresh(GiveAll(owner_, records))
           /\ \A rr \in ToSet(GiveAll(owner_, records)) :
                rr.owner = owner_ /\ rr.of \in ToSet(records)
<1> DEFINE g == GiveAll(owner_, records)
<1>1. /\ Listed(g) /\ Once(g)
      /\ \A rr \in ToSet(g) :
            rr.owner = owner_ /\ rr.of \in ToSet(records) /\ rr.ttl = Ttl(db[rr.of])
  BY Giving
<1>2. \A i \in ToSet(records) : i \in DOMAIN db
  BY ListedFacts DEF Picked
<1> HIDE DEF g
<1>3. Fresh(g) /\ \A rr \in ToSet(g) : rr.owner = owner_ /\ rr.of \in ToSet(records)
  BY <1>1, <1>2 DEF Fresh
<1> QED
  BY <1>3 DEF g

\* The records of a type, the first of them
LEMMA OfTypeFacts ==
    ASSUME Timed, NEW n, NEW type
    PROVE  LET records == OfType(Found(n, FALSE), type)
           IN  /\ Picked(records) /\ \A i \in ToSet(records) : TypeOf(i) = type /\ InTime(db[i])
               /\ Yields(n, type) =>
                    /\ Picked(SubSeq(records, 1, 1))
                    /\ \A i \in ToSet(SubSeq(records, 1, 1)) : InTime(db[i])
<1> DEFINE found == Found(n, FALSE)
           records == OfType(found, type)
<1>1. Picked(found) /\ \A i \in ToSet(found) : InTime(db[i])
  BY FoundFacts
<1>2. Yields(n, type) => \E i \in ToSet(found) : TypeOf(i) = type
  BY DEF Yields
<1> HIDE DEF found
<1>3. Picked(records) /\ ToSet(records) = ToSet(found) \cap {i \in ToSet(found) : TypeOf(i) = type}
  BY <1>1, PickedFacts DEF OfType
<1> HIDE DEF records
<1>4. \A i \in ToSet(records) : TypeOf(i) = type /\ InTime(db[i])
  BY <1>1, <1>3
<1>5. ASSUME Yields(n, type)
      PROVE  /\ Picked(SubSeq(records, 1, 1))
             /\ \A i \in ToSet(SubSeq(records, 1, 1)) : InTime(db[i])
  <2>1. PICK i \in ToSet(records) : TRUE
    BY <1>2, <1>3, <1>5
  <2>2. /\ records \in Seq(DOMAIN db) /\ Len(records) \in Nat /\ DOMAIN records = 1 .. Len(records)
        /\ \E k \in 1 .. Len(records) : i = records[k]
        /\ \A k \in 1 .. Len(records) : records[k] \in ToSet(records) /\ records[k] \in DOMAIN db
    BY <1>3, <2>1, ListedFacts DEF Picked
  <2>3. 1 \in 1 .. Len(records)
    BY <2>2
  <2> DEFINE h == SubSeq(records, 1, 1)
             x == records[1]
  <2>4. h = [k \in 1 .. 1 |-> records[k]]
    BY <2>2, <2>3
  <2>5. x \in DOMAIN db /\ InTime(db[x])
    BY <1>4, <2>2, <2>3
  <2> HIDE DEF h
  <2>6. 1 \in 1 .. 1 /\ \A k \in 1 .. 1 : k = 1
    OBVIOUS
  <2>7. DOMAIN h = 1 .. 1 /\ h[1] = x /\ h \in [1 .. 1 -> {x}]
    BY <2>4, <2>6
  <2> HIDE DEF x
  <2>8. h \in [1 .. 1 -> DOMAIN db]
    BY <2>5, <2>7
  <2>9. h \in Seq(DOMAIN db)
    BY <2>8
  <2>10. IsInjective(h)
    BY <2>6, <2>7 DEF IsInjective
  <2>11. ToSet(h) = {x}
    BY <2>6, <2>7 DEF ToSet
  <2> QED
    BY <2>5, <2>9, <2>10, <2>11 DEF Picked, h
<1> QED
  BY <1>3, <1>4, <1>5 DEF records, found

\* While nothing is added, what was said stays sound.
LEMMA QuietStep ==
    ASSUME Said, UNCHANGED <<db, query, an, au, ar>>,
           reply = Silence => reply' = Silence
    PROVE  Said'
<1>1. \A rr : Sound(rr) => Sound(rr)'
  BY DEF Sound, InTime, Ttl, TypeOf
<1>2. SoundSection(an)' /\ SoundSection(au)' /\ SoundSection(ar)'
  BY <1>1 DEF Said, SoundSection
<1>3. Timed'
  BY DEF Said, Timed
<1>4. NoTwice'
  BY DEF Said, NoTwice
<1> QED
  BY <1>2, <1>3, <1>4 DEF Said

\* Records are added to the sections, or the message is full and there is none.
LEMMA PutStep ==
    ASSUME Said, Busy, pc # "idle", UNCHANGED <<db, query>>,
           NEW a, NEW u, NEW r, NEW next, Put(a, u, r, next),
           Fresh(a) \/ a = an, Fresh(u) \/ u = au,
           NEW more, r = ar \o more, Fresh(more), Once(a \o u \o r)
    PROVE  /\ Said' /\ Busy'
           /\ \/ pc' = next /\ an' = a /\ au' = u /\ ar' = r
              \/ pc' = "idle"
<1>0. reply # Silence
  BY LookupConstants DEF Busy
<1>a. ASSUME NEW s, Fresh(s), NEW rr \in ToSet(s), UNCHANGED reply PROVE Sound(rr)'
  <2>1. Sound(rr)
    BY <1>a DEF Fresh, Sound
  <2> QED
    BY <1>a, <2>1 DEF Sound, InTime, Ttl, TypeOf
<1>1. ASSUME Fresh(a), NEW rr \in ToSet(a), UNCHANGED reply PROVE Sound(rr)'
  BY <1>a, <1>1
<1>2. ASSUME Fresh(u), NEW rr \in ToSet(u), UNCHANGED reply PROVE Sound(rr)'
  BY <1>a, <1>2
<1>3. ASSUME NEW rr \in ToSet(more), UNCHANGED reply PROVE Sound(rr)'
  BY <1>a, <1>3
<1>4. ASSUME NEW rr, Sound(rr), UNCHANGED reply PROVE Sound(rr)'
  BY <1>4 DEF Sound, InTime, Ttl, TypeOf
<1>5. CASE Size(a, u, r) <= Whole
  <2>1. an' = a /\ au' = u /\ ar' = r /\ pc' = next /\ UNCHANGED reply
    BY <1>5 DEF Put
  <2>2. SoundSection(an)'
    BY <1>1, <1>4, <2>1 DEF Said, SoundSection, Fresh, Listed
  <2>3. SoundSection(au)'
    BY <1>2, <1>4, <2>1 DEF Said, SoundSection, Fresh, Listed
  <2>4. SoundSection(ar)'
    <3>1. Listed(ar) /\ Listed(more)
      BY DEF Said, SoundSection, Fresh, Listed
    <3>2. Listed(r) /\ ToSet(r) = ToSet(ar) \cup ToSet(more)
      BY <3>1, Joined
    <3> QED
      BY <1>3, <1>4, <2>1, <3>2 DEF Said, SoundSection, Listed
  <2>5. NoTwice'
    BY <2>1 DEF NoTwice
  <2>6. Timed'
    BY DEF Said, Timed
  <2> QED
    BY <1>0, <2>1, <2>2, <2>3, <2>4, <2>5, <2>6 DEF Said, Busy
<1>6. CASE ~(Size(a, u, r) <= Whole)
  <2>1. reply' = Silence /\ pc' = "idle" /\ UNCHANGED <<an, au, ar>>
    BY <1>6 DEF Put, Reply
  <2> QED
    BY <2>1, QuietStep DEF Busy
<1> QED
  BY <1>5, <1>6

\* A message is begun: nothing was said yet.
LEMMA BeginStep ==
    ASSUME LookupIInv, NEW q \in Query, NEW next \in {"respond", "refused"}, Begin(q, next)
    PROVE  LookupIInv'
<1>1. /\ pc' = next /\ query' = q /\ an' = <<>> /\ au' = <<>> /\ ar' = <<>>
      /\ reply' = Pending /\ db' = db
  BY DEF Begin
<1>2. SoundSection(an)' /\ SoundSection(au)' /\ SoundSection(ar)'
  BY <1>1, EmptyFacts DEF SoundSection, Listed
<1>3. <<>> \o <<>> \o <<>> = <<>>
  OBVIOUS
<1>4. NoTwice'
  BY <1>1, <1>3, EmptyFacts DEF NoTwice
<1>5. Timed'
  <2>1. q.time \in Nat
    BY LookupConstants
  <2> QED
    BY <1>1, <2>1 DEF LookupIInv, Timed
<1>6. Busy' /\ InTurn' /\ Ours'
  BY <1>1 DEF Busy, InTurn, Ours
<1> QED
  BY <1>2, <1>4, <1>5, <1>6 DEF LookupIInv

\* What find yields is told by the database, the place and the time.
LEMMA YieldsStay ==
    ASSUME UNCHANGED <<db, query, clientloc>>, NEW n, NEW type
    PROVE  Yields(n, type)' = Yields(n, type)
BY DEF Yields, Found, InTime, TypeOf

LEMMA AnswerStep ==
    ASSUME LookupIInv, SomethingThere
    PROVE  LookupIInv'
<1> DEFINE records == Chosen(Pass)
<1>1. PICK a \in Answer(records) : Put(a, au, ar, "authority")
  BY DEF SomethingThere
<1>2. /\ pc = "answer" /\ UNCHANGED <<db, query, clientloc, control, authoritative>>
      /\ an = <<>> /\ au = <<>> /\ ar = <<>>
      /\ Said /\ Busy /\ Timed /\ Ours
  BY DEF SomethingThere, search, LookupIInv, Said, InTurn
<1>3. Picked(records) /\ \A i \in ToSet(records) : i \in DOMAIN db /\ InTime(db[i])
  <2>1. Picked(Pass) /\ \A i \in ToSet(Pass) : InTime(db[i])
    BY <1>2, FoundFacts DEF Pass
  <2>2. Picked(records) /\ \A i \in ToSet(records) : i \in ToSet(Pass)
    BY <2>1, PickedFacts DEF Chosen
  <2> HIDE DEF records
  <2> QED
    BY <2>1, <2>2, ListedFacts DEF Picked
<1> HIDE DEF records
<1>4. Fresh(a)
  <2>1. /\ Listed(a) /\ Once(a)
        /\ \A rr \in ToSet(a) : /\ rr.of \in ToSet(records)
                                /\ TypeOf(rr.of) # "A" => rr.ttl = Ttl(db[rr.of])
    BY <1>1, <1>3, AnswerFacts
  <2> QED
    BY <1>3, <2>1 DEF Fresh
<1>5. ar = ar \o <<>> /\ Once(a \o au \o ar)
  <2>1. a \in Seq(ToSet(a))
    BY <1>4 DEF Fresh, Listed
  <2>2. a \o <<>> = a /\ <<>> \o <<>> = <<>>
    BY <2>1
  <2>3. a \o au \o ar = a
    BY <1>2, <2>2
  <2> QED
    BY <1>2, <1>4, <2>2, <2>3 DEF Fresh
<1>6. /\ Said' /\ Busy'
      /\ \/ pc' = "authority" /\ an' = a /\ au' = au /\ ar' = ar
         \/ pc' = "idle"
  BY <1>1, <1>2, <1>4, <1>5, EmptyFacts, PutStep
<1>7. InTurn'
  BY <1>2, <1>6 DEF InTurn
<1>8. Ours'
  <2>1. ASSUME pc' = "authority", authoritative' PROVE Yields(control, "SOA")'
    <3>1. Yields(control, "SOA")
      BY <1>2, <2>1 DEF Ours
    <3> QED
      BY <1>2, <3>1, YieldsStay
  <2> QED
    BY <1>6, <2>1 DEF Ours
<1> QED
  BY <1>6, <1>7, <1>8 DEF LookupIInv, Said

LEMMA AuthorityStep ==
    ASSUME LookupIInv, Authority
    PROVE  LookupIInv'
<1> DEFINE soas == OfType(Found(control, FALSE), "SOA")
           nss == OfType(Found(control, FALSE), "NS")
           given == IF authoritative /\ an = <<>> THEN SubSeq(soas, 1, 1)
                    ELSE IF Want(control, "NS") THEN nss ELSE <<>>
           g == GiveAll(control, given)
<1>1. /\ pc = "authority" /\ UNCHANGED <<db, query>> /\ Put(an, g, ar, "additional")
      /\ au = <<>> /\ ar = <<>> /\ Said /\ Busy /\ Timed /\ Ours
  BY DEF Authority, LookupIInv, Said, InTurn
<1> HIDE DEF soas, nss
<1>2. /\ Picked(nss) /\ \A i \in ToSet(nss) : TypeOf(i) = "NS" /\ InTime(db[i])
      /\ Yields(control, "SOA") => /\ Picked(SubSeq(soas, 1, 1))
                                   /\ \A i \in ToSet(SubSeq(soas, 1, 1)) : InTime(db[i])
  BY <1>1, OfTypeFacts DEF soas, nss
<1>3. Listed(an) /\ Once(an)
  <2>1. Listed(an) /\ an \in Seq(ToSet(an))
    BY <1>1 DEF Said, SoundSection, Listed
  <2>2. an \o <<>> = an
    BY <2>1
  <2>3. an \o au \o ar = an
    BY <1>1, <2>2
  <2> QED
    BY <1>1, <2>1, <2>3 DEF Said, NoTwice
<1>4. Fresh(g) /\ \A x \in ToSet(an), y \in ToSet(g) : ~Same(x, y) /\ ~Same(y, x)
  <2>1. CASE authoritative /\ an = <<>>
    <3>1. Yields(control, "SOA")
      BY <1>1, <2>1 DEF Ours
    <3>2. Picked(given) /\ \A i \in ToSet(given) : InTime(db[i])
      BY <1>2, <2>1, <3>1
    <3> HIDE DEF given
    <3>3. Fresh(g)
      BY <3>2, FreshGiven
    <3> HIDE DEF g
    <3> QED
      BY <2>1, <3>3, EmptyFacts
  <2>2. CASE ~(authoritative /\ an = <<>>) /\ Want(control, "NS")
    <3>1. given = nss
      BY <2>2
    <3> HIDE DEF given
    <3>2. /\ Fresh(g)
          /\ \A rr \in ToSet(g) : rr.owner = control /\ rr.of \in ToSet(nss)
      BY <1>2, <3>1, FreshGiven
    <3> HIDE DEF g
    <3>3. ToSet(an \o au \o ar) = ToSet(an)
      <4>1. an \o <<>> = an
        BY <1>3 DEF Listed
      <4> QED
        BY <1>1, <4>1
    <3>4. \A x \in ToSet(an) : ~(x.owner = control /\ TypeOf(x.of) = "NS")
      BY <2>2, <3>3 DEF Want
    <3> QED
      BY <1>2, <3>2, <3>4 DEF Same
  <2>3. CASE ~(authoritative /\ an = <<>>) /\ ~Want(control, "NS")
    <3>1. given = <<>>
      BY <2>3
    <3> DEFINE rr(i) == RR(control, given[i], Ttl(db[given[i]]))
    <3>2. g = <<>>
      <4>1. g = [i \in 1 .. Len(given) |-> rr(i)]
        BY DEF GiveAll
      <4> HIDE DEF given, g, rr
      <4>2. Len(given) = 0
        BY <3>1
      <4> QED
        BY <4>1, <4>2
    <3> HIDE DEF g
    <3> QED
      BY <3>2, EmptyFacts
  <2> QED
    BY <2>1, <2>2, <2>3
<1> HIDE DEF given, g
<1>5. ar = ar \o <<>> /\ Once(an \o g \o ar)
  <2>1. Once(an \o g) /\ Listed(an \o g)
    BY <1>3, <1>4, OnceJoined, Joined DEF Fresh
  <2>2. (an \o g) \o <<>> = an \o g /\ <<>> \o <<>> = <<>>
    BY <2>1 DEF Listed
  <2> QED
    BY <1>1, <2>1, <2>2
<1>6. /\ Said' /\ Busy'
      /\ pc' \in {"additional", "idle"}
  BY <1>1, <1>4, <1>5, EmptyFacts, PutStep
<1>7. InTurn' /\ Ours'
  BY <1>6 DEF InTurn, Ours
<1> QED
  BY <1>6, <1>7 DEF LookupIInv, Said

LEMMA AdditionalStep ==
    ASSUME LookupIInv, Additional
    PROVE  LookupIInv'
<1> DEFINE i == (an \o au)[bpos + 1].of
           n == db[i].data
           more == IF TypeOf(i) \in {"NS", "MX"} /\ Want(n, "A")
                   THEN GiveAll(n, OfType(Found(n, FALSE), "A")) ELSE <<>>
<1>1. /\ pc = "additional" /\ UNCHANGED <<db, query>> /\ Put(an, au, ar \o more, "additional")
      /\ Said /\ Busy /\ Timed
  BY DEF Additional, LookupIInv, Said
<1> HIDE DEF i, n
<1> DEFINE all == an \o au \o ar
<1>2. /\ Listed(an) /\ Listed(au) /\ Listed(ar) /\ Listed(an \o au) /\ Listed(all) /\ Once(all)
  <2>1. Listed(an) /\ Listed(au) /\ Listed(ar)
    BY <1>1 DEF Said, SoundSection, Listed
  <2> QED
    BY <1>1, <2>1, Joined DEF Said, NoTwice
<1>3. Fresh(more) /\ \A x \in ToSet(all), y \in ToSet(more) : ~Same(x, y) /\ ~Same(y, x)
  <2>1. CASE TypeOf(i) \in {"NS", "MX"} /\ Want(n, "A")
    <3> DEFINE records == OfType(Found(n, FALSE), "A")
    <3>1. Picked(records) /\ \A k \in ToSet(records) : TypeOf(k) = "A" /\ InTime(db[k])
      BY <1>1, OfTypeFacts
    <3>2. more = GiveAll(n, records)
      BY <2>1
    <3> HIDE DEF records, more
    <3>3. Fresh(more) /\ \A rr \in ToSet(more) : rr.owner = n /\ rr.of \in ToSet(records)
      BY <3>1, <3>2, FreshGiven
    <3>4. \A x \in ToSet(all) : ~(x.owner = n /\ TypeOf(x.of) = "A")
      BY <2>1 DEF Want
    <3> HIDE DEF all
    <3> QED
      BY <3>1, <3>3, <3>4 DEF Same
  <2>2. CASE ~(TypeOf(i) \in {"NS", "MX"} /\ Want(n, "A"))
    <3>1. more = <<>>
      BY <2>2
    <3> HIDE DEF more
    <3> QED
      BY <3>1, EmptyFacts
  <2> QED
    BY <2>1, <2>2
<1> HIDE DEF more
<1>4. Once(an \o au \o (ar \o more))
  <2>1. Once(all \o more)
    BY <1>2, <1>3, OnceJoined DEF Fresh
  <2>2. (an \o au \o ar) \o more = an \o au \o (ar \o more)
    <3> DEFINE A == ToSet(an) \cup ToSet(au) \cup ToSet(ar) \cup ToSet(more)
    <3>1. an \in Seq(A) /\ au \in Seq(A) /\ ar \in Seq(A) /\ more \in Seq(A)
      BY <1>2, <1>3, SeqMonotonic DEF Listed, Fresh
    <3> HIDE DEF A
    <3>2. an \o au \in Seq(A)
      BY <3>1
    <3> QED
      BY <3>1, <3>2, ConcatAssociative, SMTT(30)
  <2> QED
    BY <2>1, <2>2
<1>5. /\ Said' /\ Busy'
      /\ pc' \in {"additional", "idle"}
  BY <1>1, <1>3, <1>4, PutStep
<1>6. InTurn' /\ Ours'
  BY <1>5 DEF InTurn, Ours
<1> QED
  BY <1>5, <1>6 DEF LookupIInv, Said

LEMMA QuietSteps ==
    ASSUME LookupIInv,
           Refused \/ Respond \/ Climb \/ Outside \/ ZoneFound \/ WildUp \/ NxDomain \/ Send
    PROVE  LookupIInv'
<1>1. Said /\ Busy /\ InTurn /\ Ours
  BY DEF LookupIInv, Said
<1>2. /\ pc # "idle" /\ UNCHANGED <<db, query, an, au, ar>>
      /\ pc' = "idle" \/ UNCHANGED reply
  BY DEF Refused, Respond, Climb, Outside, ZoneFound, WildUp, NxDomain, Send, Reply, message
<1>3. Said' /\ Busy'
  <2>1. reply # Silence
    BY <1>1, <1>2, LookupConstants DEF Busy
  <2> QED
    BY <1>1, <1>2, <2>1, QuietStep DEF Busy
<1>4. CASE pc' = "idle"
  BY <1>3, <1>4 DEF LookupIInv, Said, InTurn, Ours
<1>5. CASE pc' # "idle"
  <2>1. CASE Respond \/ Climb
    BY <1>1, <1>2, <1>3, <2>1 DEF LookupIInv, Said, InTurn, Ours, Respond, Climb
  <2>2. CASE ZoneFound
    <3>1. /\ pc = "climb" /\ authoritative' = Yields(control, "SOA")
          /\ UNCHANGED <<db, query, clientloc, control>>
      BY <2>2 DEF ZoneFound
    <3>2. Yields(control, "SOA")' = Yields(control, "SOA")
      BY <3>1, YieldsStay
    <3>3. Ours'
      BY <3>1, <3>2 DEF Ours
    <3>4. InTurn'
      BY <1>1, <1>2, <3>1 DEF InTurn
    <3> QED
      BY <1>3, <3>3, <3>4 DEF LookupIInv, Said
  <2>3. CASE WildUp \/ NxDomain
    <3>1. /\ pc = "answer"
          /\ UNCHANGED <<db, query, clientloc, control, authoritative>>
      BY <2>3 DEF WildUp, NxDomain, search
    <3>2. Yields(control, "SOA")' = Yields(control, "SOA")
      BY <3>1, YieldsStay
    <3>3. Ours'
      BY <1>1, <3>1, <3>2 DEF Ours
    <3>4. InTurn'
      BY <1>1, <1>2, <3>1, <2>3 DEF InTurn, WildUp, NxDomain
    <3> QED
      BY <1>3, <3>3, <3>4 DEF LookupIInv, Said
  <2>4. CASE Refused \/ Outside \/ Send
    BY <1>5, <2>4 DEF Refused, Outside, Send, Reply
  <2> QED
    BY <2>1, <2>2, <2>3, <2>4
<1> QED
  BY <1>4, <1>5

\* No query asks anything else between two answers.
LEMMA IgnoreStep ==
    ASSUME LookupIInv, NEW q \in Query, Ignore(q)
    PROVE  LookupIInv'
<1>1. /\ pc = "idle" /\ query' = q /\ reply' = Silence
      /\ UNCHANGED <<db, pc, an, au, ar>>
  BY DEF Ignore, message
<1>2. \A rr : Sound(rr) => Sound(rr)'
  BY <1>1 DEF Sound
<1>3. SoundSection(an)' /\ SoundSection(au)' /\ SoundSection(ar)' /\ NoTwice'
  BY <1>1, <1>2 DEF LookupIInv, SoundSection, NoTwice
<1>4. Timed'
  BY <1>1, LookupConstants DEF LookupIInv, Timed
<1>5. Busy' /\ InTurn' /\ Ours'
  BY <1>1 DEF Busy, InTurn, Ours
<1> QED
  BY <1>3, <1>4, <1>5 DEF LookupIInv

LEMMA LookupStart == Init => LookupIInv
<1> SUFFICES ASSUME Init PROVE LookupIInv
  OBVIOUS
<1>1. Timed
  <2>1. PICK lines \in Data : db = RecordsOf(lines)
    BY DEF Init
  <2>2. db \in Seq(ToSet(db)) /\ \A r \in ToSet(db) : r.ttl \in Nat /\ r.ttd \in Nat
    <3>1. TimedRecords(db)
      BY <2>1, RecordsFacts
    <3>2. Listed(db)
      BY <3>1 DEF TimedRecords
    <3>3. \A r \in ToSet(db) : r.ttl \in Nat /\ r.ttd \in Nat
      BY <3>1, Zenon DEF TimedRecords
    <3> QED
      BY <3>2, <3>3 DEF Listed
  <2>3. /\ Len(db) \in Nat /\ DOMAIN db = 1 .. Len(db)
        /\ \A i \in 1 .. Len(db) : db[i] \in ToSet(db)
    BY <2>2, ListedFacts
  <2>4. query.time \in Nat
    BY LookupConstants DEF Init
  <2> QED
    BY <2>2, <2>3, <2>4 DEF Timed
<1>2. SoundSection(an) /\ SoundSection(au) /\ SoundSection(ar)
  BY EmptyFacts DEF Init, SoundSection, Listed
<1>3. NoTwice
  <2>1. an \o au \o ar = <<>>
    BY DEF Init
  <2> QED
    BY <2>1, EmptyFacts DEF NoTwice
<1> QED
  BY <1>1, <1>2, <1>3 DEF Init, LookupIInv, Busy, InTurn, Ours

\* What LookupIInv says holds whatever is asked: each action of doit, respond
\* and main keeps it.
THEOREM LookupInvariance == Spec => []LookupIInv
<1>1. LookupIInv /\ [Next]_vars => LookupIInv'
  <2> SUFFICES ASSUME LookupIInv, [Next]_vars PROVE LookupIInv'
    OBVIOUS
  <2>1. CASE SomethingThere
    BY <2>1, AnswerStep
  <2>2. CASE Authority
    BY <2>2, AuthorityStep
  <2>3. CASE Additional
    BY <2>3, AdditionalStep
  <2>4. CASE Refused \/ Respond \/ Climb \/ Outside \/ ZoneFound \/ WildUp \/ NxDomain \/ Send
    BY <2>4, QuietSteps
  <2>5. ASSUME NEW q \in Query, Ask(q) PROVE LookupIInv'
    BY <2>5, BeginStep DEF Ask
  <2>6. ASSUME NEW q \in Query, Refuse(q) PROVE LookupIInv'
    BY <2>6, BeginStep DEF Refuse
  <2>7. ASSUME NEW q \in Query, Ignore(q) PROVE LookupIInv'
    BY <2>7, IgnoreStep
  <2>8. CASE UNCHANGED vars
    <3>1. UNCHANGED <<db, query, pc, clientloc, control, authoritative, an, au, ar, reply>>
      BY <2>8 DEF vars, search, message
    <3>2. Said'
      BY <3>1, QuietStep DEF LookupIInv, Said
    <3>3. Yields(control, "SOA")' = Yields(control, "SOA")
      BY <3>1, YieldsStay
    <3> QED
      BY <3>1, <3>2, <3>3 DEF LookupIInv, Said, Busy, InTurn, Ours
  <2> QED
    BY <2>1, <2>2, <2>3, <2>4, <2>5, <2>6, <2>7, <2>8 DEF Next, LookUp
<1> QED
  BY <1>1, LookupStart, PTL DEF Spec

\* A record is in a message once, though the answer, the name servers and the
\* addresses of the servers are found by searches of their own.
THEOREM SaidOnce == Spec => []NoTwice
<1>1. LookupIInv => NoTwice
  BY DEF LookupIInv
<1> QED
  BY <1>1, LookupInvariance, PTL

\* At the moment a record ends, find yields the one that takes its place and not
\* both, and no cache is told to keep it more than two seconds longer.
THEOREM NothingOutlivesItsEnd == Spec => []MomentsMeet
<1>1. LookupIInv => HandOver
  <2> SUFFICES ASSUME LookupIInv, NEW i \in 1 .. Len(db), NEW j \in 1 .. Len(db),
                      db[i].ttd # 0, db[i].ttd = db[j].ttd, db[i].ttl = 0, db[j].ttl # 0
               PROVE  InTime(db[i]) # InTime(db[j])
    BY DEF HandOver
  <2>1. InTime(db[i]) <=> ~(db[i].ttd < query.time)
    BY DEF InTime
  <2>2. InTime(db[j]) <=> db[j].ttd < query.time
    BY DEF InTime
  <2>3. InTime(db[i]) \in BOOLEAN /\ InTime(db[j]) \in BOOLEAN
    BY DEF InTime
  <2> QED
    BY <2>1, <2>2, <2>3
<1>2. LookupIInv => NotCachedPastItsEnd
  <2> SUFFICES ASSUME LookupIInv, reply # Silence, NEW rr \in ToSet(an \o au \o ar),
                      db[rr.of].ttd # 0, db[rr.of].ttl = 0,
                      db[rr.of].type = "A" => rr.ttl = Ttl(db[rr.of])
               PROVE  query.time + rr.ttl <= db[rr.of].ttd + 2
    BY DEF NotCachedPastItsEnd
  <2>1. /\ Listed(an) /\ Listed(au) /\ Listed(ar) /\ Timed
        /\ \A x \in ToSet(an) \cup ToSet(au) \cup ToSet(ar) : Sound(x)
    BY DEF LookupIInv, SoundSection, Listed
  <2>2. ToSet(an \o au \o ar) = ToSet(an) \cup ToSet(au) \cup ToSet(ar)
    BY <2>1, Joined
  <2> DEFINE r == db[rr.of]
  <2>3. InTime(r) /\ rr.ttl = Ttl(r) /\ rr.of \in DOMAIN db
    BY <2>1, <2>2 DEF Sound, TypeOf
  <2>4. r.ttd \in Nat /\ r.ttd # 0 /\ r.ttl = 0 /\ query.time \in Nat
    BY <2>1, <2>3 DEF Timed
  <2> HIDE DEF r
  <2>5. query.time <= r.ttd
    BY <2>3, <2>4 DEF InTime
  <2>6. rr.ttl = IF r.ttd - query.time <= 2 THEN 2
                 ELSE IF r.ttd - query.time >= 3600 THEN 3600 ELSE r.ttd - query.time
    BY <2>3, <2>4 DEF Ttl
  <2>7. query.time + rr.ttl <= r.ttd + 2
    BY <2>4, <2>5, <2>6
  <2> QED
    BY <2>7 DEF r
<1>3. LookupIInv => MomentsMeet
  BY <1>1, <1>2 DEF MomentsMeet
<1> QED
  BY <1>3, LookupInvariance, PTL
-----------------------------------------------------------------------------
(* The types of the search                                                   *)

\* What find and doit shorten a name to: its ends, each the tail of the next.
LEMMA SuffixFacts ==
    ASSUME NEW A, NEW s \in Seq(A)
    PROVE  /\ s \in Suffixes(s)
           /\ \A t \in Suffixes(s) :
                /\ t \in Seq(A) /\ Len(t) \in Nat /\ Len(s) >= Len(t)
                /\ t # <<>> => Tail(t) \in Suffixes(s) /\ Len(Tail(t)) = Len(t) - 1
           /\ \A t, u \in Suffixes(s) : Len(t) = Len(u) => t = u
<1> DEFINE n == Len(s)
           End(l) == SubSeq(s, l, n)
<1>1. n \in Nat /\ \A i \in 1 .. n : s[i] \in A
  OBVIOUS
<1>2. End(n + 1) = <<>>
  BY <1>1, SubSeqEmpty
<1>3. Suffixes(s) = {End(l) : l \in 1 .. n} \cup {<<>>}
  BY DEF Suffixes
<1>4. End(1) = s
  BY SubSeqFull
<1>5. ASSUME NEW l \in 1 .. n + 1
      PROVE  End(l) \in Seq(A) /\ Len(End(l)) = n - l + 1
  <2>1. l \in Int /\ n \in Int /\ \A i \in l .. n : s[i] \in A
    BY <1>1
  <2> HIDE DEF n
  <2>2. /\ SubSeq(s, l, n) \in Seq(A)
        /\ Len(SubSeq(s, l, n)) = IF l <= n THEN n - l + 1 ELSE 0
    BY <2>1, SubSeqProperties
  <2> QED
    BY <1>1, <2>2
<1>6. \A l \in 1 .. n : Tail(End(l)) = End(l + 1)
  <2> TAKE l \in 1 .. n
  <2>1. n \in l .. n
    BY <1>1
  <2> QED
    BY <2>1, HeadTailOfSubSeq
<1> HIDE DEF n, End
<1>7. \A l \in 1 .. n + 1 : End(l) \in Suffixes(s)
  BY <1>1, <1>2, <1>3
<1>8. \A t \in Suffixes(s) : \E l \in 1 .. n + 1 : t = End(l)
  <2>1. n + 1 \in 1 .. n + 1 /\ \A l \in 1 .. n : l \in 1 .. n + 1
    BY <1>1
  <2> QED
    BY <1>2, <1>3, <2>1
<1>9. s \in Suffixes(s)
  BY <1>1, <1>4, <1>7
<1>10. ASSUME NEW t \in Suffixes(s)
       PROVE  /\ t \in Seq(A) /\ Len(t) \in Nat /\ Len(s) >= Len(t)
              /\ t # <<>> => Tail(t) \in Suffixes(s) /\ Len(Tail(t)) = Len(t) - 1
  <2>1. PICK l \in 1 .. n + 1 : t = End(l)
    BY <1>8
  <2>2. t \in Seq(A) /\ Len(t) = n - l + 1
    BY <1>5, <2>1
  <2>3. ASSUME t # <<>> PROVE Tail(t) \in Suffixes(s) /\ Len(Tail(t)) = Len(t) - 1
    <3>1. l \in 1 .. n /\ l + 1 \in 1 .. n + 1
      BY <1>1, <1>2, <2>1, <2>3
    <3>2. Tail(t) = End(l + 1)
      BY <1>6, <2>1, <3>1
    <3>3. Len(End(l + 1)) = n - (l + 1) + 1
      BY <1>5, <3>1
    <3>4. n - (l + 1) + 1 = (n - l + 1) - 1
      BY <1>1
    <3>5. Len(Tail(t)) = Len(t) - 1
      BY <2>2, <3>2, <3>3, <3>4
    <3>6. End(l + 1) \in Suffixes(s)
      BY <1>7, <3>1
    <3> QED
      BY <3>2, <3>5, <3>6
  <2>4. Len(s) >= Len(t) /\ Len(t) \in Nat
    BY <1>1, <2>2 DEF n
  <2> QED
    BY <2>2, <2>3, <2>4
<1>11. ASSUME NEW t \in Suffixes(s), NEW u \in Suffixes(s), Len(t) = Len(u)
       PROVE  t = u
  <2>1. PICK l \in 1 .. n + 1 : t = End(l)
    BY <1>8
  <2>2. PICK k \in 1 .. n + 1 : u = End(k)
    BY <1>8
  <2>3. n - l + 1 = n - k + 1
    BY <1>5, <1>11, <2>1, <2>2
  <2>4. l = k
    BY <1>1, <2>3
  <2> QED
    BY <2>1, <2>2, <2>4
<1> QED
  BY <1>9, <1>10, <1>11

\* The map of a LOQ record is that of a line.
OfLine(lines, s) ==
    Listed(s) /\ \A r \in ToSet(s) : \E l \in ToSet(lines) : r.map = l.map

LEMMA LoqFacts ==
    ASSUME NEW type, NEW n, NEW l
    PROVE  Listed(Loq(type, n, l)) /\ \A r \in ToSet(Loq(type, n, l)) : r.map = l.map
<1> DEFINE r == [type |-> type, name |-> n, map |-> l.map]
<1>1. Loq(type, n, l) = <<r>> \/ Loq(type, n, l) = <<>>
  BY DEF Loq
<1>2. r.map = l.map
  OBVIOUS
<1> HIDE DEF r
<1>3. <<r>> \in Seq({r}) /\ ToSet(<<r>>) = {r} /\ Listed(<<r>>)
  BY DEF ToSet, Listed
<1> QED
  BY <1>1, <1>2, <1>3, EmptyFacts

\* What a line is compiled to names the map of the line, if any.
LEMMA CompiledLoqs ==
    ASSUME NEW l, l.kind \in Kinds
    PROVE  Listed(Compiled(l).loqs) /\ \A r \in ToSet(Compiled(l).loqs) : r.map = l.map
<1> DEFINE Of(s) == Listed(s) /\ \A r \in ToSet(s) : r.map = l.map
<1>1. Of(<<>>) /\ \A type, n : Of(Loq(type, n, l))
  BY EmptyFacts, LoqFacts
<1>2. \A s, t : Of(s) /\ Of(t) => Of(s \o t)
  BY Joined
<1> HIDE DEF Of
<1>3. \A x, y : With(x, y).loqs = x.loqs \o y.loqs
  BY DEF With
<1>4. \A n : Of(GlueOf(n, l).loqs)
  BY <1>1 DEF GlueOf
<1>5. \A ttl, n : Of(Soa(ttl, n, l).loqs)
  BY <1>1 DEF Soa
<1>6. Of(NameServer(l).loqs)
  <2> DEFINE ns == Target(l, "ns")
             a == [rrs |-> <<Record(l.name, "NS", l.ttl, ns, l)>>, loqs |-> Loq("NS", ns, l)]
  <2>1. NameServer(l) = With(a, GlueOf(ns, l))
    BY Zenon DEF NameServer
  <2>2. a.loqs = Loq("NS", ns, l)
    OBVIOUS
  <2> HIDE DEF a, ns
  <2> QED
    BY <1>1, <1>2, <1>3, <1>4, <2>1, <2>2
<1>7. Of(Mail(l).loqs)
  <2> DEFINE mx == Target(l, "mx")
             a == [rrs |-> <<Record(l.name, "MX", l.ttl, mx, l)>>,
                   loqs |-> Loq("MX", l.name, l)]
  <2>1. Mail(l) = With(a, GlueOf(mx, l))
    BY Zenon DEF Mail
  <2>2. a.loqs = Loq("MX", l.name, l)
    OBVIOUS
  <2> HIDE DEF a, mx
  <2> QED
    BY <1>1, <1>2, <1>3, <1>4, <2>1, <2>2
<1>8. Of(Host(l).loqs)
  BY <1>1, <1>2, <1>3, <1>4 DEF Host
<1>9. /\ Of(Alias(l).loqs) /\ Of(Pointer(l).loqs) /\ Of(Text(l).loqs)
      /\ Of(Generic(l).loqs)
  BY <1>1, <1>2 DEF Alias, Pointer, Text, Generic
<1>10. Of(Compiled(l).loqs)
  <2>1. CASE l.kind = "Z"
    BY <1>5, <2>1 DEF Compiled
  <2>2. CASE l.kind = "."
    BY <1>2, <1>3, <1>5, <1>6, <2>2 DEF Compiled
  <2>3. CASE l.kind = "&"
    BY <1>6, <2>3 DEF Compiled
  <2>4. CASE l.kind \in {"+", "="}
    BY <1>8, <2>4 DEF Compiled
  <2>5. CASE l.kind = "@"
    BY <1>7, <2>5 DEF Compiled
  <2>6. CASE l.kind \in {"C", "^", "'", ":"}
    BY <1>9, <2>6 DEF Compiled
  <2> QED
    BY <2>1, <2>2, <2>3, <2>4, <2>5, <2>6 DEF Kinds
<1> QED
  BY <1>10 DEF Of

LEMMA LoqsFacts ==
    ASSUME NEW lines \in Data
    PROVE  OfLine(lines, LoqsOf(lines))
<1> DEFINE n == Len(lines)
           seqs == [i \in 1 .. n |-> Compiled(lines[i]).loqs]
           A == UNION {ToSet(seqs[i]) : i \in 1 .. n}
<1>1. n \in Nat /\ \A i \in 1 .. n : lines[i] \in ToSet(lines)
  <2>1. lines \in Seq(ToSet(lines))
    BY LookupConstants
  <2> QED
    BY <2>1, ListedFacts
<1>2. \A i \in 1 .. n :
        Listed(seqs[i]) /\ \A r \in ToSet(seqs[i]) : r.map = lines[i].map
  <2>1. \A i \in 1 .. n : lines[i].kind \in Kinds
    BY <1>1, LookupConstants
  <2> QED
    BY <2>1, CompiledLoqs
<1>3. seqs = [i \in 1 .. n |-> seqs[i]]
  OBVIOUS
<1>4. FlattenSeq(seqs) = LoqsOf(lines)
  BY DEF LoqsOf
<1> HIDE DEF n, seqs
<1>5. \A i \in 1 .. n : seqs[i] \in Seq(A)
  <2> TAKE i \in 1 .. n
  <2>1. seqs[i] \in Seq(ToSet(seqs[i])) /\ ToSet(seqs[i]) \subseteq A
    BY <1>2 DEF Listed
  <2> QED
    BY <2>1, SeqMonotonic
<1>6. \A r \in A : \E l \in ToSet(lines) : r.map = l.map
  BY <1>1, <1>2
<1> HIDE DEF A
<1>7. seqs \in Seq(Seq(A))
  BY <1>1, <1>3, <1>5
<1>8. LoqsOf(lines) \in Seq(A)
  BY <1>4, <1>7, Flattened
<1> QED
  BY <1>6, <1>8, ListedFacts DEF OfLine

Typed(s) == \A rr \in ToSet(s) : rr \in RRs

LEMMA SectionsJoined ==
    ASSUME NEW s, NEW t, NEW u, Listed(s), Listed(t), Listed(u)
    PROVE  /\ ToSet(s \o t \o u) = ToSet(s) \cup ToSet(t) \cup ToSet(u)
           /\ Len(s \o t) \in Nat
           /\ Typed(s \o t \o u) <=> Typed(s) /\ Typed(t) /\ Typed(u)
<1>1. Listed(s \o t) /\ ToSet(s \o t) = ToSet(s) \cup ToSet(t)
  BY Joined
<1>2. ToSet(s \o t \o u) = ToSet(s) \cup ToSet(t) \cup ToSet(u)
  BY <1>1, Joined
<1>3. Len(s \o t) \in Nat
  BY <1>1 DEF Listed
<1> QED
  BY <1>2, <1>3 DEF Typed

LEMMA TtlFacts ==
    ASSUME Timed, NEW i \in DOMAIN db
    PROVE  Ttl(db[i]) \in Nat
<1> DEFINE r == db[i]
           left == r.ttd - query.time
<1>1. r.ttl \in Nat /\ r.ttd \in Nat /\ query.time \in Nat
  BY DEF Timed
<1> HIDE DEF r
<1>2. left \in Int
  BY <1>1
<1>3. Ttl(r) = IF r.ttd = 0 \/ r.ttl # 0 THEN r.ttl
               ELSE IF left <= 2 THEN 2 ELSE IF left >= 3600 THEN 3600 ELSE left
  BY DEF Ttl
<1> HIDE DEF left
<1>4. Ttl(r) \in Nat
  BY <1>1, <1>2, <1>3
<1> QED
  BY <1>4 DEF r

LEMMA RecordTyped ==
    ASSUME Timed, NEW o \in Seq(Label), NEW i \in DOMAIN db, NEW ttl \in Nat
    PROVE  RR(o, i, ttl) \in RRs
BY DEF Timed, RR, RRs

LEMMA GivenTyped ==
    ASSUME Timed, NEW o \in Seq(Label), NEW records, Picked(records)
    PROVE  Typed(GiveAll(o, records))
<1> DEFINE g == GiveAll(o, records)
           n == Len(records)
<1>1. n \in Nat /\ \A i \in 1 .. n : records[i] \in DOMAIN db
  BY ListedFacts DEF Picked
<1>2. \A i \in 1 .. n : RR(o, records[i], Ttl(db[records[i]])) \in RRs
  BY <1>1, TtlFacts, RecordTyped
<1>3. g = [i \in 1 .. n |-> RR(o, records[i], Ttl(db[records[i]]))]
  BY DEF GiveAll
<1> HIDE DEF g, n
<1>4. Typed(g)
  BY <1>2, <1>3 DEF Typed, ToSet
<1> QED
  BY <1>4 DEF g

LEMMA AnswerTyped ==
    ASSUME Timed, query.name \in Seq(Label), NEW records, Picked(records),
           NEW a \in Answer(records)
    PROVE  Typed(a)
<1> DEFINE found == OfType(records, "A")
           T == {i \in ToSet(records) : TypeOf(i) # "A"}
           others == Kept(records, T)
           front == GiveAll(query.name, others)
           last == Ttl(db[found[Len(found)]])
           Back(s) == [i \in 1 .. Len(s) |-> RR(query.name, s[i], last)]
<1>1. PICK s \in Drawn(found) : a = front \o Back(s)
  BY DEF Answer
<1>2. Picked(found) /\ Picked(others)
  BY PickedFacts DEF OfType
<1> HIDE DEF found, others
<1>3. s \in Seq(ToSet(found))
  <2>1. Listed(found) /\ IsInjective(found)
    BY <1>2, ListedFacts DEF Picked
  <2> QED
    BY <1>1, <2>1, DrawnFacts
<1>4. Listed(front) /\ Typed(front)
  BY <1>2, Giving, GivenTyped
<1>5. /\ Len(found) \in Nat /\ DOMAIN found = 1 .. Len(found)
      /\ \A i \in 1 .. Len(found) : found[i] \in DOMAIN db
      /\ \A x \in ToSet(found) : x \in DOMAIN db /\ \E i \in 1 .. Len(found) : x = found[i]
  BY <1>2, ListedFacts DEF Picked
<1>6. /\ Len(s) \in Nat /\ DOMAIN s = 1 .. Len(s)
      /\ \A i \in 1 .. Len(s) : s[i] \in ToSet(found)
  BY <1>3, ListedFacts
<1> DEFINE back == Back(s)
<1>7. \A i \in 1 .. Len(s) : RR(query.name, s[i], last) \in RRs
  <2> SUFFICES ASSUME NEW i \in 1 .. Len(s) PROVE RR(query.name, s[i], last) \in RRs
    OBVIOUS
  <2>1. s[i] \in DOMAIN db /\ Len(found) \in 1 .. Len(found)
    BY <1>5, <1>6
  <2>2. last \in Nat
    BY <1>5, <2>1, TtlFacts
  <2> HIDE DEF last
  <2> QED
    BY <2>1, <2>2, RecordTyped
<1> HIDE DEF last
<1>8. Listed(back) /\ Typed(back)
  <2>1. DOMAIN back = 1 .. Len(s) /\ back \in Seq({back[i] : i \in 1 .. Len(s)})
    BY <1>6
  <2>2. \A i \in 1 .. Len(s) : back[i] \in RRs
    BY <1>7
  <2> HIDE DEF back
  <2>3. \A rr \in ToSet(back) : \E i \in 1 .. Len(s) : rr = back[i]
    BY <2>1 DEF ToSet
  <2> QED
    BY <2>1, <2>2, <2>3, ListedFacts DEF Typed
<1> HIDE DEF front, back
<1>9. a = front \o back
  BY <1>1 DEF back
<1>10. ToSet(a) = ToSet(front) \cup ToSet(back)
  BY <1>4, <1>8, <1>9, Joined
<1> QED
  BY <1>4, <1>8, <1>10 DEF Typed

\* What is known of the sections, and what becomes of them.
LEMMA SectionFacts ==
    ASSUME LookupIInv
    PROVE  /\ Timed /\ Listed(an) /\ Listed(au) /\ Listed(ar) /\ Len(an \o au) \in Nat
           /\ \A rr \in ToSet(an) \cup ToSet(au) \cup ToSet(ar) : rr.of \in DOMAIN db
           /\ \A rr \in ToSet(an \o au) : rr.of \in DOMAIN db
           /\ Typed(an \o au \o ar) <=> Typed(an) /\ Typed(au) /\ Typed(ar)
<1>1. /\ Timed /\ Listed(an) /\ Listed(au) /\ Listed(ar)
      /\ \A rr \in ToSet(an) \cup ToSet(au) \cup ToSet(ar) : rr.of \in DOMAIN db
  BY DEF LookupIInv, SoundSection, Listed, Sound
<1>2. ToSet(an \o au) = ToSet(an) \cup ToSet(au)
  BY <1>1, Joined
<1> QED
  BY <1>1, <1>2, SectionsJoined

LEMMA PutTyped ==
    ASSUME LookupIInv, TypeOK, db' = db,
           NEW a, NEW u, NEW more, NEW next, Put(a, u, ar \o more, next),
           Listed(a), Listed(u), Listed(more), Typed(a), Typed(u), Typed(more)
    PROVE  /\ \A rr \in ToSet(an \o au \o ar)' : rr \in RRs'
           /\ \/ pc' = next /\ an' = a /\ au' = u
              \/ pc' = "idle" /\ UNCHANGED <<an, au, ar>>
<1>1. RRs' = RRs
  BY DEF RRs
<1>2. Typed(an \o au \o ar)
  BY DEF TypeOK, Typed
<1>3. CASE an' = a /\ au' = u /\ ar' = ar \o more /\ pc' = next
  <2>1. Listed(ar) /\ Typed(ar)
    BY <1>2, SectionFacts
  <2>2. Listed(ar \o more) /\ Typed(ar \o more)
    BY <2>1, Joined DEF Typed
  <2>3. Typed(a \o u \o (ar \o more))
    BY <2>2, SectionsJoined
  <2> QED
    BY <1>1, <1>3, <2>3 DEF Typed
<1>4. CASE pc' = "idle" /\ UNCHANGED <<an, au, ar>>
  BY <1>1, <1>2, <1>4 DEF Typed
<1> QED
  BY <1>3, <1>4 DEF Put, Reply

\* Nothing is known of the asker's place but that it is one, or NoMatch.
LEMMA PlaceTyped ==
    ASSUME TypeOK, Named, Respond
    PROVE  clientloc' # Anywhere
<1> DEFINE I == {i \in 1 .. Len(loq) : loq[i].type = query.type /\ loq[i].name = query.name}
           first == SelectInSeq(loq, LAMBDA l : l.type = query.type /\ l.name = query.name)
<1>1. clientloc' = IF first = 0 THEN NoMatch ELSE Geo[query.client][loq[first].map]
  BY DEF Respond
<1>2. first = IF I # {} THEN Min(I) ELSE 0
  BY DEF SelectInSeq
<1>3. /\ Len(loq) \in Nat /\ query \in Query
      /\ \A i \in 1 .. Len(loq), q \in Query : Geo[q.client][loq[i].map] # Anywhere
  BY DEF Named, TypeOK
<1>4. NoMatch # Anywhere
  BY LookupConstants
<1> HIDE DEF first
<1>5. ASSUME I # {} PROVE Min(I) \in 1 .. Len(loq)
  <2>1. I \in SUBSET Nat /\ I \in SUBSET (1 .. Len(loq))
    BY <1>3
  <2> HIDE DEF I
  <2>2. IsFiniteSet(I)
    <3>1. IsFiniteSet(1 .. Len(loq))
      BY <1>3, FS_Interval
    <3> QED
      BY <2>1, <3>1, FS_Subset
  <2>3. \E i \in I : \A k \in I : i <= k
    BY <1>5, <2>1, <2>2, Least
  <2>4. Min(I) \in I
    BY <2>3 DEF Min
  <2> QED
    BY <2>1, <2>4
<1> HIDE DEF I
<1> QED
  BY <1>1, <1>2, <1>3, <1>4, <1>5

LEMMA NamesOfQueries == \A q \in Query : q.name \in Seq(Label)
BY LookupConstants

\* Where the search stands
Place ==
    /\ pc \in {"climb", "answer", "authority", "additional"} =>
        control \in Suffixes(query.name)
    /\ pc = "answer" => wild \in Suffixes(query.name) /\ Len(wild) >= Len(control)
    /\ pc = "additional" => bpos \in 0 .. Len(an \o au)

\* Types that no search changes
Plain ==
    /\ query \in Query
    /\ pc \in {"idle", "refused", "respond", "climb", "answer", "authority", "additional"}
    /\ clientloc # Anywhere
    /\ authoritative \in BOOLEAN
    /\ aa \in BOOLEAN
    /\ rcode \in {0, 1, 3, 4}

LEMMA TypeParts ==
    /\ TypeOK <=> Place /\ Plain /\ \A rr \in ToSet(an \o au \o ar) : rr \in RRs
    /\ TypeOK' <=> Place' /\ Plain' /\ \A rr \in ToSet(an \o au \o ar)' : rr \in RRs'
BY DEF TypeOK, Place, Plain

\* The steps that add no record
LEMMA QuietTyped ==
    ASSUME LookupIInv, TypeOK, Named,
           Refused \/ Respond \/ Climb \/ Outside \/ ZoneFound \/ WildUp \/ NxDomain \/ Send
    PROVE  TypeOK'
<1>1. Place /\ Plain /\ \A rr \in ToSet(an \o au \o ar) : rr \in RRs
  BY TypeParts
<1>2. UNCHANGED <<db, query, an, au, ar>>
  BY DEF Refused, Respond, Climb, Outside, ZoneFound, WildUp, NxDomain, Send, Reply, message
<1>3. \A rr \in ToSet(an \o au \o ar)' : rr \in RRs'
  BY <1>1, <1>2 DEF RRs
<1>4. query.name \in Seq(Label)
  BY <1>1, NamesOfQueries DEF Plain
<1>5. /\ query.name \in Suffixes(query.name)
      /\ \A t \in Suffixes(query.name) :
            /\ t \in Seq(Label) /\ Len(t) \in Nat
            /\ t # <<>> => Tail(t) \in Suffixes(query.name) /\ Len(Tail(t)) = Len(t) - 1
      /\ \A t, u \in Suffixes(query.name) : Len(t) = Len(u) => t = u
      /\ \A t \in Suffixes(query.name) : Len(query.name) >= Len(t)
  BY <1>4, SuffixFacts
<1>6. CASE Refused \/ Outside \/ Send
  BY <1>1, <1>2, <1>3, <1>6, TypeParts
     DEF Refused, Outside, Send, Reply, Place, Plain, search, message
<1>7. CASE Respond
  <2>1. Place'
    BY <1>2, <1>5, <1>7 DEF Respond, Place
  <2>2. Plain'
    BY <1>1, <1>2, <1>7, PlaceTyped DEF Respond, Plain, message
  <2> QED
    BY <1>3, <2>1, <2>2, TypeParts
<1>8. CASE Climb
  <2>1. Place'
    BY <1>1, <1>2, <1>5, <1>8 DEF Climb, Place
  <2>2. Plain'
    BY <1>1, <1>2, <1>8 DEF Climb, Plain, message
  <2> QED
    BY <1>3, <2>1, <2>2, TypeParts
<1>9. CASE ZoneFound
  <2>1. Place'
    BY <1>1, <1>2, <1>5, <1>9 DEF ZoneFound, Place
  <2>2. authoritative' \in BOOLEAN
    BY <1>9 DEF ZoneFound, Yields
  <2>3. Plain'
    BY <1>1, <1>2, <1>9, <2>2 DEF ZoneFound, Plain
  <2> QED
    BY <1>3, <2>1, <2>3, TypeParts
<1>10. CASE WildUp
  <2>1. /\ pc = "answer" /\ pc' = "answer" /\ wild # control /\ wild' = Tail(wild)
        /\ UNCHANGED <<control, bpos>>
        /\ wild \in Suffixes(query.name) /\ control \in Suffixes(query.name)
        /\ Len(wild) >= Len(control)
    BY <1>1, <1>10 DEF WildUp, Place
  <2>2. Len(wild) # Len(control) /\ Len(wild) \in Nat /\ Len(control) \in Nat
    BY <1>5, <2>1
  <2>3. wild # <<>>
    BY <2>1, <2>2
  <2>4. Tail(wild) \in Suffixes(query.name) /\ Len(Tail(wild)) >= Len(control)
    BY <1>5, <2>1, <2>2, <2>3
  <2>5. Place'
    BY <1>2, <2>1, <2>4 DEF Place
  <2>6. Plain'
    BY <1>1, <1>2, <1>10 DEF WildUp, Plain, message
  <2> QED
    BY <1>3, <2>5, <2>6, TypeParts
<1>11. CASE NxDomain
  <2>1. Place'
    BY <1>1, <1>2, <1>11 DEF NxDomain, Place, search
  <2>2. Plain'
    BY <1>1, <1>2, <1>11 DEF NxDomain, Plain, search
  <2> QED
    BY <1>3, <2>1, <2>2, TypeParts
<1> QED
  BY <1>6, <1>7, <1>8, <1>9, <1>10, <1>11

LEMMA AnswerTypedStep ==
    ASSUME LookupIInv, TypeOK, SomethingThere
    PROVE  TypeOK'
<1> DEFINE records == Chosen(Pass)
<1>1. PICK a \in Answer(records) : Put(a, au, ar, "authority")
  BY DEF SomethingThere
<1>2. /\ pc = "answer" /\ UNCHANGED <<db, query, search, aa, rcode>>
      /\ Place /\ Plain /\ \A rr \in ToSet(an \o au \o ar) : rr \in RRs
  BY TypeParts DEF SomethingThere
<1>3. query.name \in Seq(Label)
  BY <1>2, NamesOfQueries DEF Plain
<1>4. Picked(records)
  <2>1. Picked(Pass)
    BY SectionFacts, FoundFacts DEF Pass
  <2> QED
    BY <2>1, PickedFacts DEF Chosen
<1> HIDE DEF records
<1>5. Listed(a) /\ Typed(a)
  BY <1>1, <1>3, <1>4, SectionFacts, AnswerFacts, AnswerTyped
<1>6. Typed(an) /\ Typed(au) /\ Typed(ar) /\ Listed(au) /\ Listed(ar) /\ Typed(<<>>)
  BY <1>2, SectionFacts, EmptyFacts DEF Typed
<1>7. ar = ar \o <<>>
  BY <1>6 DEF Listed
<1>8. /\ \A rr \in ToSet(an \o au \o ar)' : rr \in RRs'
      /\ pc' \in {"authority", "idle"}
  BY <1>1, <1>2, <1>5, <1>6, <1>7, EmptyFacts, PutTyped
<1>9. Place' /\ Plain'
  BY <1>2, <1>8 DEF Place, Plain, search
<1> QED
  BY <1>8, <1>9, TypeParts

LEMMA AuthorityTypedStep ==
    ASSUME LookupIInv, TypeOK, Authority
    PROVE  TypeOK'
<1> DEFINE soas == OfType(Found(control, FALSE), "SOA")
           nss == OfType(Found(control, FALSE), "NS")
           given == IF authoritative /\ an = <<>> THEN SubSeq(soas, 1, 1)
                    ELSE IF Want(control, "NS") THEN nss ELSE <<>>
           g == GiveAll(control, given)
<1>1. /\ pc = "authority" /\ UNCHANGED <<db, query, clientloc, control, authoritative, aa, rcode>>
      /\ bpos' = 0 /\ Put(an, g, ar, "additional")
      /\ Place /\ Plain /\ \A rr \in ToSet(an \o au \o ar) : rr \in RRs
  BY TypeParts DEF Authority
<1>2. control \in Suffixes(query.name) /\ control \in Seq(Label)
  <2>1. query.name \in Seq(Label)
    BY <1>1, NamesOfQueries DEF Plain
  <2> QED
    BY <1>1, <2>1, SuffixFacts DEF Place
<1>3. Picked(nss) /\ (Yields(control, "SOA") => Picked(SubSeq(soas, 1, 1)))
  BY SectionFacts, OfTypeFacts
<1>4. Picked(<<>>)
  BY EmptyFacts DEF Picked, IsInjective
<1>5. authoritative => Yields(control, "SOA")
  BY <1>1 DEF LookupIInv, Ours
<1> HIDE DEF soas, nss
<1>6. Picked(given)
  BY <1>3, <1>4, <1>5
<1> HIDE DEF given
<1>7. Listed(g) /\ Typed(g)
  BY <1>2, <1>6, SectionFacts, Giving, GivenTyped
<1> HIDE DEF g
<1>8. Typed(an) /\ Typed(ar) /\ Listed(an) /\ Listed(ar) /\ Typed(<<>>)
  BY <1>1, SectionFacts, EmptyFacts DEF Typed
<1>9. ar = ar \o <<>>
  BY <1>8 DEF Listed
<1>10. /\ \A rr \in ToSet(an \o au \o ar)' : rr \in RRs'
       /\ \/ pc' = "additional" /\ an' = an /\ au' = g
          \/ pc' = "idle"
  BY <1>1, <1>7, <1>8, <1>9, EmptyFacts, PutTyped
<1>11. Len(an \o g) \in Nat
  BY <1>7, <1>8, SectionsJoined
<1>12. Place' /\ Plain'
  <2>1. pc' = "additional" => bpos' \in 0 .. Len(an' \o au')
    BY <1>1, <1>10, <1>11
  <2> QED
    BY <1>1, <1>2, <1>10, <2>1 DEF Place, Plain
<1> QED
  BY <1>10, <1>12, TypeParts

LEMMA AdditionalTypedStep ==
    ASSUME LookupIInv, TypeOK, Named, Additional
    PROVE  TypeOK'
<1> DEFINE i == (an \o au)[bpos + 1].of
           n == db[i].data
           more == IF TypeOf(i) \in {"NS", "MX"} /\ Want(n, "A")
                   THEN GiveAll(n, OfType(Found(n, FALSE), "A")) ELSE <<>>
<1>1. /\ pc = "additional" /\ bpos < Len(an \o au) /\ bpos' = bpos + 1
      /\ UNCHANGED <<db, query, clientloc, control, authoritative, aa, rcode>>
      /\ Put(an, au, ar \o more, "additional")
      /\ Place /\ Plain /\ \A rr \in ToSet(an \o au \o ar) : rr \in RRs
  BY TypeParts DEF Additional
<1>2. /\ Listed(an) /\ Listed(au) /\ Listed(ar) /\ Len(an \o au) \in Nat
      /\ \A rr \in ToSet(an \o au) : rr.of \in DOMAIN db
      /\ Typed(an) /\ Typed(au) /\ Typed(ar) /\ Typed(<<>>) /\ Timed
  BY <1>1, SectionFacts, EmptyFacts DEF Typed
<1>3. bpos + 1 \in 1 .. Len(an \o au)
  BY <1>1, <1>2 DEF Place
<1>4. i \in DOMAIN db
  <2>1. Listed(an \o au)
    BY <1>2, Joined
  <2>2. (an \o au)[bpos + 1] \in ToSet(an \o au)
    BY <1>3, <2>1, ListedFacts DEF Listed
  <2> QED
    BY <1>2, <2>2
<1> HIDE DEF i
<1>5. Listed(more) /\ Typed(more)
  <2>1. CASE TypeOf(i) \in {"NS", "MX"} /\ Want(n, "A")
    <3>1. n \in Seq(Label)
      BY <1>4, <2>1 DEF Named
    <3> HIDE DEF n
    <3>2. Picked(OfType(Found(n, FALSE), "A"))
      BY <1>2, OfTypeFacts
    <3> QED
      BY <1>2, <2>1, <3>1, <3>2, Giving, GivenTyped
  <2>2. CASE ~(TypeOf(i) \in {"NS", "MX"} /\ Want(n, "A"))
    <3>1. more = <<>>
      BY <2>2
    <3> HIDE DEF more
    <3> QED
      BY <1>2, <3>1, EmptyFacts
  <2> QED
    BY <2>1, <2>2
<1> HIDE DEF more
<1>6. /\ \A rr \in ToSet(an \o au \o ar)' : rr \in RRs'
      /\ pc' \in {"additional", "idle"} /\ UNCHANGED <<an, au>>
  BY <1>1, <1>2, <1>5, PutTyped
<1>7. bpos' \in 0 .. Len(an' \o au')
  BY <1>1, <1>2, <1>3, <1>6
<1>8. Place' /\ Plain'
  BY <1>1, <1>6, <1>7 DEF Place, Plain
<1> QED
  BY <1>6, <1>8, TypeParts

LEMMA QueryTypedStep ==
    ASSUME LookupIInv, TypeOK, NEW q \in Query, Ask(q) \/ Refuse(q) \/ Ignore(q)
    PROVE  TypeOK'
<1>1. Place /\ Plain /\ \A rr \in ToSet(an \o au \o ar) : rr \in RRs
  BY TypeParts
<1>2. CASE Ask(q) \/ Refuse(q)
  <2>1. /\ query' = q /\ an' = <<>> /\ au' = <<>> /\ ar' = <<>> /\ aa' = (q.class = "IN")
        /\ pc' \in {"respond", "refused"} /\ rcode' \in {0, 1, 4}
        /\ UNCHANGED <<db, clientloc, authoritative>>
    BY <1>2 DEF Ask, Refuse, Begin, search
  <2>2. <<>> \o <<>> \o <<>> = <<>>
    OBVIOUS
  <2>3. ToSet(an \o au \o ar)' = {}
    BY <2>1, <2>2, EmptyFacts
  <2>4. Place' /\ Plain'
    BY <1>1, <2>1 DEF Place, Plain
  <2> QED
    BY <2>3, <2>4, TypeParts
<1>3. CASE Ignore(q)
  <2>1. /\ pc = "idle" /\ query' = q
        /\ UNCHANGED <<db, pc, clientloc, authoritative, an, au, ar, aa, rcode>>
    BY <1>3 DEF Ignore, search, message
  <2>2. Place' /\ Plain'
    BY <1>1, <2>1 DEF Place, Plain
  <2> QED
    BY <1>1, <2>1, <2>2, TypeParts DEF RRs
<1> QED
  BY <1>2, <1>3

LEMMA NamesStart == Init => Named
<1> SUFFICES ASSUME Init PROVE Named
  OBVIOUS
<1>1. PICK lines \in Data : db = RecordsOf(lines) /\ loq = LoqsOf(lines)
  BY DEF Init
<1>2. TimedRecords(db) /\ OfLine(lines, loq)
  BY <1>1, RecordsFacts, LoqsFacts
<1>3. \A i \in DOMAIN db : db[i] \in ToSet(db)
  BY DEF ToSet
<1>4. \A i \in DOMAIN db : TypeOf(i) \in {"NS", "MX"} => db[i].data \in Seq(Label)
  BY <1>2, <1>3 DEF TimedRecords, TypeOf
<1>5. Len(loq) \in Nat /\ \A i \in 1 .. Len(loq) : loq[i] \in ToSet(loq)
  BY <1>2, ListedFacts DEF OfLine, Listed
<1>6. \A i \in 1 .. Len(loq) : \E l \in ToSet(lines) : loq[i].map = l.map
  BY <1>2, <1>5 DEF OfLine
<1>7. \A l \in ToSet(lines), q \in Query : Geo[q.client][l.map] # Anywhere
  BY LookupConstants
<1> QED
  BY <1>4, <1>5, <1>6, <1>7 DEF Named

\* The search keeps to its types: the name climbs within the name that was asked,
\* and what it puts into the sections are records, owners and ttls.
THEOREM LookupTypeCorrect == Spec => []TypeOK
<1>1. Init => TypeOK /\ Named
  <2> SUFFICES ASSUME Init PROVE TypeOK
    BY NamesStart
  <2>1. an \o au \o ar = <<>>
    BY DEF Init
  <2>2. \A rr \in ToSet(an \o au \o ar) : rr \in RRs
    BY <2>1, EmptyFacts
  <2>3. Place /\ Plain
    BY LookupConstants DEF Init, Place, Plain
  <2> QED
    BY <2>2, <2>3, TypeParts
<1>2. LookupIInv /\ TypeOK /\ Named /\ [Next]_vars => TypeOK' /\ Named'
  <2> SUFFICES ASSUME LookupIInv, TypeOK, Named, [Next]_vars PROVE TypeOK' /\ Named'
    OBVIOUS
  <2>1. UNCHANGED <<db, loq>>
    BY DEF Next, LookUp, Refused, Respond, Climb, Outside, ZoneFound, SomethingThere, WildUp,
       NxDomain, Authority, Additional, Send, Ask, Refuse, Begin, Ignore, vars
  <2>2. Named'
    BY <2>1 DEF Named, TypeOf
  <2>3. CASE UNCHANGED vars
    <3>1. /\ UNCHANGED <<db, query, pc, clientloc, control, authoritative, wild, bpos>>
          /\ UNCHANGED <<an, au, ar, aa, rcode>>
      BY <2>3 DEF vars, search, message
    <3>2. RRs' = RRs
      BY <3>1 DEF RRs
    <3>3. Place' /\ Plain'
      BY <3>1, TypeParts DEF Place, Plain
    <3> QED
      BY <2>2, <3>1, <3>2, <3>3, TypeParts
  <2>4. CASE Refused \/ Respond \/ Climb \/ Outside \/ ZoneFound \/ WildUp \/ NxDomain \/ Send
    BY <2>2, <2>4, QuietTyped
  <2>5. CASE SomethingThere \/ Authority \/ Additional
    BY <2>2, <2>5, AnswerTypedStep, AuthorityTypedStep, AdditionalTypedStep
  <2>6. ASSUME NEW q \in Query, Ask(q) \/ Refuse(q) \/ Ignore(q)
        PROVE  TypeOK' /\ Named'
    BY <2>2, <2>6, QueryTypedStep
  <2> QED
    BY <2>3, <2>4, <2>5, <2>6 DEF Next, LookUp
<1> QED
  BY <1>1, <1>2, LookupInvariance, PTL DEF Spec

-----------------------------------------------------------------------------
(* Both parts                                                               *)

\* Of the two parts one runs, and the other stands still.
LEMMA EachByItself == ServerSpec => Spec /\ LoopSpec
<1>1. ServerInit => Init /\ LoopInit
  BY DEF ServerInit
<1>2. [LookupOnly \/ LoopOnly]_<<side, vars, loopVars>> => [Next]_vars /\ [LoopNext]_loopVars
  BY DEF LookupOnly, LoopOnly
<1> QED
  BY <1>1, <1>2, PTL DEF ServerSpec, Spec, LoopSpec

\* The types of the server: of its event loop, of the search for an answer.
THEOREM ServerTypesCorrect == ServerSpec => []ServerTypeOK
<1>1. TypeOK /\ LoopTypeOK => ServerTypeOK
  BY DEF ServerTypeOK
<1> QED
  BY <1>1, EachByItself, LookupTypeCorrect, LoopTypeCorrect, PTL
=============================================================================
