--------------------------- MODULE NetfilterProofs ---------------------------
(***************************************************************************)
(* Proofs about the extensions of iptables that judge packets: knocking at    *)
(* ports (PortKnock) and binding addresses (Dnetmap), each for itself, and    *)
(* then, with finding scans, as they are composed.                           *)
(***************************************************************************)
EXTENDS PsdProofs

-----------------------------------------------------------------------------
(* Port knocking: the packets of an address                                  *)

\* How many of s and one more are among the last n
HowMany(s, n) == IF Len(s) + 1 > n THEN n ELSE Len(s) + 1

\* The last n of s and one more: they end with that one, and s comes before it.
LEMMA RecentFacts ==
    ASSUME NEW s \in Seq(Port), NEW x \in Port, NEW n \in Nat \ {0}
    PROVE  /\ K!Recent(Append(s, x), n) \in Seq(Port)
           /\ Len(K!Recent(Append(s, x), n)) = HowMany(s, n)
           /\ K!Recent(Append(s, x), n)[HowMany(s, n)] = x
           /\ \A i \in 1 .. HowMany(s, n) - 1 :
                K!Recent(Append(s, x), n)[i] = s[(Len(s) + 1 - HowMany(s, n)) + i]
<1> DEFINE t == Append(s, x)
           l == Len(s) + 1
           m == HowMany(s, n)
           from == IF l > n THEN l - n + 1 ELSE 1
           r == K!Recent(t, n)
<1>1. /\ Len(s) \in Nat /\ t \in Seq(Port) /\ Len(t) = l /\ t[l] = x
      /\ \A i \in 1 .. Len(s) : t[i] = s[i]
      /\ \A i \in 1 .. l : t[i] \in Port
  BY AppendProperties
<1>2. l \in Nat \ {0} /\ Len(s) = l - 1
  BY <1>1
<1>3. m \in 1 .. l /\ m \in Nat /\ from = l - m + 1 /\ from \in 1 .. l /\ from \in Int
  BY <1>1 DEF HowMany
<1>4. r = SubSeq(t, from, l)
  BY <1>1 DEF K!Recent
<1> HIDE DEF t, l, m, from, r
<1>5. \A i \in from .. l : t[i] \in Port
  BY <1>1, <1>2, <1>3
<1>6. /\ SubSeq(t, from, l) \in Seq(Port)
      /\ Len(SubSeq(t, from, l)) = IF from <= l THEN l - from + 1 ELSE 0
      /\ \A i \in 1 .. l - from + 1 : SubSeq(t, from, l)[i] = t[from + i - 1]
  BY <1>2, <1>3, <1>5, SubSeqProperties
<1>7. r \in Seq(Port) /\ Len(r) = m /\ \A i \in 1 .. m : r[i] = t[(l - m) + i]
  <2>1. from <= l /\ l - from + 1 = m /\ \A i \in 1 .. m : from + i - 1 = (l - m) + i
    BY <1>2, <1>3
  <2>2. r \in Seq(Port) /\ Len(r) = m
    BY <1>4, <1>6, <2>1
  <2>3. \A i \in 1 .. m : r[i] = t[from + i - 1]
    BY <1>4, <1>6, <2>1
  <2> QED
    BY <2>1, <2>2, <2>3
<1>8. r[m] = x
  <2>1. m \in 1 .. m /\ (l - m) + m = l
    BY <1>2, <1>3
  <2> QED
    BY <1>1, <1>7, <2>1
<1>9. \A i \in 1 .. m - 1 : r[i] = s[(l - m) + i]
  <2> TAKE i \in 1 .. m - 1
  <2>1. i \in 1 .. m /\ (l - m) + i \in 1 .. Len(s)
    BY <1>2, <1>3
  <2> QED
    BY <1>1, <1>7, <2>1
<1> QED
  BY <1>7, <1>8, <1>9 DEF l, m, r, t

\* One more right knock: one more port is credited, and the last completes them.
LEMMA CreditOneMore ==
    ASSUME NEW s \in Seq(Port), NEW x \in Port, NEW ports \in Seq(Port), NEW c \in Nat,
           K!Credited(s, c, ports), c + 1 <= Len(ports), ports[c + 1] = x
    PROVE  /\ K!Credited(K!Recent(Append(s, x), Len(ports)), c + 1, ports)
           /\ c + 1 = Len(ports) => K!Recent(Append(s, x), Len(ports)) = ports
<1> DEFINE n == Len(ports)
           r == K!Recent(Append(s, x), n)
           m == HowMany(s, n)
<1>1. Len(s) \in Nat /\ n \in Nat \ {0} /\ Len(s) - c \in Nat
      /\ \A i \in 1 .. c : s[(Len(s) - c) + i] = ports[i]
  BY DEF K!Credited
<1>3. m \in Nat /\ m - (c + 1) \in Nat /\ c + 1 <= n /\ (c + 1 = n => m = n)
  BY <1>1 DEF HowMany
<1>2. /\ r \in Seq(Port) /\ Len(r) = m /\ r[m] = x
      /\ \A i \in 1 .. m - 1 : r[i] = s[(Len(s) + 1 - m) + i]
  <2>1. \A k \in Nat \ {0} :
          /\ K!Recent(Append(s, x), k) \in Seq(Port)
          /\ Len(K!Recent(Append(s, x), k)) = HowMany(s, k)
          /\ K!Recent(Append(s, x), k)[HowMany(s, k)] = x
          /\ \A i \in 1 .. HowMany(s, k) - 1 :
               K!Recent(Append(s, x), k)[i] = s[(Len(s) + 1 - HowMany(s, k)) + i]
    BY RecentFacts
  <2> QED
    BY <1>1, <2>1, Zenon
<1> HIDE DEF r, m
<1>4. ASSUME NEW i \in 1 .. c + 1 PROVE r[(m - (c + 1)) + i] = ports[i]
  <2>1. CASE i = c + 1
    <3>1. (m - (c + 1)) + i = m
      BY <1>3, <2>1
    <3> QED
      BY <1>2, <2>1, <3>1
  <2>2. CASE i # c + 1
    <3>1. /\ i \in 1 .. c /\ (m - (c + 1)) + i \in 1 .. m - 1
          /\ (Len(s) + 1 - m) + ((m - (c + 1)) + i) = (Len(s) - c) + i
      <4>1. Len(s) \in Int /\ m \in Int /\ c \in Nat /\ i \in Int /\ m - (c + 1) \in Nat
        BY <1>1, <1>3
      <4>2. i \in 1 .. c
        BY <2>2
      <4> QED
        BY ONLY <4>1, <4>2
    <3>2. r[(m - (c + 1)) + i] = s[(Len(s) - c) + i]
      BY <1>2, <3>1
    <3> QED
      BY <1>1, <3>1, <3>2
  <2> QED
    BY <2>1, <2>2
<1>5. K!Credited(r, c + 1, ports)
  BY <1>2, <1>3, <1>4 DEF K!Credited
<1>6. ASSUME c + 1 = n PROVE r = ports
  <2>1. m = n
    BY <1>3, <1>6
  <2>2. \A i \in 1 .. n : (m - (c + 1)) + i = i
    BY <1>1, <1>6, <2>1
  <2>3. \A i \in 1 .. n : r[i] = ports[i]
    BY <1>4, <1>6, <2>2
  <2>4. Len(r) = Len(ports)
    BY <1>2, <2>1
  <2> HIDE DEF n
  <2>5. \A i \in 1 .. Len(r) : r[i] = ports[i]
    BY <2>3, <2>4 DEF n
  <2> QED
    BY <1>2, <2>4, <2>5, SeqEqual
<1> QED
  BY <1>5, <1>6 DEF r, n

-----------------------------------------------------------------------------
(* The peers                                                               *)

LEMMA PeersFacts ==
    ASSUME K!RuleStateOK, NEW a
    PROVE  /\ DOMAIN K!Without(a) = K!Present \ {a} /\ K!Without(a) \in [K!Present \ {a} -> K!Peer]
           /\ \A b \in K!Present \ {a} : K!Without(a)[b] = peers[b]
           /\ \A p \in K!Peer :
                /\ DOMAIN K!With(a, p) = K!Present \cup {a}
                /\ K!With(a, p) \in [K!Present \cup {a} -> K!Peer]
                /\ K!With(a, p)[a] = p
                /\ \A b \in K!Present \ {a} : K!With(a, p)[b] = peers[b]
BY DEF K!RuleStateOK, K!Without, K!With

LEMMA PeerFacts ==
    ASSUME K!RuleStateOK
    PROVE  /\ \A p \in K!Peer :
                /\ p.count \in 0 .. 15 /\ p.stamp \in 0 .. tick /\ p.login \in 0 .. tick
                /\ p.status \in {"INIT", "MATCHING", "ALLOWED"} /\ p.proto \in {"TCP", "UDP"}
           /\ \A a \in K!Present : peers[a] \in K!Peer
           /\ \A proto \in {"TCP", "UDP"} : K!NewPeer(proto) \in K!Peer
BY DEF K!RuleStateOK, K!Peer, K!NewPeer

LEMMA PortsOfKnocks ==
    ASSUME K!KnockConstants, NEW info \in Knocks, K!Has(info, "KNOCKPORT")
    PROVE  /\ info.port \in Seq(Port) /\ Len(info.port) \in 1 .. 15
           /\ Len(info.port) \in Nat \ {0} /\ 0 < Len(info.port)
<1>1. Len(info.port) \in 1 .. 15
  BY DEF K!KnockConstants, K!Has
<1>2. info.port \in Seq(Port)
  BY DEF K!KnockConstants
<1>3. \A n \in 1 .. 15 : n \in Nat \ {0} /\ 0 < n
  OBVIOUS
<1> QED
  BY <1>1, <1>2, <1>3

LEMMA PortsFacts ==
    ASSUME K!KnockConstants, K!RuleStateOK, NEW info \in loaded, K!Has(info, "KNOCKPORT")
    PROVE  /\ info.port \in Seq(Port) /\ Len(info.port) \in 1 .. 15
           /\ Len(info.port) \in Nat \ {0} /\ 0 < Len(info.port)
<1>1. info \in Knocks
  BY DEF K!RuleStateOK
<1> QED
  BY <1>1, PortsOfKnocks

\* What a packet makes of the peer of its address when it is counted
Counted(a, info, port, p) ==
    LET c == IF a \in K!Present THEN peers[a].count ELSE 0
    IN  /\ ~K!Allowed(a)
        /\ p.count = c + 1 /\ c + 1 <= Len(info.port) /\ info.port[c + 1] = port
        /\ p.status = "ALLOWED" <=> c + 1 = Len(info.port)

\* What a packet makes of the peers: nothing, or it takes the peer of its address
\* away, or gives it another, that knocked rightly or is not let in.
Outcome(a, info, port, proto) ==
    \/ /\ peers' = peers
       /\ K!Has(info, "CHECKIP") \/ K!Allowed(a) \/ a \notin K!Present
    \/ peers' = K!Without(a)
    \/ \E p \in K!Peer :
        /\ peers' = K!With(a, p) /\ K!Has(info, "KNOCKPORT")
        /\ \/ p.status # "ALLOWED" /\ (K!Has(info, "STRICT") => p.count = 0)
           \/ Counted(a, info, port, p)

LEMMA RightKnockFacts ==
    ASSUME K!KnockConstants, K!RuleStateOK, NEW info \in loaded, K!Has(info, "KNOCKPORT"),
           NEW a \in Addr, NEW p \in K!Peer, NEW port, ~K!WrongKnock(p, info, port)
    PROVE  \/ K!RightKnock(a, p, info) = K!Without(a)
           \/ \E q \in K!Peer :
                /\ K!RightKnock(a, p, info) = K!With(a, q)
                /\ q.count = p.count + 1
                /\ q.status = "ALLOWED" <=> p.count + 1 = Len(info.port)
<1> DEFINE n == Len(info.port)
           c == p.count + 1
           counted == [p EXCEPT !.count = @ + 1]
           stamp == IF K!Has(info, "TIME") THEN tick ELSE p.stamp
           in == [p EXCEPT !.count = c, !.status = "ALLOWED", !.login = tick]
           on == [p EXCEPT !.count = c, !.status = "MATCHING", !.stamp = stamp]
<1>1. n \in 1 .. 15
  BY DEF K!KnockConstants, K!RuleStateOK, K!Has
<1>2. /\ p.count \in 0 .. 15 /\ p.stamp \in 0 .. tick /\ tick \in Nat
      /\ p = [count |-> p.count, status |-> p.status, stamp |-> p.stamp, login |-> p.login,
              proto |-> p.proto]
      /\ p.login \in 0 .. tick /\ p.proto \in {"TCP", "UDP"}
  BY DEF K!RuleStateOK, K!Peer
<1>3. c \in 0 .. 15 /\ c <= n
  <2>1. ~(p.count >= n) /\ p.count \in 0 .. 15
    BY DEF K!WrongKnock, K!Peer
  <2> DEFINE d == p.count
  <2>2. ~(d >= n) /\ d \in 0 .. 15 /\ c = d + 1
    BY <2>1
  <2> HIDE DEF n, d, c
  <2> QED
    BY <1>1, <2>2
<1>4. tick \in 0 .. tick /\ stamp \in 0 .. tick
  BY <1>2
<1>5. /\ counted.count = c
      /\ [counted EXCEPT !.status = "ALLOWED", !.login = tick] = in
      /\ [counted EXCEPT !.status = "MATCHING",
                         !.stamp = IF K!Has(info, "TIME") THEN tick ELSE @] = on
  BY <1>2
<1>6. /\ in \in K!Peer /\ in.count = c /\ in.status = "ALLOWED"
      /\ on \in K!Peer /\ on.count = c /\ on.status = "MATCHING"
  BY <1>2, <1>3, <1>4 DEF K!Peer
<1>7. K!RightKnock(a, p, info) =
        IF c = n THEN K!With(a, in)
        ELSE IF K!Has(info, "TIME") /\ tick > p.stamp + info.max THEN K!Without(a)
        ELSE K!With(a, on)
  BY <1>5 DEF K!RightKnock
<1> HIDE DEF c, n, counted, stamp, in, on
<1>8. CASE c = n
  BY <1>6, <1>7, <1>8 DEF c, n
<1>9. CASE c # n /\ K!Has(info, "TIME") /\ tick > p.stamp + info.max
  BY <1>7, <1>9
<1>10. CASE c # n /\ ~(K!Has(info, "TIME") /\ tick > p.stamp + info.max)
  <2>1. K!RightKnock(a, p, info) = K!With(a, on)
    BY <1>7, <1>10
  <2>2. on.count = p.count + 1 /\ (on.status = "ALLOWED" <=> p.count + 1 = Len(info.port))
    BY <1>6, <1>10 DEF c, n
  <2> QED
    BY <1>6, <2>1, <2>2
<1> QED
  BY <1>8, <1>9, <1>10

LEMMA UpdateFacts ==
    ASSUME K!KnockConstants, K!KnockIInv, NEW info \in loaded, K!Has(info, "KNOCKPORT"),
           NEW a \in Addr, ~K!Allowed(a), NEW p \in K!Peer, NEW port, NEW proto, NEW payload,
           a \in K!Present => p = peers[a],
           a \notin K!Present => p.count = 0 /\ p.status # "ALLOWED",
           K!Update(a, p, info, port, proto, payload)
    PROVE  Outcome(a, info, port, proto) /\ gc' \in Nat
<1>1. /\ K!RuleStateOK /\ gc \in Nat /\ tick \in Nat /\ GcExpir \in Nat /\ tick + GcExpir \in Nat
      /\ K!CheckEntry(info) /\ Len(info.port) \in 1 .. 15 /\ p.count \in 0 .. 15
  BY PeerFacts DEF K!KnockIInv, K!Admitted, K!RuleStateOK, K!KnockConstants, K!Has
<1>2. p.status # "ALLOWED"
  BY DEF K!Allowed
<1>3. CASE K!WrongKnock(p, info, port)
  <2>1. peers' = (IF K!Has(info, "STRICT") THEN K!Without(a) ELSE K!With(a, p)) /\ gc' = gc
    BY <1>3 DEF K!Update
  <2> QED
    BY <1>1, <1>2, <2>1 DEF Outcome
<1>4. CASE ~K!WrongKnock(p, info, port) /\ K!SecurityFails(p, info, proto, payload)
  <2>1. peers' = K!With(a, p) /\ gc' = gc
    BY <1>4 DEF K!Update
  <2>2. p.count = 0
    <3>1. Len(info.port) = 1
      BY <1>1, <1>4 DEF K!SecurityFails, K!CheckEntry
    <3>2. ~(p.count >= Len(info.port))
      BY <1>4 DEF K!WrongKnock
    <3> QED
      BY <1>1, <3>1, <3>2
  <2> QED
    BY <1>1, <1>2, <2>1, <2>2 DEF Outcome
<1>5. CASE ~K!WrongKnock(p, info, port) /\ ~K!SecurityFails(p, info, proto, payload)
  <2>1. peers' = K!RightKnock(a, p, info) /\ gc' = tick + GcExpir
    BY <1>5 DEF K!Update
  <2>2. CASE peers' = K!Without(a)
    BY <1>1, <2>1, <2>2 DEF Outcome
  <2>3. CASE peers' # K!Without(a)
    <3>1. \E q \in K!Peer : /\ peers' = K!With(a, q)
                            /\ q.count = p.count + 1
                            /\ (q.status = "ALLOWED" <=> p.count + 1 = Len(info.port))
      BY <1>1, <1>5, <2>1, <2>3, RightKnockFacts
    <3>2. p.count + 1 <= Len(info.port) /\ info.port[p.count + 1] = port
      <4>1. ~(p.count >= Len(info.port)) /\ info.port[p.count + 1] = port
        BY <1>5 DEF K!WrongKnock
      <4>2. p.count \in Int /\ Len(info.port) \in Int
        BY <1>1
      <4>3. \A c, l \in Int : ~(c >= l) => c + 1 <= l
        OBVIOUS
      <4>4. p.count + 1 <= Len(info.port)
        BY ONLY <4>1, <4>2, <4>3
      <4> QED
        BY ONLY <4>1, <4>4
    <3> DEFINE c == IF a \in K!Present THEN peers[a].count ELSE 0
    <3>3. p.count = c
      OBVIOUS
    <3>4. ASSUME NEW q \in K!Peer, q.count = p.count + 1,
                 q.status = "ALLOWED" <=> p.count + 1 = Len(info.port)
          PROVE  Counted(a, info, port, q)
      <4> HIDE DEF c
      <4>1. /\ q.count = c + 1 /\ c + 1 <= Len(info.port) /\ info.port[c + 1] = port
            /\ (q.status = "ALLOWED" <=> c + 1 = Len(info.port))
        BY ONLY <3>2, <3>3, <3>4
      <4>2. ~K!Allowed(a)
        OBVIOUS
      <4> QED
        BY ONLY <4>1, <4>2 DEF Counted, c
    <3>5. \E q \in K!Peer : peers' = K!With(a, q) /\ Counted(a, info, port, q)
      BY ONLY <3>1, <3>4
    <3>6. gc' \in Nat
      BY ONLY <1>1, <2>1
    <3> QED
      BY <3>5, <3>6 DEF Outcome
  <2> QED
    BY <2>2, <2>3
<1> QED
  BY <1>3, <1>4, <1>5

LEMMA PacketFacts ==
    ASSUME K!KnockConstants, K!KnockIInv, NEW info \in loaded, NEW a \in Addr, NEW port \in Port,
           NEW proto \in {"TCP", "UDP"}, NEW payload,
           K!CheckIp(a, info, proto) \/ K!Knock(a, info, port, proto, payload)
    PROVE  Outcome(a, info, port, proto) /\ gc' \in Nat /\ passed' \subseteq Addr
<1>1. K!RuleStateOK /\ gc \in Nat
  BY DEF K!KnockIInv, K!RuleStateOK
<1>2. ASSUME K!Admit(a, proto), K!Allowed(a), UNCHANGED gc
      PROVE  Outcome(a, info, port, proto) /\ gc' \in Nat /\ passed' \subseteq Addr
  BY <1>1, <1>2 DEF K!Admit, Outcome, K!Refuse
<1>3. CASE K!CheckIp(a, info, proto)
  <2>1. CASE K!Allowed(a)
    BY <1>2, <1>3, <2>1 DEF K!CheckIp
  <2>2. CASE ~K!Allowed(a)
    BY <1>1, <1>3, <2>2 DEF K!CheckIp, Outcome, K!Refuse
  <2> QED
    BY <2>1, <2>2
<1>4. CASE K!Knock(a, info, port, proto, payload)
  <2>0. K!Has(info, "KNOCKPORT")
    BY <1>4 DEF K!Knock
  <2>1. CASE K!Allowed(a)
    <3>1. K!FromAllowed(a, info, proto, payload)
      BY <1>4, <2>1 DEF K!Knock
    <3>2. CASE K!Close(a)
      <4> DEFINE p == [peers[a] EXCEPT !.count = 0, !.status = "INIT"]
      <4>1. peers[a] \in K!Peer
        BY <1>1, <2>1, PeerFacts DEF K!Allowed
      <4>2. p \in K!Peer /\ p.count = 0 /\ p.status = "INIT"
        <5>1. peers[a] = [count |-> peers[a].count, status |-> peers[a].status,
                          stamp |-> peers[a].stamp, login |-> peers[a].login,
                          proto |-> peers[a].proto]
          BY <4>1 DEF K!Peer
        <5>2. /\ peers[a].stamp \in 0 .. tick /\ peers[a].login \in 0 .. tick
              /\ peers[a].proto \in {"TCP", "UDP"} /\ 0 \in 0 .. 15
          BY <1>1, <4>1, PeerFacts
        <5> QED
          BY <5>1, <5>2 DEF K!Peer
      <4>3. peers' = K!With(a, p) /\ passed' = {} /\ gc' = gc
        BY <3>1, <3>2 DEF K!Close, K!Refuse, K!FromAllowed
      <4> HIDE DEF p
      <4> QED
        BY <1>1, <2>0, <4>2, <4>3 DEF Outcome
    <3>3. CASE K!Admit(a, proto)
      BY <1>2, <2>1, <3>1, <3>3 DEF K!FromAllowed
    <3> QED
      BY <3>1, <3>2, <3>3 DEF K!FromAllowed
  <2>2. CASE ~K!Allowed(a) /\ a \in K!Present
    <3>1. peers[a] \in K!Peer
      BY <1>1, <2>2, PeerFacts
    <3>2. K!Update(a, peers[a], info, port, proto, payload) /\ passed' = {}
      BY <1>4, <2>2 DEF K!Knock, K!Refuse
    <3> QED
      BY <2>0, <2>2, <3>1, <3>2, UpdateFacts
  <2>3. CASE ~K!Allowed(a) /\ a \notin K!Present /\ port = info.port[1]
    <3>1. /\ K!NewPeer(proto) \in K!Peer /\ K!NewPeer(proto).count = 0
          /\ K!NewPeer(proto).status # "ALLOWED"
      BY <1>1, PeerFacts DEF K!NewPeer
    <3>2. K!Update(a, K!NewPeer(proto), info, port, proto, payload) /\ passed' = {}
      BY <1>4, <2>3 DEF K!Knock, K!Refuse
    <3> HIDE DEF K!NewPeer
    <3> QED
      BY <2>0, <2>3, <3>1, <3>2, UpdateFacts
  <2>4. CASE ~K!Allowed(a) /\ a \notin K!Present /\ port # info.port[1]
    <3>1. UNCHANGED <<peers, gc>> /\ passed' = {}
      BY <1>4, <2>4 DEF K!Knock, K!Refuse
    <3> QED
      BY <1>1, <2>4, <3>1 DEF Outcome
  <2> QED
    BY <2>1, <2>2, <2>3, <2>4
<1> QED
  BY <1>3, <1>4

-----------------------------------------------------------------------------
(* One packet                                                               *)

\* A right knock is the last the address sent, and one more of those it is credited
\* with; the last of them completes the ports of the rule.
LEMMA CountedFacts ==
    ASSUME K!KnockConstants, K!KnockIInv, NEW info \in loaded, K!Has(info, "KNOCKPORT"),
           NEW a \in Addr, NEW port \in Port, NEW p \in K!Peer, Counted(a, info, port, p),
           sent' = [sent EXCEPT ![a] = K!Recent(Append(@, port), Len(info.port))]
    PROVE  /\ sent'[a] # <<>> /\ sent'[a][Len(sent'[a])] = port
           /\ K!Has(info, "STRICT") /\ a \notin elder =>
                /\ K!Credited(sent'[a], p.count, info.port)
                /\ p.count = Len(info.port) => sent'[a] = info.port
<1> DEFINE n == Len(info.port)
           c == IF a \in K!Present THEN peers[a].count ELSE 0
           r == K!Recent(Append(sent[a], port), n)
<1>1. /\ K!RuleStateOK /\ K!OnTheWay /\ n \in 1 .. 15 /\ n \in Nat \ {0}
      /\ info.port \in Seq(Port) /\ sent[a] \in Seq(Port) /\ sent'[a] = r
  <2>1. K!RuleStateOK /\ K!OnTheWay
    BY DEF K!KnockIInv
  <2>2. n \in 1 .. 15 /\ n \in Nat \ {0} /\ info.port \in Seq(Port)
    BY <2>1, PortsFacts
  <2>3. sent \in [Addr -> Seq(Port)]
    BY <2>1 DEF K!RuleStateOK
  <2> HIDE DEF n
  <2>4. sent[a] \in Seq(Port) /\ sent'[a] = r
    BY <2>3 DEF n
  <2> QED
    BY <2>1, <2>2, <2>4
<1>2. /\ c \in Nat /\ p.count = c + 1 /\ c + 1 <= n /\ info.port[c + 1] = port /\ ~K!Allowed(a)
  <2>1. c \in Nat
    <3>1. CASE a \in K!Present
      <4>1. peers[a].count \in 0 .. 15
        BY <1>1, <3>1, PeerFacts
      <4> QED
        BY <3>1, <4>1
    <3> QED
      BY <3>1
  <2> QED
    BY <2>1 DEF Counted
<1>3. /\ Len(r) = HowMany(sent[a], n) /\ r[HowMany(sent[a], n)] = port /\ HowMany(sent[a], n) # 0
      /\ r \in Seq(Port)
  <2>1. Len(sent[a]) \in Nat
    BY <1>1
  <2>2. HowMany(sent[a], n) # 0
    BY <1>1, <2>1 DEF HowMany
  <2> HIDE DEF n
  <2> QED
    BY <1>1, <2>2, RecentFacts
<1>4. sent'[a] # <<>> /\ sent'[a][Len(sent'[a])] = port
  <2> HIDE DEF r, n
  <2> QED
    BY <1>1, <1>3
<1>5. ASSUME K!Has(info, "STRICT"), a \notin elder PROVE K!Credited(sent[a], c, info.port)
  <2>1. CASE a \in K!Present
    BY <1>1, <1>2, <1>5, <2>1 DEF K!OnTheWay, K!Allowed
  <2>2. CASE a \notin K!Present
    <3>1. c = 0 /\ Len(sent[a]) - 0 \in Nat
      BY <1>1, <2>2
    <3> HIDE DEF c
    <3> QED
      BY <3>1 DEF K!Credited
  <2> QED
    BY <2>1, <2>2
<1> HIDE DEF c
<1>6. ASSUME K!Has(info, "STRICT"), a \notin elder
      PROVE  K!Credited(r, c + 1, info.port) /\ (c + 1 = n => r = info.port)
  BY <1>1, <1>2, <1>5, <1>6, CreditOneMore
<1> HIDE DEF r, n
<1> QED
  BY <1>1, <1>2, <1>4, <1>6 DEF n

\* What a packet leaves behind: only the peer of its address, and what the address
\* sent, can have changed.
LEMMA PacketStep ==
    ASSUME K!KnockConstants, K!KnockIInv, NEW a \in Addr, NEW port \in Port,
           NEW proto \in {"TCP", "UDP"}, NEW payload, K!PknockMt(a, port, proto, payload)
    PROVE  K!KnockIInv' /\ K!KnockedInOrder
<1>1. PICK info \in loaded :
        /\ K!CheckIp(a, info, proto) \/ K!Knock(a, info, port, proto, payload)
        /\ sent' = IF K!Has(info, "CHECKIP") THEN sent
                   ELSE [sent EXCEPT ![a] = K!Recent(Append(@, port), Len(info.port))]
        /\ elder' = elder \cap K!Begun(peers')
  BY DEF K!PknockMt
<1>2. /\ rule' = rule /\ loaded' = loaded /\ tick' = tick
  BY DEF K!PknockMt, K!ruleVars
<1>3. K!RuleStateOK /\ K!RuleCounted /\ K!Admitted /\ K!OnTheWay
  BY DEF K!KnockIInv
<1>4. Outcome(a, info, port, proto) /\ gc' \in Nat /\ passed' \subseteq Addr
  BY <1>1, PacketFacts
<1>5. /\ K!Has(info, "CHECKIP") \/ K!Has(info, "KNOCKPORT")
      /\ K!Has(info, "KNOCKPORT") => ~K!Has(info, "CHECKIP")
  BY <1>1, <1>3 DEF K!CheckIp, K!Knock, K!Admitted, K!CheckEntry
<1>6. /\ K!Peer' = K!Peer /\ K!Present' \subseteq Addr /\ peers' \in [K!Present' -> K!Peer]
      /\ \A b \in Addr \ {a} :
           /\ b \in K!Present' <=> b \in K!Present
           /\ b \in K!Present => peers'[b] = peers[b]
  <2>1. K!Peer' = K!Peer
    BY <1>2 DEF K!Peer
  <2>2. K!Present \subseteq Addr /\ peers \in [K!Present -> K!Peer]
    BY <1>3 DEF K!RuleStateOK
  <2>3. K!Present' = DOMAIN peers'
    BY DEF K!Present
  <2>4. CASE peers' = peers
    BY <2>1, <2>2, <2>4 DEF K!Present
  <2>5. CASE peers' = K!Without(a)
    <3>1. /\ DOMAIN K!Without(a) = K!Present \ {a} /\ K!Without(a) \in [K!Present \ {a} -> K!Peer]
          /\ \A b \in K!Present \ {a} : K!Without(a)[b] = peers[b]
      BY <1>3, PeersFacts
    <3> QED
      BY <2>1, <2>2, <2>3, <2>5, <3>1
  <2>6. ASSUME NEW p \in K!Peer, peers' = K!With(a, p)
        PROVE  /\ K!Present' \subseteq Addr /\ peers' \in [K!Present' -> K!Peer]
               /\ \A b \in Addr \ {a} :
                    /\ b \in K!Present' <=> b \in K!Present
                    /\ b \in K!Present => peers'[b] = peers[b]
    <3>1. /\ DOMAIN K!With(a, p) = K!Present \cup {a}
          /\ K!With(a, p) \in [K!Present \cup {a} -> K!Peer]
          /\ \A b \in K!Present \ {a} : K!With(a, p)[b] = peers[b]
      BY <1>3, PeersFacts
    <3> QED
      BY <2>2, <2>3, <2>6, <3>1
  <2> QED
    BY <1>4, <2>1, <2>4, <2>5, <2>6 DEF Outcome
<1>7. sent' \in [Addr -> Seq(Port)] /\ \A b \in Addr \ {a} : sent'[b] = sent[b]
  <2>1. sent \in [Addr -> Seq(Port)]
    BY <1>3 DEF K!RuleStateOK
  <2>2. CASE K!Has(info, "CHECKIP")
    BY <1>1, <2>1, <2>2
  <2>3. CASE ~K!Has(info, "CHECKIP")
    <3>1. Len(info.port) \in Nat \ {0}
      BY <1>3, <1>5, <2>3, PortsFacts
    <3>2. K!Recent(Append(sent[a], port), Len(info.port)) \in Seq(Port)
      BY <2>1, <3>1, RecentFacts
    <3> QED
      BY <1>1, <2>1, <2>3, <3>2
  <2> QED
    BY <2>2, <2>3
<1>8. elder' \subseteq elder /\ elder' \subseteq K!Begun(peers')
  BY <1>1
<1>9. K!RuleStateOK'
  <2>1. K!Begun(peers)' = K!Begun(peers')
    BY DEF K!Begun
  <2>2. /\ rule \in {NoRule} \cup [ref : Nat, max : Nat, autoclose : Nat]
        /\ loaded \subseteq Knocks /\ IsFiniteSet(loaded) /\ tick \in Nat
    BY <1>3, SameSizes DEF K!RuleStateOK
  <2> QED
    BY <1>2, <1>4, <1>6, <1>7, <1>8, <2>1, <2>2, SameSizes DEF K!RuleStateOK
<1>10. K!RuleCounted'
  BY <1>2, <1>3 DEF K!RuleCounted
<1>11. K!Admitted'
  BY <1>2, <1>3 DEF K!Admitted, K!CheckEntry, K!Has
<1>12. ASSUME NEW b \in K!Present', peers'[b].count \in Nat, b \in elder, b \notin elder'
       PROVE  peers'[b].count = 0
  BY <1>1, <1>12 DEF K!Begun, K!Present
<1>13. ASSUME NEW p \in K!Peer, peers' = K!With(a, p), K!Has(info, "KNOCKPORT"),
              Counted(a, info, port, p)
       PROVE  /\ sent'[a] # <<>> /\ sent'[a][Len(sent'[a])] = port
              /\ K!Has(info, "STRICT") /\ a \notin elder =>
                   /\ K!Credited(sent'[a], p.count, info.port)
                   /\ p.count = Len(info.port) => sent'[a] = info.port
  BY <1>1, <1>5, <1>13, CountedFacts
<1>14. ASSUME NEW other \in loaded, NEW b \in K!Present', b \notin elder',
              K!Has(other, "KNOCKPORT"), K!Has(other, "STRICT"), peers'[b].status # "ALLOWED"
       PROVE  /\ peers'[b].count < Len(other.port)
              /\ K!Credited(sent'[b], peers'[b].count, other.port)
  <2>1. /\ b \in Addr /\ sent'[b] \in Seq(Port) /\ peers'[b] \in K!Peer
        /\ peers'[b].count \in 0 .. 15 /\ Len(other.port) \in 1 .. 15
    <3>1. b \in Addr /\ sent'[b] \in Seq(Port) /\ peers'[b] \in K!Peer
      BY <1>6, <1>7
    <3>2. peers'[b].count \in 0 .. 15
      BY <1>3, <3>1, PeerFacts
    <3>3. Len(other.port) \in 1 .. 15
      BY <1>3, <1>14, PortsFacts
    <3> QED
      BY <3>1, <3>2, <3>3
  <2>2. CASE peers'[b].count = 0
    <3>1. 0 < Len(other.port) /\ Len(sent'[b]) - 0 \in Nat
      <4>1. 0 < Len(other.port)
        BY <1>3, <1>14, PortsFacts
      <4>2. Len(sent'[b]) \in Nat
        BY <2>1
      <4> QED
        BY <4>1, <4>2
    <3>2. K!Credited(sent'[b], 0, other.port)
      BY <3>1 DEF K!Credited
    <3> QED
      BY <2>2, <3>1, <3>2
  <2>3. CASE peers'[b].count # 0 /\ b # a
    <3>1. b \in K!Present \ elder /\ peers'[b] = peers[b] /\ sent'[b] = sent[b]
      BY <1>6, <1>7, <1>12, <1>14, <2>1, <2>3
    <3> QED
      BY <1>3, <1>14, <3>1 DEF K!OnTheWay
  <2>4. CASE peers'[b].count # 0 /\ b = a
    <3>1. a \notin elder
      BY <1>12, <1>14, <2>1, <2>4
    <3>2. CASE peers' = peers /\ (K!Has(info, "CHECKIP") \/ K!Allowed(a) \/ a \notin K!Present)
      <4>1. a \in K!Present /\ ~K!Allowed(a) /\ sent' = sent
        BY <1>1, <1>14, <2>4, <3>2 DEF K!Allowed, K!Present
      <4> QED
        BY <1>3, <1>14, <2>4, <3>1, <3>2, <4>1 DEF K!OnTheWay
    <3>3. CASE peers' = K!Without(a)
      <4>1. a \notin DOMAIN peers'
        BY <1>3, <3>3, PeersFacts
      <4> QED
        BY <1>14, <2>4, <4>1 DEF K!Present
    <3>4. ASSUME NEW p \in K!Peer, peers' = K!With(a, p), K!Has(info, "KNOCKPORT"),
                 \/ p.status # "ALLOWED" /\ (K!Has(info, "STRICT") => p.count = 0)
                 \/ Counted(a, info, port, p)
          PROVE  /\ peers'[b].count < Len(other.port)
                 /\ K!Credited(sent'[b], peers'[b].count, other.port)
      <4>1. peers'[a] = p
        BY <1>3, <3>4, PeersFacts
      <4>2. info = other
        BY <1>3, <1>14, <3>4 DEF K!Admitted
      <4>3. Counted(a, info, port, p)
        BY <1>14, <2>4, <3>4, <4>1, <4>2
      <4>4. p.count < Len(info.port)
        <5>1. p.count <= Len(info.port) /\ p.count # Len(info.port)
          BY <1>14, <2>4, <4>1, <4>3 DEF Counted
        <5> QED
          BY <2>1, <2>4, <4>1, <4>2, <5>1
      <4>5. K!Credited(sent'[a], p.count, info.port)
        BY <1>13, <1>14, <3>1, <3>4, <4>2, <4>3
      <4> QED
        BY <2>4, <4>1, <4>2, <4>4, <4>5
    <3> QED
      BY <1>4, <3>2, <3>3, <3>4 DEF Outcome
  <2> QED
    BY <2>2, <2>3, <2>4
<1>15. K!OnTheWay'
  BY <1>2, <1>14 DEF K!OnTheWay, K!Has, K!Credited, K!Present
<1>16. ASSUME NEW b \in Addr, K!Allowed(b)', ~K!Allowed(b)
       PROVE  /\ K!Has(info, "KNOCKPORT") /\ sent'[b] # <<>>
              /\ sent'[b][Len(sent'[b])] = info.port[Len(info.port)]
              /\ K!Has(info, "STRICT") /\ b \notin elder => sent'[b] = info.port
  <2>0. b \in DOMAIN peers' /\ peers'[b].status = "ALLOWED"
    BY <1>16 DEF K!Allowed, K!Present
  <2>1. b = a /\ peers' # peers /\ peers' # K!Without(a)
    <3>1. peers' # peers
      BY <1>16, <2>0 DEF K!Allowed, K!Present
    <3>2. b = a
      BY <1>6, <1>16, <2>0 DEF K!Allowed, K!Present
    <3>3. peers' # K!Without(a)
      <4>1. a \notin DOMAIN K!Without(a)
        BY <1>3, PeersFacts
      <4> QED
        BY <2>0, <3>2, <4>1
    <3> QED
      BY <3>1, <3>2, <3>3
  <2>2. PICK p \in K!Peer :
          /\ peers' = K!With(a, p) /\ K!Has(info, "KNOCKPORT")
          /\ \/ p.status # "ALLOWED" /\ (K!Has(info, "STRICT") => p.count = 0)
             \/ Counted(a, info, port, p)
    BY <1>4, <2>1 DEF Outcome
  <2>3. peers'[a] = p
    BY <1>3, <2>2, PeersFacts
  <2>4. Counted(a, info, port, p) /\ p.status = "ALLOWED"
    BY <2>0, <2>1, <2>2, <2>3
  <2>5. p.count = Len(info.port) /\ port = info.port[Len(info.port)]
    BY <2>4 DEF Counted
  <2> QED
    BY <1>13, <2>1, <2>2, <2>4, <2>5
<1>17. K!KnockedInOrder
  BY <1>16 DEF K!KnockedInOrder
<1> QED
  BY <1>9, <1>10, <1>11, <1>15, <1>17 DEF K!KnockIInv

-----------------------------------------------------------------------------
(* The rules, the collector and the clock                                    *)

LEMMA InitStep == K!KnockConstants /\ K!KnockInit => K!KnockIInv
<1> SUFFICES ASSUME K!KnockConstants, K!KnockInit PROVE K!KnockIInv
  OBVIOUS
<1>1. IsFiniteSet({}) /\ Cardinality({}) = 0
  BY FS_EmptySet
<1>2. K!Present = {} /\ peers \in [K!Present -> K!Peer] /\ <<>> \in Seq(Port)
  BY DEF K!KnockInit, K!Present
<1>3. K!RuleStateOK
  BY <1>1, <1>2, SameSizes DEF K!RuleStateOK, K!KnockInit, K!KnockConstants, K!Begun, K!Present
<1>4. K!RuleCounted
  BY <1>2 DEF K!RuleCounted, K!KnockInit
<1> QED
  BY <1>3, <1>4 DEF K!KnockIInv, K!Admitted, K!OnTheWay, K!KnockInit

\* What neither touches the rules nor the peers, but for the timer
LEMMA QuietStep ==
    ASSUME K!KnockIInv, UNCHANGED <<K!ruleVars, peers, tick, sent, elder, passed>>,
           gc' \in {gc, 0}
    PROVE  K!KnockIInv'
<1>1. K!RuleStateOK'
  BY DEF K!KnockIInv, K!RuleStateOK, K!ruleVars, K!Present, K!Begun, K!Peer
<1>2. K!RuleCounted' /\ K!Admitted' /\ K!OnTheWay'
  BY DEF K!KnockIInv, K!RuleCounted, K!Admitted, K!OnTheWay, K!ruleVars, K!Present, K!CheckEntry, K!Has, K!Credited
<1> QED
  BY <1>1, <1>2 DEF K!KnockIInv

LEMMA LoadStep ==
    ASSUME K!KnockConstants, K!KnockIInv, NEW info \in Knocks, K!Load(info)
    PROVE  K!KnockIInv'
<1>1. K!RuleStateOK /\ K!RuleCounted /\ K!Admitted /\ K!OnTheWay
  BY DEF K!KnockIInv
<1>2. /\ info \notin loaded /\ K!CheckEntry(info) /\ K!Alone(info) /\ loaded' = loaded \cup {info}
      /\ rule' = K!AddRule(info) /\ UNCHANGED <<peers, gc, tick, sent, passed>>
      /\ elder' = IF K!Has(info, "KNOCKPORT") THEN K!Begun(peers) ELSE elder
  BY DEF K!Load, K!gcVars
<1>3. IsFiniteSet(loaded') /\ Cardinality(loaded') = Cardinality(loaded) + 1
  BY <1>1, <1>2, FS_AddElement, SameSizes DEF K!RuleStateOK
<1>4. rule = NoRule => Cardinality(loaded) = 0
  BY <1>1, FS_EmptySet DEF K!RuleCounted
<1>5. /\ rule' \in [ref : Nat, max : Nat, autoclose : Nat] /\ rule' # NoRule
      /\ rule'.ref = Cardinality(loaded')
  <2>1. info.max \in Nat /\ info.autoclose \in Nat
    BY DEF K!KnockConstants
  <2>2. CASE rule = NoRule
    BY <1>2, <1>3, <1>4, <2>1, <2>2 DEF K!AddRule, K!KnockConstants
  <2>3. CASE rule # NoRule
    <3>1. rule \in [ref : Nat, max : Nat, autoclose : Nat] /\ rule.ref = Cardinality(loaded)
      BY <1>1, <2>3, SameSizes DEF K!RuleStateOK, K!RuleCounted
    <3>2. rule.ref + 1 \in Nat
      BY <3>1
    <3>3. rule' \in [ref : Nat, max : Nat, autoclose : Nat] /\ rule'.ref = rule.ref + 1
      BY <1>2, <2>1, <2>3, <3>1, <3>2 DEF K!AddRule
    <3> QED
      BY <1>3, <3>1, <3>3 DEF K!KnockConstants
  <2> QED
    BY <2>2, <2>3
<1>6. K!RuleStateOK'
  BY <1>1, <1>2, <1>3, <1>5, SameSizes DEF K!RuleStateOK, K!Present, K!Begun, K!Peer
<1>7. K!RuleCounted'
  BY <1>2, <1>5, SameSizes DEF K!RuleCounted
<1>8. K!Admitted'
  BY <1>1, <1>2 DEF K!Admitted, K!Alone, K!CheckEntry, K!Has
<1>9. ASSUME NEW other \in loaded', NEW a \in K!Present \ elder',
             K!Has(other, "KNOCKPORT"), K!Has(other, "STRICT"), peers[a].status # "ALLOWED"
      PROVE  peers[a].count < Len(other.port) /\ K!Credited(sent[a], peers[a].count, other.port)
  <2>1. CASE other = info
    <3>1. elder' = K!Begun(peers)
      BY <1>2, <1>9, <2>1
    <3>2. peers[a].count = 0
      <4>1. peers[a].count \in 0 .. 15
        BY <1>1, PeerFacts
      <4>2. ~(peers[a].count > 0)
        BY <1>9, <3>1 DEF K!Begun, K!Present
      <4> QED
        BY <4>1, <4>2
    <3>3. 0 < Len(other.port)
      BY <1>9, <2>1, PortsOfKnocks
    <3>4. Len(sent[a]) \in Nat
      BY <1>1 DEF K!RuleStateOK
    <3>5. K!Credited(sent[a], 0, other.port)
      BY <3>4 DEF K!Credited
    <3> QED
      BY <3>2, <3>3, <3>5
  <2>2. CASE other # info
    <3>1. other \in loaded /\ elder' = elder
      BY <1>2, <1>9, <2>2 DEF K!Alone
    <3> QED
      BY <1>1, <1>9, <3>1 DEF K!OnTheWay
  <2> QED
    BY <2>1, <2>2
<1>10. K!OnTheWay'
  BY <1>2, <1>9 DEF K!OnTheWay, K!Has, K!Present, K!Credited
<1> QED
  BY <1>6, <1>7, <1>8, <1>10 DEF K!KnockIInv

LEMMA RemoveStep ==
    ASSUME K!KnockConstants, K!KnockIInv, NEW info \in Knocks, K!RemoveRule(info)
    PROVE  K!KnockIInv'
<1>1. K!RuleStateOK /\ K!RuleCounted /\ K!Admitted /\ K!OnTheWay
  BY DEF K!KnockIInv
<1>2. /\ info \in loaded /\ loaded' = loaded \ {info} /\ elder' = elder \cap K!Begun(peers')
      /\ UNCHANGED <<tick, sent, passed>>
  BY DEF K!RemoveRule
<1>3. /\ IsFiniteSet(loaded') /\ Cardinality(loaded') = Cardinality(loaded) - 1
      /\ Cardinality(loaded') \in Nat
  BY <1>1, <1>2, FS_RemoveElement, FS_CardinalityType, SameSizes DEF K!RuleStateOK
<1>4. rule \in [ref : Nat, max : Nat, autoclose : Nat] /\ rule.ref = Cardinality(loaded)
  BY <1>1, <1>2, SameSizes DEF K!RuleStateOK, K!RuleCounted
<1>5. loaded' = {} <=> Cardinality(loaded') = 0
  BY <1>3, FS_EmptySet
<1>6. K!Admitted'
  BY <1>1, <1>2 DEF K!Admitted, K!CheckEntry, K!Has
<1>7. CASE rule.ref = 1
  <2>1. rule' = NoRule /\ peers' = <<>> /\ gc' = 0
    BY <1>7 DEF K!RemoveRule
  <2>2. K!Present' = {} /\ peers' \in [K!Present' -> K!Peer'] /\ elder' = {}
    BY <1>2, <2>1 DEF K!Present, K!Begun
  <2>3. K!RuleStateOK'
    BY <1>1, <1>2, <1>3, <2>1, <2>2, SameSizes DEF K!RuleStateOK
  <2>4. loaded' = {}
    BY <1>3, <1>4, <1>5, <1>7
  <2>5. K!RuleCounted' /\ K!OnTheWay'
    BY <2>1, <2>2, <2>4 DEF K!RuleCounted, K!OnTheWay
  <2> QED
    BY <1>6, <2>3, <2>5 DEF K!KnockIInv
<1>8. CASE rule.ref # 1
  <2>1. rule' = [rule EXCEPT !.ref = @ - 1] /\ UNCHANGED <<peers, gc>>
    BY <1>8 DEF K!RemoveRule
  <2>2. rule.ref - 1 \in Nat /\ rule.ref - 1 = Cardinality(loaded') /\ rule.ref - 1 # 0
    BY <1>3, <1>4, <1>8
  <2>3. /\ rule' \in [ref : Nat, max : Nat, autoclose : Nat] /\ rule'.ref = rule.ref - 1
        /\ rule' # NoRule
    BY <1>4, <2>1, <2>2 DEF K!KnockConstants
  <2>4. elder' = elder
    BY <1>1, <1>2, <2>1 DEF K!RuleStateOK
  <2>5. K!RuleStateOK'
    BY <1>1, <1>2, <1>3, <2>1, <2>3, <2>4, SameSizes DEF K!RuleStateOK, K!Present, K!Begun, K!Peer
  <2>6. K!RuleCounted'
    BY <1>5, <2>2, <2>3, SameSizes DEF K!RuleCounted
  <2>7. K!OnTheWay'
    BY <1>1, <1>2, <2>1, <2>4 DEF K!OnTheWay, K!Has, K!Present, K!Credited
  <2> QED
    BY <1>6, <2>5, <2>6, <2>7 DEF K!KnockIInv
<1> QED
  BY <1>7, <1>8

LEMMA DeleteStep ==
    ASSUME K!KnockConstants, K!KnockIInv, NEW a, K!GcDelete(a)
    PROVE  K!KnockIInv'
<1>1. K!RuleStateOK /\ K!RuleCounted /\ K!Admitted /\ K!OnTheWay
  BY DEF K!KnockIInv
<1>2. /\ peers' = K!Without(a) /\ elder' = elder \ {a}
      /\ UNCHANGED <<rule, loaded, gc, tick, sent, passed>>
  BY DEF K!GcDelete, K!ruleVars
<1>3. /\ K!Present' = K!Present \ {a} /\ peers' \in [K!Present' -> K!Peer]
      /\ \A b \in K!Present' : peers'[b] = peers[b]
  <2>1. /\ DOMAIN K!Without(a) = K!Present \ {a} /\ K!Without(a) \in [K!Present \ {a} -> K!Peer]
        /\ \A b \in K!Present \ {a} : K!Without(a)[b] = peers[b]
    BY <1>1, PeersFacts
  <2>2. K!Present' = K!Present \ {a}
    BY <1>2, <2>1 DEF K!Present
  <2> QED
    BY <1>2, <2>1, <2>2
<1>4. elder' \subseteq K!Begun(peers')
  <2>1. elder \subseteq K!Begun(peers)
    BY <1>1 DEF K!RuleStateOK
  <2> QED
    BY <1>2, <1>3, <2>1 DEF K!Begun, K!Present
<1>5. K!RuleStateOK'
  BY <1>1, <1>2, <1>3, <1>4 DEF K!RuleStateOK, K!Peer, K!Begun
<1>6. K!RuleCounted' /\ K!Admitted'
  BY <1>1, <1>2, <1>3 DEF K!RuleCounted, K!Admitted, K!CheckEntry, K!Has
<1>7. K!OnTheWay'
  BY <1>1, <1>2, <1>3 DEF K!OnTheWay, K!Has, K!Credited
<1> QED
  BY <1>5, <1>6, <1>7 DEF K!KnockIInv

LEMMA TickStep ==
    ASSUME K!KnockIInv, K!Tick PROVE K!KnockIInv'
<1>1. K!RuleStateOK /\ K!RuleCounted /\ K!Admitted /\ K!OnTheWay
  BY DEF K!KnockIInv
<1>2. /\ tick' = tick + 1 /\ tick \in Nat
      /\ UNCHANGED <<rule, loaded, peers, gc, sent, elder, passed>>
  BY <1>1 DEF K!Tick, K!ruleVars, K!histVars, K!RuleStateOK
<1>3. K!Peer \subseteq K!Peer'
  <2>1. 0 .. tick \subseteq 0 .. tick'
    BY <1>2
  <2> QED
    BY <2>1 DEF K!Peer
<1>4. peers \in [K!Present -> K!Peer']
  <2>1. peers \in [K!Present -> K!Peer]
    BY <1>1 DEF K!RuleStateOK
  <2> QED
    BY <1>3, <2>1
<1>5. K!RuleStateOK'
  BY <1>1, <1>2, <1>4 DEF K!RuleStateOK, K!Present, K!Begun
<1>6. K!RuleCounted' /\ K!Admitted' /\ K!OnTheWay'
  BY <1>1, <1>2 DEF K!RuleCounted, K!Admitted, K!OnTheWay, K!Present, K!CheckEntry, K!Has, K!Credited
<1> QED
  BY <1>5, <1>6 DEF K!KnockIInv

-----------------------------------------------------------------------------
(* Port knocking as a whole                                                  *)

LEMMA EveryStep ==
    ASSUME K!KnockConstants, K!KnockIInv, [K!KnockNext]_knockVars
    PROVE  K!KnockIInv' /\ K!KnockedInOrder
<1>1. ASSUME UNCHANGED peers PROVE K!KnockedInOrder
  BY <1>1 DEF K!KnockedInOrder, K!Allowed, K!Present
<1>2. CASE UNCHANGED knockVars
  <2>1. UNCHANGED <<K!ruleVars, peers, tick, sent, elder, passed>> /\ gc' \in {gc, 0}
    BY <1>2 DEF knockVars, K!ruleVars
  <2>2. K!KnockedInOrder
    BY <1>1, <2>1
  <2> QED
    BY <2>1, <2>2, QuietStep
<1>3. ASSUME NEW info \in Knocks, K!Load(info) PROVE K!KnockIInv' /\ K!KnockedInOrder
  BY <1>1, <1>3, LoadStep DEF K!Load
<1>4. ASSUME NEW info \in Knocks, K!RemoveRule(info) PROVE K!KnockIInv' /\ K!KnockedInOrder
  <2>1. K!KnockIInv'
    BY <1>4, RemoveStep
  <2>2. UNCHANGED peers \/ peers' = <<>>
    BY <1>4 DEF K!RemoveRule
  <2>3. CASE peers' = <<>>
    BY <2>1, <2>3 DEF K!KnockedInOrder, K!Allowed, K!Present
  <2> QED
    BY <1>1, <2>1, <2>2, <2>3
<1>5. ASSUME NEW a \in Addr, NEW port \in Port, NEW proto \in {"TCP", "UDP"}, NEW payload,
             K!PknockMt(a, port, proto, payload)
      PROVE  K!KnockIInv' /\ K!KnockedInOrder
  BY <1>5, PacketStep
<1>6. CASE K!GcStart
  BY <1>1, <1>6, QuietStep DEF K!GcStart, K!histVars
<1>7. ASSUME NEW a \in todo, K!GcJudge(a) PROVE K!KnockIInv' /\ K!KnockedInOrder
  BY <1>1, <1>7, QuietStep DEF K!GcJudge, K!histVars
<1>8. ASSUME NEW a \in doomed, K!GcDelete(a) PROVE K!KnockIInv' /\ K!KnockedInOrder
  <2>1. peers' = K!Without(a)
    BY <1>8 DEF K!GcDelete
  <2>2. K!RuleStateOK
    BY DEF K!KnockIInv
  <2>3. /\ DOMAIN K!Without(a) = K!Present \ {a}
        /\ \A b \in K!Present \ {a} : K!Without(a)[b] = peers[b]
    BY <2>2, PeersFacts
  <2>4. K!Present' = K!Present \ {a} /\ \A b \in K!Present' : peers'[b] = peers[b]
    BY <2>1, <2>3 DEF K!Present
  <2>5. ASSUME NEW b, K!Allowed(b)' PROVE K!Allowed(b)
    BY <2>4, <2>5 DEF K!Allowed
  <2>6. K!KnockedInOrder
    BY <2>5 DEF K!KnockedInOrder
  <2> QED
    BY <1>8, <2>6, DeleteStep
<1>9. CASE K!Tick
  BY <1>1, <1>9, TickStep DEF K!Tick
<1> QED
  BY <1>2, <1>3, <1>4, <1>5, <1>6, <1>7, <1>8, <1>9 DEF K!KnockNext

\* The peers are of addresses, none is newer than the clock, and no count is past
\* the last place a rule can have (xt_pknock.h, rule and peer).
LEMMA KnockTypes ==
    ASSUME K!KnockConstants, K!KnockIInv PROVE K!KnockTypeOK
<1>1. K!RuleStateOK
  BY DEF K!KnockIInv
<1>2. K!Present \subseteq Addr /\ passed \subseteq Addr /\ tick \in Nat
  BY <1>1 DEF K!RuleStateOK
<1>3. ASSUME NEW a \in K!Present
      PROVE  /\ peers[a].status \in {"INIT", "MATCHING", "ALLOWED"}
             /\ peers[a].count \in 0 .. 15
             /\ peers[a].stamp <= tick /\ peers[a].login <= tick
  BY <1>1, <1>2, PeerFacts
<1> QED
  BY <1>2, <1>3 DEF K!KnockTypeOK

-----------------------------------------------------------------------------
(* Binding addresses: lists without repetition                               *)

\* The module of the prefixes speaks of its own copies of these.
LEMMA SameLists ==
    /\ \A s : D!Range(s) = ToSet(s) /\ (D!IsInjective(s) <=> IsInjective(s))
    /\ \A s, T : D!Kept(s, T) = Kept(s, T)
<1>1. \A s : D!Range(s) = ToSet(s) /\ (D!IsInjective(s) <=> IsInjective(s))
  BY DEF D!Range, ToSet, D!IsInjective, IsInjective
<1>2. \A Q : D!InOrder(Q) = InOrder(Q)
  BY DEF D!InOrder, InOrder, D!Cardinality, Cardinality
<1>3. \A s, T : D!Kept(s, T) = Kept(s, T)
  BY <1>2 DEF D!Kept, Kept
<1> QED
  BY <1>1, <1>3

\* A list without an element, in the same order
LEMMA OthersFacts ==
    ASSUME NEW A, NEW s \in Seq(A), NEW d
    PROVE  /\ D!Others(s, d) \in Seq(A) /\ D!Range(D!Others(s, d)) = D!Range(s) \ {d}
           /\ D!IsInjective(s) => D!IsInjective(D!Others(s, d))
  BY KeptFacts, SameLists DEF D!Others

\* Two lists that share nothing, one after the other
LEMMA JoinFacts ==
    ASSUME NEW A, NEW s \in Seq(A), NEW t \in Seq(A)
    PROVE  /\ s \o t \in Seq(A) /\ D!Range(s \o t) = D!Range(s) \cup D!Range(t)
           /\ D!IsInjective(s) /\ D!IsInjective(t) /\ D!Range(s) \cap D!Range(t) = {} =>
                D!IsInjective(s \o t)
<1> DEFINE m == Len(s)
           n == Len(t)
           u == s \o t
<1>1. /\ m \in Nat /\ n \in Nat /\ DOMAIN s = 1 .. m /\ DOMAIN t = 1 .. n
      /\ u \in Seq(A) /\ Len(u) = m + n /\ DOMAIN u = 1 .. m + n
      /\ \A i \in 1 .. m + n : u[i] = IF i <= m THEN s[i] ELSE t[i - m]
  BY ConcatProperties
<1> HIDE DEF m, n, u
<1>2. \A i \in 1 .. m : i \in 1 .. m + n /\ u[i] = s[i]
  BY <1>1
<1>3. \A i \in 1 .. n : m + i \in 1 .. m + n /\ u[m + i] = t[i]
  <2> TAKE i \in 1 .. n
  <2>1. m + i \in 1 .. m + n /\ ~(m + i <= m) /\ (m + i) - m = i
    BY <1>1
  <2> QED
    BY <1>1, <2>1
<1>4. \A i \in 1 .. m + n : (i \in 1 .. m /\ u[i] = s[i]) \/ (i - m \in 1 .. n /\ u[i] = t[i - m])
  BY <1>1
<1>5. D!Range(u) = D!Range(s) \cup D!Range(t)
  <2>1. D!Range(s) \subseteq D!Range(u)
    <3> SUFFICES ASSUME NEW i \in 1 .. m
                 PROVE  s[i] \in D!Range(u)
      BY <1>1 DEF D!Range
    <3> QED
      BY <1>1, <1>2 DEF D!Range
  <2>3. D!Range(t) \subseteq D!Range(u)
    <3> SUFFICES ASSUME NEW i \in 1 .. n
                 PROVE  t[i] \in D!Range(u)
      BY <1>1 DEF D!Range
    <3> QED
      BY <1>1, <1>3 DEF D!Range
  <2>2. D!Range(u) \subseteq D!Range(s) \cup D!Range(t)
    BY <1>1, <1>4 DEF D!Range
  <2> QED
    BY <2>1, <2>2, <2>3
<1>6. ASSUME D!IsInjective(s), D!IsInjective(t), D!Range(s) \cap D!Range(t) = {}
      PROVE  D!IsInjective(u)
  <2> SUFFICES ASSUME NEW i \in 1 .. m + n, NEW j \in 1 .. m + n, u[i] = u[j]
               PROVE  i = j
    BY <1>1 DEF D!IsInjective
  <2>1. \A k \in 1 .. m, l \in 1 .. n : s[k] # t[l]
    BY <1>1, <1>6 DEF D!Range
  <2>2. CASE i \in 1 .. m /\ u[i] = s[i]
    <3>1. j \in 1 .. m /\ u[j] = s[j]
      BY <1>4, <2>1, <2>2
    <3> QED
      BY <1>1, <1>6, <2>2, <3>1 DEF D!IsInjective
  <2>3. CASE i - m \in 1 .. n /\ u[i] = t[i - m]
    <3>1. j - m \in 1 .. n /\ u[j] = t[j - m]
      BY <1>4, <2>1, <2>3
    <3>2. i - m = j - m
      BY <1>1, <1>6, <2>3, <3>1 DEF D!IsInjective
    <3> QED
      BY <1>1, <3>2
  <2> QED
    BY <1>4, <2>2, <2>3
<1> QED
  BY <1>1, <1>5, <1>6 DEF u

\* One more at the end
LEMMA AppendFacts ==
    ASSUME NEW A, NEW s \in Seq(A), NEW d \in A
    PROVE  /\ Append(s, d) \in Seq(A) /\ D!Range(Append(s, d)) = D!Range(s) \cup {d}
           /\ D!IsInjective(s) /\ d \notin D!Range(s) => D!IsInjective(Append(s, d))
<1>1. Append(s, d) = s \o <<d>> /\ <<d>> \in Seq(A)
  OBVIOUS
<1>2. D!Range(<<d>>) = {d} /\ D!IsInjective(<<d>>)
  <2>1. DOMAIN <<d>> = {1} /\ <<d>>[1] = d
    OBVIOUS
  <2> QED
    BY <2>1 DEF D!Range, D!IsInjective
<1>3. /\ s \o <<d>> \in Seq(A) /\ D!Range(s \o <<d>>) = D!Range(s) \cup D!Range(<<d>>)
      /\ D!IsInjective(s) /\ D!IsInjective(<<d>>) /\ D!Range(s) \cap D!Range(<<d>>) = {} =>
           D!IsInjective(s \o <<d>>)
  BY <1>1, JoinFacts
<1>4. d \notin D!Range(s) => D!Range(s) \cap {d} = {}
  OBVIOUS
<1> QED
  BY <1>1, <1>2, <1>3, <1>4

\* Moving to the tail only changes the order.
LEMMA MoveFacts ==
    ASSUME NEW A, NEW s \in Seq(A), NEW d \in D!Range(s), D!IsInjective(s)
    PROVE  /\ D!MoveToTail(s, d) \in Seq(A) /\ D!Range(D!MoveToTail(s, d)) = D!Range(s)
           /\ D!IsInjective(D!MoveToTail(s, d))
<1>1. d \in A
  BY DEF D!Range
<1>2. /\ D!Others(s, d) \in Seq(A) /\ D!Range(D!Others(s, d)) = D!Range(s) \ {d}
      /\ D!IsInjective(D!Others(s, d))
  BY OthersFacts
<1>3. (D!Range(s) \ {d}) \cup {d} = D!Range(s)
  OBVIOUS
<1> DEFINE q == D!Others(s, d)
<1>4. d \notin D!Range(q) /\ q \in Seq(A) /\ D!IsInjective(q)
  BY <1>2
<1>5. /\ Append(q, d) \in Seq(A) /\ D!Range(Append(q, d)) = D!Range(q) \cup {d}
      /\ D!IsInjective(q) /\ d \notin D!Range(q) => D!IsInjective(Append(q, d))
  <2> HIDE DEF q
  <2> QED
    BY <1>1, <1>4, AppendFacts
<1> QED
  BY <1>2, <1>3, <1>4, <1>5 DEF D!MoveToTail

\* A list without repetition is as long as what it lists is many.
LEMMA AsLongAsMany ==
    ASSUME NEW A, NEW s \in Seq(A), D!IsInjective(s)
    PROVE  Cardinality(D!Range(s)) = Len(s)
<1>1. Len(s) \in Nat /\ DOMAIN s = 1 .. Len(s)
  OBVIOUS
<1>2. IsFiniteSet(1 .. Len(s)) /\ Cardinality(1 .. Len(s)) = Len(s)
  BY <1>1, FS_Interval
<1>3. s \in Bijection(1 .. Len(s), D!Range(s))
  <2>1. s \in [1 .. Len(s) -> D!Range(s)]
    BY <1>1 DEF D!Range
  <2>2. \A x \in D!Range(s) : \E i \in 1 .. Len(s) : s[i] = x
    BY <1>1 DEF D!Range
  <2>3. \A i, j \in 1 .. Len(s) : s[i] = s[j] => i = j
    BY <1>1 DEF D!IsInjective
  <2> QED
    BY <1>1, <2>1, <2>2, <2>3 DEF Bijection, Injection, Surjection, IsInjective
<1>4. ExistsBijection(1 .. Len(s), D!Range(s))
  BY <1>3 DEF ExistsBijection
<1> QED
  BY <1>2, <1>4, FS_Bijection

-----------------------------------------------------------------------------
(* The invariant, for values                                                 *)

Addresses(P) == UNION {D!Range(Pool[p]) : p \in P}

\* What holds of entries e, hash tables h and lists l of the prefixes P
BindingsOf(P, e, h, l) ==
    /\ e \in [Addresses(P) -> D!Binding]
    /\ l \in [P -> Seq(D!Slots)]
    /\ h = {d \in Addresses(P) : e[d].prenat # Nobody}
    /\ \A c, d \in h : e[c].prenat = e[d].prenat => c = d
    /\ \A p \in P : D!IsInjective(l[p]) /\ D!Range(l[p]) = {d \in D!Range(Pool[p]) : ~e[d].static}
    /\ \A d \in Addresses(P) : e[d].static => e[d].prenat # Nobody

\* What holds of prefixes f and the rules R in the table
RulesOf(f, R) ==
    /\ f \in [DOMAIN f -> [ref : Nat, persistent : BOOLEAN]] /\ DOMAIN f \subseteq Prefix
    /\ R \subseteq Rules /\ IsFiniteSet(R)
    /\ \A p \in DOMAIN f : f[p].ref = Cardinality({r \in R : r.prefix = p})
    /\ \A r \in R : r.prefix \in DOMAIN f

MapSound ==
    now \in Nat /\ RulesOf(prefixes, active) /\ BindingsOf(DOMAIN prefixes, entry, hashed, lru)

\* An entry has one prefix.
LEMMA Places ==
    ASSUME D!MapConstants, NEW P \in SUBSET Prefix, NEW d \in Addresses(P)
    PROVE  /\ D!PrefixOf(d) \in P /\ d \in D!Range(Pool[D!PrefixOf(d)]) /\ d \in D!Slots
           /\ \A p \in Prefix : d \in D!Range(Pool[p]) => p = D!PrefixOf(d)
<1>1. PICK q \in P : d \in D!Range(Pool[q])
  BY DEF Addresses
<1>2. D!PrefixOf(d) \in Prefix /\ d \in D!Range(Pool[D!PrefixOf(d)])
  BY <1>1 DEF D!PrefixOf
<1>3. \A p \in Prefix : d \in D!Range(Pool[p]) => p = D!PrefixOf(d)
  BY <1>2 DEF D!MapConstants
<1> QED
  BY <1>1, <1>2, <1>3 DEF D!Slots

\* The invariant for values is the invariant of the model, both ways.
LEMMA SoundIsInvariant == D!MapConstants /\ MapSound /\ ~broken => D!MapIInv
<1> SUFFICES ASSUME D!MapConstants, MapSound, ~broken
             PROVE  D!MapStateOK /\ D!BindingsOneToOne
  BY DEF D!MapIInv
<1>1. D!MapStateOK
  BY SameSizes DEF MapSound, RulesOf, BindingsOf, D!MapStateOK, Addresses
<1>2. \A p \in DOMAIN lru : Cardinality(D!Range(lru[p])) = Len(lru[p])
  <2> TAKE p \in DOMAIN lru
  <2>1. lru[p] \in Seq(D!Slots) /\ D!IsInjective(lru[p])
    BY <1>1 DEF D!MapStateOK
  <2> QED
    BY <2>1, AsLongAsMany
<1>3. ASSUME NEW c \in hashed, NEW d \in hashed, PostNat[c] = PostNat[d]
      PROVE  c = d \/ D!PrefixOf(c) # D!PrefixOf(d)
  <2>1. DOMAIN prefixes \in SUBSET Prefix /\ hashed \subseteq Addresses(DOMAIN prefixes)
    BY DEF MapSound, RulesOf, BindingsOf
  <2>2. /\ D!PrefixOf(c) \in Prefix /\ c \in D!Range(Pool[D!PrefixOf(c)])
        /\ d \in D!Range(Pool[D!PrefixOf(d)])
    BY <2>1, Places
  <2> QED
    BY <1>3, <2>2 DEF D!MapConstants
<1> QED
  BY <1>1, <1>2, <1>3, SameSizes DEF MapSound, RulesOf, BindingsOf, D!BindingsOneToOne, D!Exists

LEMMA InvariantIsSound == D!MapIInv /\ ~broken => MapSound
  BY SameSizes
  DEF MapSound, RulesOf, BindingsOf, D!BindingsOneToOne, D!Exists, D!MapIInv, D!MapStateOK, Addresses

\* One entry changes, and the list of its prefix with it.
LEMMA OneEntry ==
    ASSUME D!MapConstants, NEW P \in SUBSET Prefix, NEW e, NEW h, NEW l, BindingsOf(P, e, h, l),
           NEW d \in Addresses(P), NEW b \in D!Binding, NEW t \in Seq(D!Slots),
           NEW g, g = (IF b.prenat = Nobody THEN h \ {d} ELSE h \cup {d}),
           D!IsInjective(t), b.static => b.prenat # Nobody,
           D!Range(t) = (D!Range(l[D!PrefixOf(d)]) \ {d}) \cup (IF b.static THEN {} ELSE {d}),
           b.prenat # Nobody => \A c \in h : e[c].prenat = b.prenat => c = d
    PROVE  BindingsOf(P, [e EXCEPT ![d] = b], g, [l EXCEPT ![D!PrefixOf(d)] = t])
<1> DEFINE f == [e EXCEPT ![d] = b]
           q == D!PrefixOf(d)
           m == [l EXCEPT ![q] = t]
<1>1. q \in P /\ d \in D!Range(Pool[q]) /\ \A p \in Prefix : d \in D!Range(Pool[p]) => p = q
  BY Places
<1>2. f \in [Addresses(P) -> D!Binding] /\ f[d] = b /\ \A c \in Addresses(P) \ {d} : f[c] = e[c]
  BY DEF BindingsOf
<1>3. m \in [P -> Seq(D!Slots)] /\ m[q] = t /\ \A p \in P \ {q} : m[p] = l[p]
  BY <1>1 DEF BindingsOf
<1>4. \A p \in P : D!IsInjective(l[p]) /\ D!Range(l[p]) = {c \in D!Range(Pool[p]) : ~e[c].static}
  BY DEF BindingsOf
<1>5. \A p \in P : \A c \in D!Range(Pool[p]) : c \in Addresses(P)
  BY DEF Addresses
<1> HIDE DEF f, q, m
<1>6. g = {c \in Addresses(P) : f[c].prenat # Nobody}
  BY <1>2 DEF BindingsOf
<1>7. ASSUME NEW c \in g, NEW k \in g, f[c].prenat = f[k].prenat
      PROVE  c = k
  BY <1>2, <1>6, <1>7 DEF BindingsOf
<1>8. ASSUME NEW p \in P
      PROVE  D!IsInjective(m[p]) /\ D!Range(m[p]) = {c \in D!Range(Pool[p]) : ~f[c].static}
  <2>1. CASE p = q
    <3>1. D!Range(t) = {c \in D!Range(Pool[p]) : ~f[c].static}
      BY <1>1, <1>2, <1>4, <1>5, <2>1 DEF q
    <3> QED
      BY <1>3, <2>1, <3>1
  <2>2. CASE p # q
    <3>1. \A c \in D!Range(Pool[p]) : f[c] = e[c]
      BY <1>1, <1>2, <1>5, <2>2
    <3> QED
      BY <1>3, <1>4, <2>2, <3>1
  <2> QED
    BY <2>1, <2>2
<1>9. \A c \in Addresses(P) : f[c].static => f[c].prenat # Nobody
  BY <1>2 DEF BindingsOf
<1>10. BindingsOf(P, f, g, m)
  BY <1>2, <1>3, <1>6, <1>7, <1>8, <1>9 DEF BindingsOf
<1> QED
  BY <1>10 DEF f, m, q

-----------------------------------------------------------------------------
(* Packets that use a binding, and those that make one                       *)

\* The list that an entry which is not static stands in
LEMMA InTheList ==
    ASSUME D!MapConstants, NEW P \in SUBSET Prefix, NEW e, NEW h, NEW l, BindingsOf(P, e, h, l),
           NEW d \in Addresses(P), ~e[d].static
    PROVE  /\ D!PrefixOf(d) \in P /\ l[D!PrefixOf(d)] \in Seq(D!Slots)
           /\ d \in D!Range(l[D!PrefixOf(d)]) /\ D!IsInjective(l[D!PrefixOf(d)])
           /\ D!MoveToTail(l[D!PrefixOf(d)], d) \in Seq(D!Slots)
           /\ D!Range(D!MoveToTail(l[D!PrefixOf(d)], d)) = D!Range(l[D!PrefixOf(d)])
           /\ D!IsInjective(D!MoveToTail(l[D!PrefixOf(d)], d))
<1>1. /\ D!PrefixOf(d) \in P /\ l[D!PrefixOf(d)] \in Seq(D!Slots)
      /\ d \in D!Range(l[D!PrefixOf(d)]) /\ D!IsInjective(l[D!PrefixOf(d)])
  BY Places DEF BindingsOf
<1> QED
  BY <1>1, MoveFacts

\* A packet that uses a binding (dnetmap_tg) takes it from nobody.
LEMMA RefreshKeeps ==
    ASSUME D!MapConstants, MapSound, NEW d \in hashed, NEW ttl \in Int, D!Refresh(d, ttl)
    PROVE  /\ BindingsOf(DOMAIN prefixes, entry', hashed', lru')
           /\ \A c \in hashed : entry'[c].prenat = entry[c].prenat
<1> DEFINE P == DOMAIN prefixes
           b == [entry[d] EXCEPT !.stamp = now + ttl]
<1>1. P \in SUBSET Prefix /\ BindingsOf(P, entry, hashed, lru) /\ d \in Addresses(P) /\ now \in Nat
  BY DEF MapSound, RulesOf, BindingsOf
<1>2. CASE ttl < 0 \/ entry[d].static
  BY <1>1, <1>2 DEF D!Refresh
<1>3. CASE ~(ttl < 0 \/ entry[d].static)
  <2>1. entry' = [entry EXCEPT ![d] = b] /\ hashed' = hashed
        /\ lru' = [lru EXCEPT ![D!PrefixOf(d)] = D!MoveToTail(lru[D!PrefixOf(d)], d)]
    BY <1>3 DEF D!Refresh
  <2>2. /\ b \in D!Binding /\ b.prenat = entry[d].prenat /\ b.static = entry[d].static
        /\ b.prenat # Nobody
    BY <1>1 DEF BindingsOf, D!Binding
  <2>3. /\ d \in D!Range(lru[D!PrefixOf(d)])
        /\ D!MoveToTail(lru[D!PrefixOf(d)], d) \in Seq(D!Slots)
        /\ D!Range(D!MoveToTail(lru[D!PrefixOf(d)], d)) = D!Range(lru[D!PrefixOf(d)])
        /\ D!IsInjective(D!MoveToTail(lru[D!PrefixOf(d)], d))
    BY <1>1, <1>3, InTheList
  <2>4. \A c \in hashed : entry[c].prenat = b.prenat => c = d
    BY <1>1, <2>2 DEF BindingsOf
  <2>5. /\ hashed = (IF b.prenat = Nobody THEN hashed \ {d} ELSE hashed \cup {d})
        /\ D!Range(lru[D!PrefixOf(d)]) =
             (D!Range(lru[D!PrefixOf(d)]) \ {d}) \cup (IF b.static THEN {} ELSE {d})
    BY <1>3, <2>2, <2>3
  <2>6. BindingsOf(P, [entry EXCEPT ![d] = b], hashed,
                   [lru EXCEPT ![D!PrefixOf(d)] = D!MoveToTail(lru[D!PrefixOf(d)], d)])
    <3> HIDE DEF P, b
    <3> QED
      BY <1>1, <1>3, <2>2, <2>3, <2>4, <2>5, OneEntry
  <2>7. \A c \in hashed : entry'[c].prenat = entry[c].prenat
    BY <1>1, <2>1, <2>2 DEF BindingsOf
  <2> QED
    BY <2>1, <2>6, <2>7
<1> QED
  BY <1>2, <1>3

\* An entry loses its host.
LEMMA Cleared ==
    ASSUME D!MapConstants, NEW P \in SUBSET Prefix, NEW e, NEW h, NEW l, BindingsOf(P, e, h, l),
           NEW c \in h, ~e[c].static
    PROVE  BindingsOf(P, [e EXCEPT ![c] = [e[c] EXCEPT !.prenat = Nobody]], h \ {c}, l)
<1> DEFINE b == [e[c] EXCEPT !.prenat = Nobody]
           q == D!PrefixOf(c)
           t == l[q]
<1>1. c \in Addresses(P) /\ e[c] \in D!Binding
  BY DEF BindingsOf
<1>2. b \in D!Binding /\ b.prenat = Nobody /\ ~b.static
  BY <1>1 DEF D!Binding
<1>3. q \in P /\ t \in Seq(D!Slots) /\ c \in D!Range(t) /\ D!IsInjective(t)
  BY <1>1, InTheList
<1>4. (D!Range(t) \ {c}) \cup {c} = D!Range(t)
  BY <1>3
<1>5. h \ {c} = (IF b.prenat = Nobody THEN h \ {c} ELSE h \cup {c})
  BY <1>2
<1>6. [l EXCEPT ![q] = t] = l
  BY <1>3 DEF BindingsOf
<1>7. D!Range(t) = (D!Range(l[D!PrefixOf(c)]) \ {c}) \cup (IF b.static THEN {} ELSE {c})
  BY <1>2, <1>4
<1>8. BindingsOf(P, [e EXCEPT ![c] = b], h \ {c}, [l EXCEPT ![D!PrefixOf(c)] = t])
  <2> HIDE DEF b, t, q
  <2> QED
    BY <1>1, <1>2, <1>3, <1>5, <1>7, OneEntry
<1> QED
  BY <1>6, <1>8

\* The host that had the entries gone gets the least recently used one.
LEMMA BindKeeps ==
    ASSUME D!MapConstants, MapSound, NEW p \in DOMAIN prefixes, NEW a \in Inside, NEW ttl \in Int,
           NEW old \in SUBSET hashed, D!Lookup(a) = old,
           old = {} \/ \E c \in hashed : old = {c} /\ ~entry[c].static /\ entry[c].stamp < now,
           D!Bind(p, a, ttl, old), ~broken
    PROVE  /\ ~broken' => BindingsOf(DOMAIN prefixes, entry', hashed', lru')
           /\ \A d \in hashed : entry[d].static \/ now < entry[d].stamp =>
                entry'[d].prenat = entry[d].prenat
<1> DEFINE P == DOMAIN prefixes
           clean == [d \in DOMAIN entry |->
                      IF d \in old THEN [entry[d] EXCEPT !.prenat = Nobody] ELSE entry[d]]
           d == Head(lru[p])
           b == [clean[d] EXCEPT !.prenat = a, !.stamp = now + ttl]
           t == D!MoveToTail(lru[p], d)
<1>1. P \in SUBSET Prefix /\ BindingsOf(P, entry, hashed, lru) /\ now \in Nat
  BY DEF MapSound, RulesOf
<1>2. /\ DOMAIN entry = Addresses(P) /\ entry \in [Addresses(P) -> D!Binding]
      /\ hashed \in SUBSET Addresses(P) /\ \A c \in hashed : entry[c].prenat # Nobody
  BY <1>1 DEF BindingsOf
<1>3. BindingsOf(P, clean, hashed \ old, lru)
  <2>1. CASE old = {}
    <3>1. clean = entry /\ hashed \ old = hashed
      BY <1>2, <2>1
    <3> QED
      BY <1>1, <3>1
  <2>2. ASSUME NEW c \in hashed, old = {c}, ~entry[c].static
        PROVE  BindingsOf(P, clean, hashed \ old, lru)
    <3>1. clean = [entry EXCEPT ![c] = [entry[c] EXCEPT !.prenat = Nobody]]
      BY <1>2, <2>2
    <3>2. BindingsOf(P, [entry EXCEPT ![c] = [entry[c] EXCEPT !.prenat = Nobody]], hashed \ {c}, lru)
      BY <1>1, <2>2, Cleared
    <3> QED
      BY <2>2, <3>1, <3>2
  <2> QED
    BY <2>1, <2>2
<1>4. \A c \in hashed \ old : clean[c] = entry[c] /\ entry[c].prenat # a
  BY <1>2 DEF D!Lookup
<1>5. \A c \in old : ~entry[c].static /\ ~(now < entry[c].stamp)
  BY <1>1, <1>2 DEF D!Binding
<1>6. CASE lru[p] = <<>> \/ (clean[d].prenat # Nobody /\ now < clean[d].stamp)
  <2>1. entry' = clean /\ hashed' = hashed \ old /\ lru' = lru
    BY <1>6 DEF D!Bind
  <2>2. \A c \in hashed : entry[c].static \/ now < entry[c].stamp => clean[c] = entry[c]
    BY <1>4, <1>5
  <2> HIDE DEF clean
  <2> QED
    BY <1>3, <2>1, <2>2
<1>7. CASE ~(lru[p] = <<>> \/ (clean[d].prenat # Nobody /\ now < clean[d].stamp))
  <2>1. /\ entry' = [clean EXCEPT ![d].prenat = a, ![d].stamp = now + ttl]
        /\ hashed' = (hashed \ old) \cup {d} /\ lru' = [lru EXCEPT ![p] = t]
    BY <1>7 DEF D!Bind
  <2>2. lru[p] \in Seq(D!Slots) /\ lru[p] # <<>> /\ D!Range(lru[p]) = {c \in D!Range(Pool[p]) : ~clean[c].static}
    BY <1>3, <1>7 DEF BindingsOf
  <2>3. d \in D!Range(lru[p])
    <3>1. 1 \in DOMAIN lru[p] /\ d = lru[p][1]
      BY <2>2
    <3> QED
      BY <3>1 DEF D!Range
  <2>4. d \in D!Range(Pool[p]) /\ ~clean[d].static /\ d \in Addresses(P)
    BY <2>2, <2>3 DEF Addresses
  <2>5. p = D!PrefixOf(d)
    BY <1>1, <2>4, Places
  <2>6. /\ t \in Seq(D!Slots) /\ D!Range(t) = D!Range(lru[p]) /\ D!IsInjective(t)
        /\ (D!Range(lru[p]) \ {d}) \cup {d} = D!Range(lru[p])
    <3> HIDE DEF clean, d
    <3> QED
      BY <1>1, <1>3, <2>3, <2>4, <2>5, InTheList
  <2>7. clean \in [Addresses(P) -> D!Binding]
    BY <1>3 DEF BindingsOf
  <2>8. /\ b \in D!Binding /\ b.prenat = a /\ ~b.static /\ a # Nobody
        /\ [clean EXCEPT ![d].prenat = a, ![d].stamp = now + ttl] = [clean EXCEPT ![d] = b]
    <3> HIDE DEF clean, d
    <3>1. clean[d] \in D!Binding /\ now + ttl \in Int /\ a # Nobody
      BY <1>1, <2>4, <2>7 DEF D!MapConstants
    <3>2. b \in D!Binding /\ b.prenat = a /\ b.static = clean[d].static
      BY <3>1 DEF D!Binding
    <3>3. [clean EXCEPT ![d].prenat = a, ![d].stamp = now + ttl] = [clean EXCEPT ![d] = b]
      BY <2>4, <2>7, <3>1 DEF D!Binding
    <3> QED
      BY <2>4, <3>1, <3>2, <3>3
  <2>9. \A c \in hashed \ old : clean[c].prenat = b.prenat => c = d
    BY <1>4, <2>8
  <2>10. /\ (hashed \ old) \cup {d} =
             (IF b.prenat = Nobody THEN (hashed \ old) \ {d} ELSE (hashed \ old) \cup {d})
         /\ D!Range(t) = (D!Range(lru[D!PrefixOf(d)]) \ {d}) \cup (IF b.static THEN {} ELSE {d})
    BY <2>5, <2>6, <2>8
  <2>11. BindingsOf(P, [clean EXCEPT ![d] = b], (hashed \ old) \cup {d},
                    [lru EXCEPT ![D!PrefixOf(d)] = t])
    <3> HIDE DEF P, b, clean, d, t
    <3> QED
      BY <1>1, <1>3, <2>4, <2>6, <2>8, <2>9, <2>10, OneEntry
  <2>12. ASSUME NEW c \in hashed, entry[c].static \/ now < entry[c].stamp
         PROVE  [clean EXCEPT ![d] = b][c].prenat = entry[c].prenat
    <3>1. c \notin old /\ clean[c] = entry[c] /\ entry[c].prenat # Nobody
      BY <1>2, <1>4, <1>5, <2>12
    <3>2. c # d
      BY <1>7, <2>4, <2>12, <3>1
    <3> HIDE DEF clean, d, b
    <3> QED
      BY <1>2, <2>7, <3>1, <3>2
  <2>13. /\ entry' = [clean EXCEPT ![d] = b] /\ hashed' = (hashed \ old) \cup {d}
         /\ lru' = [lru EXCEPT ![D!PrefixOf(d)] = t]
    <3> HIDE DEF b, clean, d, t
    <3> QED
      BY <2>1, <2>5, <2>8
  <2>14. BindingsOf(P, entry', hashed', lru')
    <3> HIDE DEF b, clean, d, t, P
    <3> QED
      BY <2>11, <2>13
  <2>15. \A c \in hashed : entry[c].static \/ now < entry[c].stamp =>
                           entry'[c].prenat = entry[c].prenat
    <3> HIDE DEF b, clean, d, t
    <3> QED
      BY <2>12, <2>13
  <2> QED
    BY <2>14, <2>15
<1> QED
  BY <1>6, <1>7

\* dnetmap_tg in POSTROUTING
LEMMA PostRoutingKeeps ==
    ASSUME D!MapConstants, MapSound, ~broken, NEW a \in Inside, NEW r \in Rules, D!PostRouting(a, r)
    PROVE  /\ ~broken' => MapSound'
           /\ \A d \in hashed : entry[d].static \/ now < entry[d].stamp =>
                entry'[d].prenat = entry[d].prenat
<1> DEFINE p == r.prefix
           Alive == \A d \in hashed : entry[d].static \/ now < entry[d].stamp =>
                      entry'[d].prenat = entry[d].prenat
           Fine == ~broken' => BindingsOf(DOMAIN prefixes, entry', hashed', lru')
<1>1. /\ p \in DOMAIN prefixes /\ r.ttl \in Int /\ BindingsOf(DOMAIN prefixes, entry, hashed, lru)
      /\ prefixes' = prefixes /\ active' = active /\ now' = now
  BY DEF D!PostRouting, MapSound, RulesOf, D!MapConstants
<1>2. D!Lookup(a) \in SUBSET hashed /\ \A c, d \in D!Lookup(a) : c = d
  BY <1>1 DEF D!Lookup, BindingsOf
<1>3. CASE D!Lookup(a) = {}
  <2>1. CASE "STATIC" \in r.flags
    <3>1. UNCHANGED <<entry, hashed, lru, broken>>
      BY <1>3, <2>1 DEF D!PostRouting
    <3> QED
      BY <1>1, <3>1 DEF MapSound
  <2>2. CASE "STATIC" \notin r.flags
    <3>1. D!Bind(p, a, r.ttl, {})
      BY <1>3, <2>2 DEF D!PostRouting
    <3>2. Fine /\ Alive
      BY <1>1, <1>3, <3>1, BindKeeps
    <3> QED
      BY <1>1, <3>2 DEF MapSound
  <2> QED
    BY <2>1, <2>2
<1>4. CASE D!Lookup(a) # {}
  <2>1. PICK d \in D!Lookup(a) :
          IF /\ "REUSE" \notin r.flags /\ ~entry[d].static
             /\ entry[d].stamp < now /\ D!PrefixOf(d) # p
          THEN D!Bind(p, a, r.ttl, {d}) ELSE D!Refresh(d, r.ttl)
    BY <1>4 DEF D!PostRouting
  <2>2. d \in hashed /\ D!Lookup(a) = {d}
    BY <1>2
  <2>3. CASE ~entry[d].static /\ entry[d].stamp < now /\ D!Bind(p, a, r.ttl, {d})
    <3>1. \E c \in hashed : {d} = {c} /\ ~entry[c].static /\ entry[c].stamp < now
      BY <2>2, <2>3
    <3>2. Fine /\ Alive
      BY <1>1, <2>2, <2>3, <3>1, BindKeeps
    <3> QED
      BY <1>1, <3>2 DEF MapSound
  <2>4. CASE D!Refresh(d, r.ttl)
    <3>1. Fine /\ Alive
      BY <1>1, <2>2, <2>4, RefreshKeeps
    <3> QED
      BY <1>1, <3>1 DEF MapSound
  <2> QED
    BY <2>1, <2>3, <2>4
<1> QED
  BY <1>3, <1>4

\* dnetmap_tg in PREROUTING
LEMMA PreRoutingKeeps ==
    ASSUME D!MapConstants, MapSound, NEW x, NEW r \in Rules, D!PreRouting(x, r.ttl)
    PROVE  /\ MapSound'
           /\ \A c \in hashed : entry'[c].prenat = entry[c].prenat
<1> PICK d \in D!Rlookup(x) : D!Refresh(d, r.ttl)
  BY DEF D!PreRouting
<1>1. /\ d \in hashed /\ D!Refresh(d, r.ttl) /\ r.ttl \in Int
      /\ prefixes' = prefixes /\ active' = active /\ now' = now
  BY DEF D!PreRouting, D!Rlookup, D!MapConstants
<1>2. /\ BindingsOf(DOMAIN prefixes, entry', hashed', lru')
      /\ \A c \in hashed : entry'[c].prenat = entry[c].prenat
  BY <1>1, RefreshKeeps
<1> QED
  BY <1>1, <1>2 DEF MapSound

-----------------------------------------------------------------------------
(* What is written to the file of a prefix                                   *)

\* dnetmap_prefix_softflush: every entry is in the list again, once.
LEMMA SoftFlushKeeps ==
    ASSUME D!MapConstants, MapSound, NEW p \in Prefix, D!SoftFlush(p)
    PROVE  MapSound'
<1> DEFINE P == DOMAIN prefixes
           static == D!Kept(Pool[p], {d \in DOMAIN entry : entry[d].static})
           f == [d \in DOMAIN entry |-> IF d \in D!Range(Pool[p]) THEN D!Unbound ELSE entry[d]]
           m == [lru EXCEPT ![p] = lru[p] \o static]
<1>1. /\ p \in P /\ P \in SUBSET Prefix /\ BindingsOf(P, entry, hashed, lru) /\ now \in Nat
      /\ entry' = f /\ lru' = m /\ hashed' = hashed \ D!Range(Pool[p])
      /\ prefixes' = prefixes /\ active' = active /\ now' = now
  BY DEF D!SoftFlush, D!Exists, MapSound, RulesOf
<1>2. DOMAIN entry = Addresses(P) /\ D!Range(Pool[p]) \in SUBSET Addresses(P)
  BY <1>1 DEF BindingsOf, Addresses
<1>3. D!Unbound \in D!Binding /\ D!Unbound.prenat = Nobody /\ ~D!Unbound.static
  BY <1>1 DEF D!Unbound, D!Free, D!Binding
<1>4. /\ f \in [Addresses(P) -> D!Binding]
      /\ \A d \in Addresses(P) : f[d] = IF d \in D!Range(Pool[p]) THEN D!Unbound ELSE entry[d]
  BY <1>1, <1>2, <1>3 DEF BindingsOf
<1>5. /\ static \in Seq(D!Slots) /\ D!IsInjective(static)
      /\ D!Range(static) = {d \in D!Range(Pool[p]) : entry[d].static}
  <2>1. Pool[p] \in Seq(D!Slots) /\ D!IsInjective(Pool[p])
    BY DEF D!MapConstants
  <2>3. /\ static \in Seq(D!Slots) /\ D!IsInjective(static)
        /\ D!Range(static) = D!Range(Pool[p]) \cap {d \in DOMAIN entry : entry[d].static}
    BY <2>1, KeptFacts, SameLists
  <2> HIDE DEF static
  <2> QED
    BY <1>2, <2>3
<1>6. /\ lru[p] \in Seq(D!Slots) /\ D!IsInjective(lru[p])
      /\ D!Range(lru[p]) = {d \in D!Range(Pool[p]) : ~entry[d].static}
  BY <1>1 DEF BindingsOf
<1>7. /\ lru[p] \o static \in Seq(D!Slots) /\ D!IsInjective(lru[p] \o static)
      /\ D!Range(lru[p] \o static) = D!Range(Pool[p])
  <2>1. D!Range(lru[p]) \cap D!Range(static) = {} /\ D!Range(lru[p]) \cup D!Range(static) = D!Range(Pool[p])
    BY <1>5, <1>6
  <2> HIDE DEF static
  <2> QED
    BY <1>5, <1>6, <2>1, JoinFacts
<1>8. /\ m \in [P -> Seq(D!Slots)] /\ m[p] = lru[p] \o static
      /\ \A q \in P \ {p} : m[q] = lru[q]
  BY <1>1, <1>7 DEF BindingsOf
<1> HIDE DEF f, m, static
<1>9. hashed' = {d \in Addresses(P) : f[d].prenat # Nobody}
  BY <1>1, <1>3, <1>4 DEF BindingsOf
<1>10. ASSUME NEW c \in hashed', NEW d \in hashed', f[c].prenat = f[d].prenat
       PROVE  c = d
  BY <1>1, <1>4, <1>10 DEF BindingsOf
<1>11. ASSUME NEW q \in P
       PROVE  D!IsInjective(m[q]) /\ D!Range(m[q]) = {d \in D!Range(Pool[q]) : ~f[d].static}
  <2>1. \A d \in D!Range(Pool[q]) : d \in Addresses(P)
    BY DEF Addresses
  <2>2. CASE q = p
    BY <1>3, <1>4, <1>7, <1>8, <2>1, <2>2
  <2>3. CASE q # p
    <3>1. \A d \in D!Range(Pool[q]) : d \notin D!Range(Pool[p])
      BY <1>1, <2>3 DEF D!MapConstants
    <3>2. \A d \in D!Range(Pool[q]) : f[d] = entry[d]
      BY <1>4, <2>1, <3>1
    <3> QED
      BY <1>1, <1>8, <2>3, <3>2 DEF BindingsOf
  <2> QED
    BY <2>2, <2>3
<1>12. \A d \in Addresses(P) : f[d].static => f[d].prenat # Nobody
  BY <1>1, <1>3, <1>4 DEF BindingsOf
<1>13. BindingsOf(P, f, hashed', m)
  BY <1>4, <1>8, <1>9, <1>10, <1>11, <1>12 DEF BindingsOf
<1> QED
  BY <1>1, <1>13 DEF MapSound

\* "+prenat:postnat", unless it breaks something
LEMMA AddStaticKeeps ==
    ASSUME D!MapConstants, MapSound, NEW p \in Prefix, NEW a \in Inside, NEW x,
           D!AddStatic(p, a, x), ~broken'
    PROVE  MapSound'
<1> PICK d \in IF D!Rlookup(x) # {} THEN D!Rlookup(x) ELSE D!Range(Pool[p]) :
           /\ entry' = [entry EXCEPT ![d].prenat = a, ![d].static = TRUE]
           /\ hashed' = hashed \cup {d}
           /\ lru' = [lru EXCEPT ![D!PrefixOf(d)] = D!Others(lru[D!PrefixOf(d)], d)]
           /\ broken' = (entry[d].static \/ ~(D!Lookup(a) \subseteq {d}))
  BY DEF D!AddStatic
<1>0. d \in Addresses(DOMAIN prefixes)
  <2>1. hashed \subseteq Addresses(DOMAIN prefixes) /\ p \in DOMAIN prefixes
    BY DEF D!AddStatic, D!Exists, MapSound, BindingsOf
  <2> QED
    BY <2>1 DEF D!Rlookup, Addresses
<1> DEFINE P == DOMAIN prefixes
           b == [entry[d] EXCEPT !.prenat = a, !.static = TRUE]
           t == D!Others(lru[D!PrefixOf(d)], d)
<1>1. /\ P \in SUBSET Prefix /\ BindingsOf(P, entry, hashed, lru) /\ d \in DOMAIN entry
      /\ DOMAIN entry = Addresses(P) /\ a # Nobody
      /\ hashed' = hashed \cup {d} /\ lru' = [lru EXCEPT ![D!PrefixOf(d)] = t]
      /\ ~entry[d].static /\ D!Lookup(a) \subseteq {d}
      /\ prefixes' = prefixes /\ active' = active /\ now' = now
  BY <1>0 DEF D!AddStatic, MapSound, RulesOf, BindingsOf, D!MapConstants
<1>2. entry[d] \in D!Binding /\ entry \in [Addresses(P) -> D!Binding]
  BY <1>1 DEF BindingsOf
<1>3. b \in D!Binding /\ b.prenat = a /\ b.static
  BY <1>2 DEF D!Binding
<1>4. entry' = [entry EXCEPT ![d] = b]
  BY <1>1, <1>2 DEF D!Binding
<1>5. lru[D!PrefixOf(d)] \in Seq(D!Slots) /\ D!IsInjective(lru[D!PrefixOf(d)])
  BY <1>1, InTheList
<1>6. t \in Seq(D!Slots) /\ D!IsInjective(t) /\ D!Range(t) = D!Range(lru[D!PrefixOf(d)]) \ {d}
  BY <1>5, OthersFacts
<1>7. \A c \in hashed : entry[c].prenat = b.prenat => c = d
  BY <1>1, <1>3 DEF D!Lookup
<1>8. /\ hashed' = (IF b.prenat = Nobody THEN hashed \ {d} ELSE hashed \cup {d})
      /\ D!Range(t) = (D!Range(lru[D!PrefixOf(d)]) \ {d}) \cup (IF b.static THEN {} ELSE {d})
      /\ b.prenat # Nobody
  BY <1>1, <1>3, <1>6
<1>9. BindingsOf(P, [entry EXCEPT ![d] = b], hashed', [lru EXCEPT ![D!PrefixOf(d)] = t])
  <2> HIDE DEF P, b, t
  <2> QED
    BY <1>1, <1>3, <1>6, <1>7, <1>8, OneEntry
<1> QED
  BY <1>1, <1>4, <1>9 DEF MapSound

\* "-address", unless it breaks something
LEMMA UnbindKeeps ==
    ASSUME D!MapConstants, MapSound, NEW p \in Prefix, NEW x, D!Unbind(p, x), ~broken'
    PROVE  MapSound'
<1> PICK d \in IF D!Rlookup(x) # {} THEN D!Rlookup(x) ELSE D!Lookup(x) : D!Removed(p, d)
  BY DEF D!Unbind
<1>0. d \in hashed
  BY DEF D!Rlookup, D!Lookup
<1> DEFINE P == DOMAIN prefixes
           b == D!Unbound
           l == lru[D!PrefixOf(d)]
           t == IF entry[d].static THEN Append(l, d) ELSE l
<1>1. /\ P \in SUBSET Prefix /\ BindingsOf(P, entry, hashed, lru) /\ now \in Nat
      /\ d \in hashed /\ d \in Addresses(P) /\ hashed' = hashed \ {d}
      /\ entry' = [entry EXCEPT ![d] = b]
      /\ lru' = (IF entry[d].static THEN [lru EXCEPT ![p] = Append(lru[p], d)] ELSE lru)
      /\ entry[d].static => p = D!PrefixOf(d)
      /\ prefixes' = prefixes /\ active' = active /\ now' = now
  BY <1>0 DEF D!Unbind, D!Removed, MapSound, RulesOf, BindingsOf
<1>2. b \in D!Binding /\ b.prenat = Nobody /\ ~b.static
  BY <1>1 DEF D!Unbound, D!Free, D!Binding
<1>3. /\ D!PrefixOf(d) \in P /\ d \in D!Range(Pool[D!PrefixOf(d)]) /\ d \in D!Slots
  BY <1>1, Places
<1>4. /\ l \in Seq(D!Slots) /\ D!IsInjective(l) /\ lru \in [P -> Seq(D!Slots)]
      /\ d \in D!Range(l) <=> ~entry[d].static
  BY <1>1, <1>3 DEF BindingsOf
<1>5. /\ t \in Seq(D!Slots) /\ D!IsInjective(t) /\ D!Range(t) = D!Range(l) \cup {d}
  <2>1. CASE entry[d].static
    <3>1. d \notin D!Range(l) /\ t = Append(l, d)
      BY <1>4, <2>1
    <3> HIDE DEF l, t
    <3> QED
      BY <1>3, <1>4, <3>1, AppendFacts
  <2>2. CASE ~entry[d].static
    BY <1>4, <2>2
  <2> QED
    BY <2>1, <2>2
<1>6. lru' = [lru EXCEPT ![D!PrefixOf(d)] = t]
  <2>1. CASE entry[d].static
    BY <1>1, <2>1
  <2>2. CASE ~entry[d].static
    BY <1>1, <1>3, <1>4, <2>2
  <2> QED
    BY <2>1, <2>2
<1>7. /\ hashed' = (IF b.prenat = Nobody THEN hashed \ {d} ELSE hashed \cup {d})
      /\ D!Range(t) = (D!Range(l) \ {d}) \cup (IF b.static THEN {} ELSE {d})
  <2> HIDE DEF t, l, b
  <2> QED
    BY <1>1, <1>2, <1>5
<1>8. BindingsOf(P, [entry EXCEPT ![d] = b], hashed', [lru EXCEPT ![D!PrefixOf(d)] = t])
  <2>1. D!Range(t) = (D!Range(lru[D!PrefixOf(d)]) \ {d}) \cup (IF b.static THEN {} ELSE {d})
    BY <1>7
  <2> HIDE DEF P, b, t, l
  <2> QED
    BY <1>1, <1>2, <1>5, <1>7, <2>1, OneEntry
<1>9. BindingsOf(P, entry', hashed', lru')
  <2> HIDE DEF t, b, P
  <2> QED
    BY <1>1, <1>6, <1>8
<1> QED
  BY <1>1, <1>9 DEF MapSound

\* "+persistent" and "-persistent"
LEMMA SetPersistentKeeps ==
    ASSUME MapSound, NEW p \in Prefix, NEW persistent \in BOOLEAN, D!SetPersistent(p, persistent)
    PROVE  MapSound'
<1>1. /\ prefixes' = [prefixes EXCEPT ![p].persistent = persistent] /\ p \in DOMAIN prefixes
      /\ UNCHANGED <<active, entry, hashed, lru, now>> /\ RulesOf(prefixes, active)
  BY DEF D!SetPersistent, D!Exists, MapSound
<1>2. prefixes \in [DOMAIN prefixes -> [ref : Nat, persistent : BOOLEAN]]
  BY <1>1 DEF RulesOf
<1>3. /\ prefixes' \in [DOMAIN prefixes -> [ref : Nat, persistent : BOOLEAN]]
      /\ DOMAIN prefixes' = DOMAIN prefixes
      /\ \A q \in DOMAIN prefixes : prefixes'[q].ref = prefixes[q].ref
  BY <1>1, <1>2
<1>4. RulesOf(prefixes', active')
  BY <1>1, <1>3 DEF RulesOf
<1> QED
  BY <1>1, <1>3, <1>4 DEF MapSound

-----------------------------------------------------------------------------
(* Rules that come and go                                                    *)

\* A prefix with its addresses comes to the others.
LEMMA PrefixComes ==
    ASSUME D!MapConstants, MapSound, NEW p \in Prefix \ DOMAIN prefixes,
           NEW e, e = [d \in DOMAIN entry \cup D!Range(Pool[p]) |->
                        IF d \in DOMAIN entry THEN entry[d] ELSE D!Free(now)]
    PROVE  BindingsOf(DOMAIN prefixes \cup {p}, e, hashed, D!Add(lru, p, Pool[p]))
<1> DEFINE P == DOMAIN prefixes
           U == D!Free(now)
           Q == P \cup {p}
           m == D!Add(lru, p, Pool[p])
<1>1. P \in SUBSET Prefix /\ BindingsOf(P, entry, hashed, lru) /\ now \in Nat /\ p \notin P
  BY DEF MapSound, RulesOf
<1>2. DOMAIN entry = Addresses(P) /\ Addresses(Q) = Addresses(P) \cup D!Range(Pool[p])
  BY <1>1 DEF BindingsOf, Addresses
<1>3. U \in D!Binding /\ U.prenat = Nobody /\ ~U.static
  BY <1>1 DEF D!Free, D!Binding
<1>4. /\ e \in [Addresses(Q) -> D!Binding]
      /\ \A d \in Addresses(P) : d \in Addresses(Q) /\ e[d] = entry[d]
      /\ \A d \in Addresses(Q) \ Addresses(P) : e[d] = U
  <2> HIDE DEF U
  <2> QED
    BY <1>1, <1>2, <1>3 DEF BindingsOf, U
<1>5. \A d \in D!Range(Pool[p]) : d \notin Addresses(P) /\ d \in Addresses(Q)
  BY <1>1, <1>2 DEF Addresses, D!MapConstants
<1>6. Pool[p] \in Seq(D!Slots) /\ D!IsInjective(Pool[p])
  BY DEF D!MapConstants
<1>7. m \in [Q -> Seq(D!Slots)] /\ m[p] = Pool[p] /\ \A q \in P : m[q] = lru[q]
  BY <1>1, <1>6 DEF D!Add, BindingsOf
<1> HIDE DEF U, Q, m
<1>8. hashed = {d \in Addresses(Q) : e[d].prenat # Nobody}
  BY <1>1, <1>3, <1>4 DEF BindingsOf
<1>9. \A c, d \in hashed : e[c].prenat = e[d].prenat => c = d
  BY <1>1, <1>4 DEF BindingsOf
<1>10. ASSUME NEW q \in Q
       PROVE  D!IsInjective(m[q]) /\ D!Range(m[q]) = {d \in D!Range(Pool[q]) : ~e[d].static}
  <2>1. CASE q = p
    <3>1. \A d \in D!Range(Pool[p]) : ~e[d].static
      BY <1>3, <1>4, <1>5
    <3> QED
      BY <1>6, <1>7, <2>1, <3>1
  <2>2. CASE q # p
    <3>1. q \in P /\ \A d \in D!Range(Pool[q]) : d \in Addresses(P)
      BY <2>2 DEF Q, Addresses
    <3> QED
      BY <1>1, <1>4, <1>7, <3>1 DEF BindingsOf
  <2> QED
    BY <2>1, <2>2
<1>11. \A d \in Addresses(Q) : e[d].static => e[d].prenat # Nobody
  BY <1>1, <1>3, <1>4 DEF BindingsOf
<1>12. BindingsOf(Q, e, hashed, m)
  BY <1>4, <1>7, <1>8, <1>9, <1>10, <1>11 DEF BindingsOf
<1> QED
  BY <1>12 DEF Q, m

\* dnetmap_tg_check
LEMMA CheckKeeps ==
    ASSUME D!MapConstants, MapSound, NEW r \in Rules, D!Check(r)
    PROVE  MapSound'
<1> DEFINE p == r.prefix
           f == prefixes
           R == active
           g == prefixes'
           N(Q, q) == {x \in Q : x.prefix = q}
<1>1. /\ r \notin R /\ active' = R \cup {r} /\ now' = now /\ hashed' = hashed /\ p \in Prefix
      /\ RulesOf(f, R) /\ BindingsOf(DOMAIN f, entry, hashed, lru)
  BY DEF D!Check, MapSound, D!MapConstants
<1>2. /\ IsFiniteSet(R) /\ IsFiniteSet(R \cup {r}) /\ R \cup {r} \subseteq Rules
      /\ \A q \in DOMAIN f : f[q].ref = Cardinality(N(R, q))
      /\ \A x \in R : x.prefix \in DOMAIN f
      /\ f \in [DOMAIN f -> [ref : Nat, persistent : BOOLEAN]] /\ DOMAIN f \subseteq Prefix
  BY <1>1, FS_AddElement DEF RulesOf
<1>3. IsFiniteSet(N(R, p)) /\ Cardinality(N(R \cup {r}, p)) = Cardinality(N(R, p)) + 1
  <2>1. N(R, p) \subseteq R /\ r \notin N(R, p) /\ N(R \cup {r}, p) = N(R, p) \cup {r}
    BY <1>1
  <2>2. IsFiniteSet(N(R, p))
    BY <1>2, <2>1, FS_Subset
  <2> HIDE DEF N
  <2> QED
    BY <2>1, <2>2, FS_AddElement
<1>4. \A q : q # p => N(R \cup {r}, q) = N(R, q)
  OBVIOUS
<1>5. CASE p \in DOMAIN f
  <2>1. g = [f EXCEPT ![p].ref = f[p].ref + 1] /\ UNCHANGED <<entry, lru>>
    BY <1>5 DEF D!Check, D!Exists
  <2>2. /\ g \in [DOMAIN f -> [ref : Nat, persistent : BOOLEAN]] /\ DOMAIN g = DOMAIN f
        /\ g[p].ref = f[p].ref + 1 /\ \A q \in DOMAIN f \ {p} : g[q] = f[q]
    BY <1>2, <1>5, <2>1
  <2>3. \A q \in DOMAIN f : g[q].ref = Cardinality(N(R \cup {r}, q))
    <3> HIDE DEF N, f, g
    <3> QED
      BY <1>2, <1>3, <1>4, <1>5, <2>2
  <2>4. \A x \in R \cup {r} : x.prefix \in DOMAIN f
    BY <1>2, <1>5
  <2>5. RulesOf(g, R \cup {r})
    BY <1>2, <2>2, <2>3, <2>4 DEF RulesOf
  <2> QED
    BY <1>1, <2>1, <2>2, <2>5 DEF MapSound
<1>6. CASE p \notin DOMAIN f
  <2>1. /\ g = D!Add(f, p, [ref |-> 1, persistent |-> "PERSISTENT" \in r.flags])
        /\ entry' = [d \in DOMAIN entry \cup D!Range(Pool[p]) |->
                      IF d \in DOMAIN entry THEN entry[d] ELSE D!Free(now)]
        /\ lru' = D!Add(lru, p, Pool[p])
    BY <1>6 DEF D!Check, D!Exists
  <2>2. /\ g \in [DOMAIN f \cup {p} -> [ref : Nat, persistent : BOOLEAN]]
        /\ DOMAIN g = DOMAIN f \cup {p}
        /\ g[p].ref = 1 /\ \A q \in DOMAIN f : g[q] = f[q]
    BY <1>2, <1>6, <2>1 DEF D!Add
  <2>3. Cardinality(N(R, p)) = 0
    <3>1. N(R, p) = {}
      BY <1>2, <1>6
    <3> QED
      BY <3>1, FS_EmptySet
  <2>4. \A q \in DOMAIN g : g[q].ref = Cardinality(N(R \cup {r}, q))
    <3>1. g[p].ref = Cardinality(N(R \cup {r}, p))
      <4> HIDE DEF N, f, g, p
      <4> QED
        BY <1>3, <2>2, <2>3
    <3> HIDE DEF N, f, g, p
    <3> QED
      BY <1>2, <1>4, <1>6, <2>2, <3>1
  <2>5. \A x \in R \cup {r} : x.prefix \in DOMAIN g
    BY <1>2, <2>2
  <2>6. RulesOf(g, R \cup {r})
    BY <1>1, <1>2, <2>2, <2>4, <2>5 DEF RulesOf
  <2>7. BindingsOf(DOMAIN f \cup {p}, entry', hashed, lru')
    BY <1>1, <1>6, <2>1, PrefixComes
  <2> QED
    BY <1>1, <2>2, <2>6, <2>7 DEF MapSound
<1> QED
  BY <1>5, <1>6

\* A prefix goes with its addresses.
LEMMA PrefixGoes ==
    ASSUME D!MapConstants, MapSound, NEW p \in DOMAIN prefixes
    PROVE  BindingsOf(DOMAIN prefixes \ {p}, D!Less(entry, D!Range(Pool[p])),
                      hashed \ D!Range(Pool[p]), D!Less(lru, {p}))
<1> DEFINE P == DOMAIN prefixes
           Q == P \ {p}
           e == D!Less(entry, D!Range(Pool[p]))
           h == hashed \ D!Range(Pool[p])
           m == D!Less(lru, {p})
<1>1. P \in SUBSET Prefix /\ BindingsOf(P, entry, hashed, lru)
  BY DEF MapSound, RulesOf
<1>2. Addresses(Q) = Addresses(P) \ D!Range(Pool[p])
  <2>1. \A q \in Q : D!Range(Pool[q]) \cap D!Range(Pool[p]) = {}
    BY <1>1 DEF D!MapConstants
  <2> QED
    BY <2>1 DEF Addresses
<1>3. /\ e \in [Addresses(Q) -> D!Binding]
      /\ \A d \in Addresses(Q) : d \in Addresses(P) /\ e[d] = entry[d]
  BY <1>1, <1>2 DEF BindingsOf, D!Less
<1>4. m \in [Q -> Seq(D!Slots)] /\ \A q \in Q : m[q] = lru[q]
  BY <1>1 DEF BindingsOf, D!Less
<1> HIDE DEF e, m
<1>5. h = {d \in Addresses(Q) : e[d].prenat # Nobody}
  BY <1>1, <1>2, <1>3 DEF BindingsOf
<1>6. \A c, d \in h : e[c].prenat = e[d].prenat => c = d
  BY <1>1, <1>3, <1>5 DEF BindingsOf
<1>7. ASSUME NEW q \in Q
      PROVE  D!IsInjective(m[q]) /\ D!Range(m[q]) = {d \in D!Range(Pool[q]) : ~e[d].static}
  <2>1. \A d \in D!Range(Pool[q]) : d \in Addresses(Q) /\ e[d] = entry[d]
    BY <1>3 DEF Addresses
  <2>2. q \in P /\ m[q] = lru[q]
    BY <1>4
  <2>3. D!IsInjective(lru[q]) /\ D!Range(lru[q]) = {d \in D!Range(Pool[q]) : ~entry[d].static}
    BY <1>1, <2>2 DEF BindingsOf
  <2> QED
    BY <2>1, <2>2, <2>3
<1>8. \A d \in Addresses(Q) : e[d].static => e[d].prenat # Nobody
  BY <1>1, <1>3 DEF BindingsOf
<1>9. BindingsOf(Q, e, h, m)
  BY <1>3, <1>4, <1>5, <1>6, <1>7, <1>8 DEF BindingsOf
<1> QED
  BY <1>9 DEF Q, e, h, m

\* dnetmap_tg_destroy
LEMMA DestroyKeeps ==
    ASSUME D!MapConstants, MapSound, NEW r \in Rules, D!Destroy(r)
    PROVE  MapSound'
<1> DEFINE p == r.prefix
           f == prefixes
           R == active
           g == prefixes'
           N(Q, q) == {x \in Q : x.prefix = q}
<1>1. /\ r \in R /\ active' = R \ {r} /\ now' = now
      /\ RulesOf(f, R) /\ BindingsOf(DOMAIN f, entry, hashed, lru)
  BY DEF D!Destroy, MapSound
<1>2. /\ IsFiniteSet(R) /\ IsFiniteSet(R \ {r}) /\ R \ {r} \subseteq Rules
      /\ \A q \in DOMAIN f : f[q].ref = Cardinality(N(R, q))
      /\ \A x \in R : x.prefix \in DOMAIN f
      /\ f \in [DOMAIN f -> [ref : Nat, persistent : BOOLEAN]] /\ DOMAIN f \subseteq Prefix
      /\ p \in DOMAIN f
  BY <1>1, FS_RemoveElement DEF RulesOf
<1>3. /\ IsFiniteSet(N(R \ {r}, p)) /\ Cardinality(N(R \ {r}, p)) \in Nat
      /\ Cardinality(N(R \ {r}, p)) = f[p].ref - 1
  <2>1. N(R, p) \subseteq R /\ r \in N(R, p) /\ N(R \ {r}, p) = N(R, p) \ {r}
    BY <1>1
  <2>2. IsFiniteSet(N(R, p)) /\ f[p].ref = Cardinality(N(R, p))
    BY <1>2, <2>1, FS_Subset
  <2>3. /\ IsFiniteSet(N(R, p) \ {r})
        /\ Cardinality(N(R, p) \ {r}) =
             IF r \in N(R, p) THEN Cardinality(N(R, p)) - 1 ELSE Cardinality(N(R, p))
    <3> HIDE DEF N, p
    <3> QED
      BY <2>2, FS_RemoveElement
  <2>4. Cardinality(N(R, p) \ {r}) \in Nat
    <3> HIDE DEF N, p
    <3> QED
      BY <2>3, FS_CardinalityType
  <2> HIDE DEF N, p, f
  <2> QED
    BY <2>1, <2>2, <2>3, <2>4
<1>4. \A q : q # p => N(R \ {r}, q) = N(R, q)
  OBVIOUS
<1>5. CASE f[p].ref = 1 /\ ~f[p].persistent
  <2>1. D!PrefixDestroy(p)
    BY <1>5 DEF D!Destroy
  <2>2. g = D!Less(f, {p})
    BY <2>1 DEF D!PrefixDestroy
  <2>3. /\ g \in [DOMAIN f \ {p} -> [ref : Nat, persistent : BOOLEAN]]
        /\ DOMAIN g = DOMAIN f \ {p} /\ \A q \in DOMAIN g : g[q] = f[q]
    BY <1>2, <2>2 DEF D!Less
  <2>4. N(R \ {r}, p) = {}
    <3> HIDE DEF N
    <3> QED
      BY <1>3, <1>5, FS_EmptySet
  <2>5. \A q \in DOMAIN g : g[q].ref = Cardinality(N(R \ {r}, q))
    <3> HIDE DEF N, f, g
    <3> QED
      BY <1>2, <1>4, <2>3
  <2>6. \A x \in R \ {r} : x.prefix \in DOMAIN g
    BY <1>2, <2>3, <2>4
  <2>7. RulesOf(g, R \ {r})
    BY <1>2, <2>3, <2>5, <2>6 DEF RulesOf
  <2>8. BindingsOf(DOMAIN g, entry', hashed', lru')
    BY <1>2, <2>1, <2>3, PrefixGoes DEF D!PrefixDestroy
  <2> QED
    BY <1>1, <2>7, <2>8 DEF MapSound
<1>6. CASE ~(f[p].ref = 1 /\ ~f[p].persistent)
  <2>1. g = [f EXCEPT ![p].ref = f[p].ref - 1] /\ UNCHANGED <<entry, hashed, lru>>
    BY <1>6 DEF D!Destroy
  <2>2. DOMAIN g = DOMAIN f /\ g[p].ref = f[p].ref - 1 /\ \A q \in DOMAIN f \ {p} : g[q] = f[q]
    BY <1>2, <2>1
  <2>3. g \in [DOMAIN f -> [ref : Nat, persistent : BOOLEAN]]
    <3>1. f[p].ref - 1 \in Nat
      BY <1>3
    <3> QED
      BY <1>2, <2>1, <3>1
  <2>4. \A q \in DOMAIN g : g[q].ref = Cardinality(N(R \ {r}, q))
    <3> HIDE DEF N, f, g
    <3> QED
      BY <1>2, <1>3, <1>4, <2>2
  <2>5. RulesOf(g, R \ {r})
    BY <1>2, <2>2, <2>3, <2>4 DEF RulesOf
  <2> QED
    BY <1>1, <2>1, <2>2, <2>5 DEF MapSound
<1> QED
  BY <1>5, <1>6

-----------------------------------------------------------------------------
\* No prefix, no rule: nothing is bound.
LEMMA MapInit0 == D!MapConstants /\ D!MapInit => D!MapIInv
<1> SUFFICES ASSUME D!MapConstants, D!MapInit
             PROVE  MapSound /\ ~broken
  BY SoundIsInvariant
<1>1. DOMAIN prefixes = {} /\ DOMAIN lru = {} /\ DOMAIN entry = {} /\ Addresses({}) = {}
  BY DEF D!MapInit, Addresses
<1>2. RulesOf(prefixes, active)
  BY <1>1, FS_EmptySet DEF RulesOf, D!MapInit
<1>3. BindingsOf(DOMAIN prefixes, entry, hashed, lru)
  BY <1>1 DEF BindingsOf, D!MapInit
<1> QED
  BY <1>2, <1>3 DEF MapSound, D!MapInit

\* xt_DNETMAP.c: the inductive invariant, and what a packet leaves alone.
LEMMA MapSteps ==
    ASSUME D!MapConstants, D!MapIInv, [D!MapNext]_mapVars
    PROVE  D!MapIInv' /\ (D!MapNext => D!LiveBindingsKept)
<1>1. CASE UNCHANGED mapVars
  <2>1. D!MapIInv'
    BY <1>1 DEF D!MapIInv, D!MapStateOK, D!BindingsOneToOne, D!Exists, mapVars
  <2>2. D!LiveBindingsKept
    BY <1>1 DEF D!LiveBindingsKept, mapVars
  <2> QED
    BY <2>1, <2>2
<1>2. CASE D!MapNext
  <2>1. MapSound /\ ~broken
    BY <1>2, InvariantIsSound DEF D!MapNext
  <2>2. ASSUME NEW x, NEW r \in Rules, D!PreRouting(x, r.ttl)
        PROVE  MapSound' /\ D!LiveBindingsKept
    BY <2>1, <2>2, PreRoutingKeeps DEF D!LiveBindingsKept
  <2>3. ASSUME NEW a \in Inside, NEW r \in Rules, D!PostRouting(a, r)
        PROVE  (~broken' => MapSound') /\ D!LiveBindingsKept
    BY <2>1, <2>3, PostRoutingKeeps DEF D!LiveBindingsKept
  <2>4. D!LiveBindingsKept
    BY <2>2, <2>3 DEF D!LiveBindingsKept, D!Packet
  <2>5. ASSUME NEW r \in Rules, D!Check(r) \/ D!Destroy(r)
        PROVE  MapSound'
    BY <2>1, <2>5, CheckKeeps, DestroyKeeps
  <2>6. ASSUME NEW p \in Prefix, ~broken',
               \/ D!SoftFlush(p)
               \/ \E persistent \in BOOLEAN : D!SetPersistent(p, persistent)
               \/ \E x \in Inside \cup D!Outside : D!Unbind(p, x)
        PROVE  MapSound'
    BY <2>1, <2>6, SoftFlushKeeps, SetPersistentKeeps, UnbindKeeps
  <2>7. ASSUME NEW p \in Prefix, NEW a \in Inside, NEW x, D!AddStatic(p, a, x), ~broken'
        PROVE  MapSound'
    BY <2>1, <2>7, AddStaticKeeps
  <2>8. ASSUME D!Jiffy
        PROVE  MapSound'
    BY <2>1, <2>8 DEF D!Jiffy, MapSound
  <2>9. ~broken' => MapSound'
    BY <1>2, <2>2, <2>3, <2>5, <2>6, <2>7, <2>8 DEF D!MapNext, D!Packet
  <2>10. MapSound' /\ ~broken' => D!MapIInv'
    <3>1. D!MapConstants' = D!MapConstants
      BY DEF D!MapConstants
    <3>2. D!MapConstants' /\ MapSound' /\ ~broken' => D!MapIInv'
      BY SoundIsInvariant, PTL
    <3> QED
      BY <3>1, <3>2
  <2>11. D!MapIInv'
    BY <2>9, <2>10 DEF D!MapIInv
  <2> QED
    BY <2>4, <2>11
<1> QED
  BY <1>1, <1>2

-----------------------------------------------------------------------------
(* The extensions together                                                   *)

AllSound == K!KnockIInv /\ S!PsdIInv /\ D!MapIInv

\* The invariants of the three hold at first, whichever extension runs.
LEMMA AtFirst == NetfilterInit => AllSound
<1>1. NetfilterInit => K!KnockInit /\ D!MapInit /\ S!PsdInit
  BY DEF NetfilterInit
<1>2. K!KnockInit => K!KnockIInv
  BY KnockConstants, InitStep
<1>3. S!PsdInit => S!PsdIInv
  BY PsdConstants, PsdInit0
<1>4. D!MapInit => D!MapIInv
  BY MapConstants, MapInit0
<1> QED
  BY <1>1, <1>2, <1>3, <1>4 DEF AllSound

\* An extension takes the steps of its own, or none.
LEMMA OneAtATime ==
    ASSUME NetfilterNext
    PROVE  /\ [K!KnockNext]_knockVars /\ [S!PsdNext]_psdVars /\ [D!MapNext]_mapVars
           /\ part' = part
           /\ part = "knock" => K!KnockNext
           /\ part = "psd" => S!PsdNext
           /\ part = "map" => D!MapNext
<1>1. CASE KnockOnly
  BY <1>1 DEF KnockOnly
<1>2. CASE AccountOnly
  BY <1>2 DEF AccountOnly
<1>3. CASE MapOnly
  BY <1>3 DEF MapOnly
<1>4. CASE PsdOnly
  BY <1>4 DEF PsdOnly
<1>5. CASE OptionsOnly
  BY <1>5 DEF OptionsOnly
<1>6. CASE SpreadOnly
  BY <1>6 DEF SpreadOnly
<1>7. CASE SharedOnly
  BY <1>7 DEF SharedOnly
<1>8. CASE DecoyOnly
  BY <1>8 DEF DecoyOnly
<1> QED
  BY <1>1, <1>2, <1>3, <1>4, <1>5, <1>6, <1>7, <1>8 DEF NetfilterNext

\* Every step keeps them, and judges as meant.
LEMMA AllKept ==
    ASSUME AllSound, NetfilterNext
    PROVE  AllSound' /\ Verdict
<1>1. /\ [K!KnockNext]_knockVars /\ [S!PsdNext]_psdVars /\ [D!MapNext]_mapVars
      /\ part = "knock" => K!KnockNext
      /\ part = "psd" => S!PsdNext
      /\ part = "map" => D!MapNext
  BY OneAtATime
<1>2. K!KnockIInv' /\ K!KnockedInOrder
  BY <1>1, KnockConstants, EveryStep DEF AllSound
<1>3. S!PsdIInv' /\ S!ScansAreScans
  BY <1>1, PsdConstants, PsdSteps DEF AllSound
<1>4. D!MapIInv' /\ (D!MapNext => D!LiveBindingsKept)
  BY <1>1, MapConstants, MapSteps DEF AllSound
<1>5. Verdict
  BY <1>1, <1>2, <1>3, <1>4 DEF Verdict
<1> QED
  BY <1>2, <1>3, <1>4, <1>5 DEF AllSound

\* So does a step that changes nothing.
LEMMA AllUnchanged == AllSound /\ UNCHANGED vars => AllSound'
<1> SUFFICES ASSUME AllSound, UNCHANGED vars PROVE AllSound'
  OBVIOUS
<1>1. /\ [K!KnockNext]_knockVars /\ [S!PsdNext]_psdVars /\ [D!MapNext]_mapVars
  BY DEF vars
<1> QED
  BY <1>1, KnockConstants, PsdConstants, MapConstants, EveryStep, PsdSteps, MapSteps DEF AllSound

\* The inductive invariants of the three hold always.
LEMMA AlwaysSound == NetfilterSpec => []AllSound
<1>1. NetfilterInit => AllSound
  BY AtFirst
<1>2. AllSound /\ [NetfilterNext]_vars => AllSound'
  BY AllKept, AllUnchanged
<1> QED
  BY <1>1, <1>2, PTL DEF NetfilterSpec

\* xt_pknock.c, xt_psd.c, xt_DNETMAP.c, the verdicts: who is let in has knocked in
\* order, who is said to scan has tried ports enough, and no packet takes an
\* address from a binding that is alive or static.
THEOREM VerdictsAreMeant == NetfilterSpec => JudgedAsMeant
<1>1. AllSound /\ [NetfilterNext]_vars => [Verdict]_vars
  BY AllKept
<1> QED
  BY <1>1, AlwaysSound, PTL DEF NetfilterSpec, JudgedAsMeant

\* xt_pknock.c, add_rule and remove_rule: the state of a rule's name is there as
\* long as an iptables rule has the name, and counts those rules; the peers are of
\* addresses, none newer than the clock, none past the last place a rule can have.
THEOREM RulesAreCounted == NetfilterSpec => [](K!KnockTypeOK /\ K!RuleCounted)
<1>1. AllSound => K!KnockTypeOK /\ K!RuleCounted
  BY KnockConstants, KnockTypes DEF AllSound, K!KnockIInv
<1> QED
  BY <1>1, AlwaysSound, PTL

\* xt_psd.c, ht_unlink and remove_oldest: every chain of the hash table ends, is no
\* longer than the list, and holds the entries of addresses of its value, each once,
\* though the entries are used again in turn.
THEOREM ChainsEnd == NetfilterSpec => []S!ChainsSound
<1>1. AllSound => S!ChainsSound
  BY PsdConstants, PsdSound DEF AllSound
<1> QED
  BY <1>1, AlwaysSound, PTL

\* xt_DNETMAP.c: until something is broken through the file of a prefix, bindings
\* are one to one, the hash tables hold the bound entries and no other, the list of
\* a prefix every entry of it that is not static, once, and a prefix counts the
\* rules that name it.
THEOREM BindingsStayOneToOne == NetfilterSpec => []D!BindingsOneToOne
<1>1. AllSound => D!BindingsOneToOne
  BY DEF AllSound, D!MapIInv, D!BindingsOneToOne
<1> QED
  BY <1>1, AlwaysSound, PTL
=============================================================================
