------------------------------ MODULE DataProofs -----------------------------
(***************************************************************************)
(* Proofs about the two data structures of a database. First the constant    *)
(* database, for every hash function, any number of tables and records and   *)
(* any size of a file: the tables that cdb_make_finish builds lead every      *)
(* search past the records of its key, in the order they were added, so that *)
(* the database is a multimap. Then the geo maps, for any number of           *)
(* addresses, countries and requests: do_chunk cuts a range into the fewest   *)
(* blocks, and ipdb_get gives an address a place it was meant to have.        *)
(***************************************************************************)
EXTENDS MCData, OrderProofs, FunctionTheorems

-----------------------------------------------------------------------------
(* Remainders                                                               *)

LEMMA Division ==
    ASSUME NEW a \in Nat, NEW b \in Nat \ {0}
    PROVE  a \div b \in Nat /\ a % b \in 0 .. b - 1
OBVIOUS

LEMMA OneTurn ==
    ASSUME NEW b \in Nat \ {0}, NEW a \in b .. 2 * b - 1
    PROVE  a % b = a - b
OBVIOUS

LEMMA NoTurn ==
    ASSUME NEW b \in Nat \ {0}, NEW a \in 0 .. b - 1
    PROVE  a % b = a
OBVIOUS

\* posplus: a position that is given out is the true one.
LEMMA PosPlusFacts ==
    ASSUME NEW p \in 0 .. Limit - 1, NEW n \in Nat
    PROVE  /\ PosPlus(p, n) \in -1 .. Limit - 1
           /\ PosPlus(p, n) # -1 => PosPlus(p, n) = p + n
<1>0. Limit \in Nat \ {0}
  BY CdbConstants
<1>1. (p + n) % Limit \in 0 .. Limit - 1
  BY <1>0, Division
<1>2. CASE n >= Limit
  BY <1>0, <1>1, <1>2 DEF PosPlus
<1>3. CASE n < Limit /\ p + n < Limit
  <2>1. (p + n) % Limit = p + n
    BY <1>0, <1>3, NoTurn
  <2> QED
    BY <1>0, <1>3, <2>1 DEF PosPlus
<1>4. CASE n < Limit /\ p + n >= Limit
  <2>1. (p + n) % Limit = p + n - Limit
    <3>1. p + n \in Limit .. 2 * Limit - 1
      BY <1>0, <1>4
    <3> QED
      BY <1>0, <3>1, OneTurn
  <2>2. p + n - Limit < n
    BY <1>0
  <2>3. PosPlus(p, n) = -1
    BY <2>1, <2>2 DEF PosPlus
  <2> QED
    BY <1>0, <2>3
<1> QED
  BY <1>0, <1>2, <1>3, <1>4

-----------------------------------------------------------------------------
(* The walk over the slots of a table                                        *)

\* From any slot on, len steps come to every slot once.
LEMMA NthFacts ==
    ASSUME NEW h \in Nat, NEW len \in Nat \ {0}
    PROVE  /\ \A i \in 0 .. len : Nth(h, i, len) \in 1 .. len
           /\ \A u \in 1 .. len : \E i \in 0 .. len - 1 : Nth(h, i, len) = u
           /\ \A i, j \in 0 .. len - 1 : Nth(h, i, len) = Nth(h, j, len) => i = j
           /\ \A i \in 0 .. len - 1 :
                Nth(h, i + 1, len) = IF Nth(h, i, len) = len THEN 1 ELSE Nth(h, i, len) + 1
<1> DEFINE f == FirstSlot(h, len)
<1>1. f \in 0 .. len - 1
  <2>1. Tables \in Nat \ {0}
    BY CdbConstants
  <2>2. h \div Tables \in Nat
    BY <2>1, Division
  <2> QED
    BY <2>2, Division DEF FirstSlot
<1>2. \A i \in Nat : Nth(h, i, len) = 1 + (IF f + i < len THEN f + i ELSE f + i - len)
  BY <1>1 DEF Nth
<1> HIDE DEF f
<1>3. \A i \in 0 .. len : Nth(h, i, len) \in 1 .. len
  BY <1>1, <1>2
<1>4. ASSUME NEW u \in 1 .. len
      PROVE  \E i \in 0 .. len - 1 : Nth(h, i, len) = u
  <2>1. CASE u - 1 >= f
    <3>1. u - 1 - f \in 0 .. len - 1 /\ f + (u - 1 - f) < len /\ 1 + (f + (u - 1 - f)) = u
      BY <1>1, <2>1
    <3> QED
      BY <1>2, <3>1
  <2>2. CASE u - 1 < f
    <3>1. /\ u - 1 - f + len \in 0 .. len - 1 /\ ~(f + (u - 1 - f + len) < len)
          /\ 1 + (f + (u - 1 - f + len) - len) = u
      BY <1>1, <2>2
    <3> QED
      BY <1>2, <3>1
  <2> QED
    BY <1>1, <2>1, <2>2
<1>5. \A i, j \in 0 .. len - 1 : Nth(h, i, len) = Nth(h, j, len) => i = j
  BY <1>1, <1>2
<1>6. ASSUME NEW i \in 0 .. len - 1
      PROVE  Nth(h, i + 1, len) = IF Nth(h, i, len) = len THEN 1 ELSE Nth(h, i, len) + 1
  BY <1>1, <1>2
<1> QED
  BY <1>3, <1>4, <1>5, <1>6

-----------------------------------------------------------------------------
(* Filling a table                                                          *)

HashPointer == [h : Nat, p : Nat]
Written == [h : Nat, p : Nat \ {0}]

\* The first n pointers of q lie in s, the one from the same slot on that came
\* later behind the other; place[i] says how far from its first slot.
Lay(s, q, n, len, place) ==
    /\ s \in [1 .. len -> HashPointer]
    /\ place \in [1 .. n -> 0 .. len - 1]
    /\ \A i \in 1 .. n : s[Nth(q[i].h, place[i], len)] = q[i]
    /\ \A i \in 1 .. n : \A j \in 0 .. place[i] - 1 : s[Nth(q[i].h, j, len)].p # 0
    /\ \A u \in 1 .. len : s[u].p # 0 => \E i \in 1 .. n : u = Nth(q[i].h, place[i], len)
    /\ \A i, j \in 1 .. n : i < j /\ q[i].h = q[j].h => place[i] < place[j]

AllWritten(q, n) == \A i \in 1 .. n : q[i] \in Written

\* There is a free slot as long as there are more slots than pointers.
LEMMA FreeSlot ==
    ASSUME NEW n \in Nat, NEW len \in Nat, n < len, NEW q, AllWritten(q, n),
           NEW s, NEW place, Lay(s, q, n, len, place)
    PROVE  \E u \in 1 .. len : s[u].p = 0
<1> DEFINE Full == {u \in 1 .. len : s[u].p # 0}
           f == [i \in 1 .. n |-> Nth(q[i].h, place[i], len)]
<1>1. \A i \in 1 .. n : Nth(q[i].h, place[i], len) \in Full
  <2> TAKE i \in 1 .. n
  <2>1. q[i].h \in Nat /\ q[i].p # 0
    BY DEF Written, AllWritten
  <2>2. place[i] \in 0 .. len - 1 /\ s[Nth(q[i].h, place[i], len)] = q[i]
    BY DEF Lay
  <2>3. Nth(q[i].h, place[i], len) \in 1 .. len
    <3>1. len \in Nat \ {0} /\ place[i] \in 0 .. len
      BY <2>2
    <3> QED
      BY <2>1, <3>1, NthFacts
  <2> QED
    BY <2>1, <2>2, <2>3
<1>2. \A u \in Full : \E i \in 1 .. n : u = Nth(q[i].h, place[i], len)
  BY DEF Lay
<1>3. f \in Surjection(1 .. n, Full)
  <2>1. f \in [1 .. n -> Full] /\ \A i \in 1 .. n : f[i] = Nth(q[i].h, place[i], len)
    BY <1>1
  <2> HIDE DEF f, Full
  <2> QED
    BY <1>2, <2>1 DEF Surjection
<1>4. IsFiniteSet(1 .. n) /\ Cardinality(1 .. n) = n
  BY FS_Interval
<1>5. Cardinality(Full) <= n
  BY <1>3, <1>4, FS_Surjection
<1>6. Cardinality(1 .. len) = len
  BY FS_Interval
<1>7. Full # 1 .. len
  <2> HIDE DEF Full
  <2> QED
    BY <1>5, <1>6
<1> QED
  BY <1>7

\* A pointer put in the first free slot.
LEMMA PlaceInFacts ==
    ASSUME NEW n \in Nat, NEW len \in Nat, n < len, NEW q, \A i \in 1 .. n + 1 : q[i] \in Written,
           NEW s, NEW place, Lay(s, q, n, len, place)
    PROVE  \E next : Lay(PlaceIn(s, q[n + 1]), q, n + 1, len, next)
<1> DEFINE hp == q[n + 1]
           Free(i) == /\ s[Nth(hp.h, i, len)].p = 0
                      /\ \A j \in 0 .. i - 1 : s[Nth(hp.h, j, len)].p # 0
           d == CHOOSE i \in 0 .. len - 1 : Free(i)
           w == Nth(hp.h, d, len)
           t == PlaceIn(s, hp)
           next == [i \in 1 .. n + 1 |-> IF i = n + 1 THEN d ELSE place[i]]
<1>1. hp \in Written /\ hp.h \in Nat /\ hp.p # 0 /\ len \in Nat \ {0}
  BY DEF Written
<1>2. \A i \in 1 .. n : q[i] \in Written /\ q[i].h \in Nat /\ i \in 1 .. n + 1 /\ i # n + 1
  BY DEF Written
<1>3. d \in 0 .. len - 1 /\ Free(d)
  <2>1. \E u \in 1 .. len : s[u].p = 0
    <3>1. AllWritten(q, n)
      BY <1>2 DEF AllWritten
    <3> QED
      BY <3>1, FreeSlot
  <2>2. \E i \in 0 .. len - 1 : s[Nth(hp.h, i, len)].p = 0
    <3>1. PICK u \in 1 .. len : s[u].p = 0
      BY <2>1
    <3> DEFINE h == hp.h
    <3>2. h \in Nat
      BY <1>1
    <3> HIDE DEF hp, h
    <3>3. \E i \in 0 .. len - 1 : Nth(h, i, len) = u
      BY <1>1, <3>2, NthFacts
    <3>4. PICK i \in 0 .. len - 1 : Nth(hp.h, i, len) = u
      BY <3>3 DEF h
    <3> QED
      BY <3>1, <3>4
  <2> DEFINE E == {i \in 0 .. len - 1 : s[Nth(hp.h, i, len)].p = 0}
  <2>3. E # {} /\ E \in SUBSET Nat /\ E \in SUBSET (0 .. len - 1)
    BY <2>2
  <2>4. IsFiniteSet(E)
    <3>1. IsFiniteSet(0 .. len - 1)
      BY FS_Interval
    <3> QED
      BY <2>3, <3>1, FS_Subset
  <2>5. PICK i \in E : \A k \in E : i <= k
    BY <2>3, <2>4, Least
  <2>6. \A j \in 0 .. i - 1 : j \in 0 .. len - 1 /\ ~(i <= j)
    BY <2>5
  <2>7. i \in 0 .. len - 1 /\ Free(i)
    BY <2>5, <2>6
  <2> QED
    BY <2>7
<1>4. DOMAIN s = 1 .. len /\ s \in [1 .. len -> HashPointer] /\ Len(s) = len
  <2>1. s \in [1 .. len -> HashPointer]
    BY DEF Lay
  <2>2. s \in Seq(HashPointer) /\ DOMAIN s = 1 .. len
    BY <2>1
  <2> QED
    BY <2>1, <2>2
<1>5. t = [s EXCEPT ![w] = hp] /\ w \in 1 .. len
  <2>1. w \in 1 .. len
    <3>1. d \in 0 .. len
      <4>1. 0 .. len - 1 \subseteq 0 .. len
        BY <1>1
      <4> QED
        BY <1>3, <4>1
    <3> HIDE DEF d, hp
    <3> QED
      BY <1>1, <3>1, NthFacts
  <2> QED
    BY <1>4, <2>1 DEF PlaceIn
<1>6. s[w].p = 0 /\ \A j \in 0 .. d - 1 : s[Nth(hp.h, j, len)].p # 0
  BY <1>3
<1> HIDE DEF d, w, t, hp
<1>7. /\ t \in [1 .. len -> HashPointer] /\ t[w] = hp
      /\ \A u \in 1 .. len : u # w => t[u] = s[u]
  BY <1>1, <1>4, <1>5 DEF Written, HashPointer
<1>8. next \in [1 .. n + 1 -> 0 .. len - 1]
  BY <1>3 DEF Lay
<1>9. next[n + 1] = d /\ \A i \in 1 .. n : next[i] = place[i] /\ place[i] \in 0 .. len - 1
  BY <1>2 DEF Lay
<1> HIDE DEF next
<1>10. \A i \in 1 .. n + 1 : i = n + 1 \/ i \in 1 .. n
  OBVIOUS
<1>11. \A u \in 1 .. len : s[u].p # 0 => t[u] = s[u]
  BY <1>6, <1>7
<1>12. ASSUME NEW i \in 1 .. n + 1
       PROVE  /\ t[Nth(q[i].h, next[i], len)] = q[i]
              /\ \A j \in 0 .. next[i] - 1 : t[Nth(q[i].h, j, len)].p # 0
  <2>1. CASE i = n + 1
    <3>1. q[i] = hp /\ next[i] = d
      BY <1>9, <2>1 DEF hp
    <3>2. \A j \in 0 .. d - 1 : Nth(hp.h, j, len) \in 1 .. len
      <4>1. \A j \in 0 .. d - 1 : j \in 0 .. len
        BY <1>1, <1>3
      <4> QED
        BY <1>1, <4>1, NthFacts
    <3> QED
      BY <1>6, <1>7, <1>11, <3>1, <3>2 DEF w
  <2>2. CASE i \in 1 .. n
    <3>1. next[i] = place[i] /\ place[i] \in 0 .. len - 1 /\ q[i].h \in Nat /\ q[i].p # 0
      BY <1>2, <1>9, <2>2 DEF Written
    <3>2. \A j \in 0 .. place[i] : Nth(q[i].h, j, len) \in 1 .. len
      <4>1. \A j \in 0 .. place[i] : j \in 0 .. len
        BY <1>1, <3>1
      <4> QED
        BY <1>1, <3>1, <4>1, NthFacts
    <3>3. /\ s[Nth(q[i].h, place[i], len)] = q[i]
          /\ \A j \in 0 .. place[i] - 1 : s[Nth(q[i].h, j, len)].p # 0
      BY <2>2 DEF Lay
    <3>4. place[i] \in 0 .. place[i] /\ \A j \in 0 .. place[i] - 1 : j \in 0 .. place[i]
      BY <3>1
    <3> QED
      BY <1>11, <3>1, <3>2, <3>3, <3>4
  <2> QED
    BY <1>10, <2>1, <2>2
<1>13. ASSUME NEW u \in 1 .. len, t[u].p # 0
       PROVE  \E i \in 1 .. n + 1 : u = Nth(q[i].h, next[i], len)
  <2>1. CASE u = w
    <3>1. u = Nth(q[n + 1].h, next[n + 1], len) /\ n + 1 \in 1 .. n + 1
      BY <1>9, <2>1 DEF w, hp
    <3> QED
      BY <3>1
  <2>2. CASE u # w
    <3>1. s[u].p # 0
      BY <1>7, <1>13, <2>2
    <3>2. PICK i \in 1 .. n : u = Nth(q[i].h, place[i], len)
      BY <3>1 DEF Lay
    <3>3. i \in 1 .. n + 1 /\ next[i] = place[i]
      BY <1>2, <1>9
    <3> QED
      BY <3>2, <3>3
  <2> QED
    BY <2>1, <2>2
<1>14. ASSUME NEW i \in 1 .. n + 1, NEW j \in 1 .. n + 1, i < j, q[i].h = q[j].h
       PROVE  next[i] < next[j]
  <2>1. i \in 1 .. n
    BY <1>14
  <2>2. CASE j \in 1 .. n
    BY <1>9, <1>14, <2>1, <2>2 DEF Lay
  <2>3. CASE j = n + 1
    <3>1. next[j] = d /\ next[i] = place[i] /\ q[i].h = hp.h
      BY <1>9, <1>14, <2>1, <2>3 DEF hp
    <3>2. /\ s[Nth(hp.h, place[i], len)] = q[i] /\ q[i].p # 0
          /\ \A k \in 0 .. place[i] - 1 : s[Nth(hp.h, k, len)].p # 0
      BY <1>2, <2>1, <3>1 DEF Lay, Written
    <3>3. s[Nth(hp.h, d, len)].p = 0
      BY <1>6 DEF w
    <3>4. d # place[i] /\ d \notin 0 .. place[i] - 1
      BY <3>2, <3>3
    <3> QED
      BY <1>3, <1>9, <2>1, <3>1, <3>4
  <2> QED
    BY <1>10, <2>2, <2>3
<1>15. Lay(t, q, n + 1, len, next)
  BY <1>7, <1>8, <1>12, <1>13, <1>14 DEF Lay
<1> QED
  BY <1>15 DEF t, hp

\* A table has two slots for each pointer, and every pointer in one of them.
LEMMA FilledFacts ==
    ASSUME NEW q \in Seq(Written)
    PROVE  /\ Len(Filled(q)) = 2 * Len(q)
           /\ \E place : Lay(Filled(q), q, Len(q), 2 * Len(q), place)
<1> DEFINE m == Len(q)
           len == 2 * m
           S == [1 .. len -> HashPointer]
           base == [i \in 1 .. len |-> EmptySlot]
           F == [p \in S \X (0 .. m) |-> IF p[2] = 0 THEN p[1] ELSE PlaceIn(p[1], q[p[2]])]
           fill[n \in 0 .. m] == IF n = 0 THEN base ELSE PlaceIn(fill[n - 1], q[n])
<1>1. m \in Nat /\ len \in Nat /\ \A i \in 1 .. m : q[i] \in Written
  OBVIOUS
<1>2. base \in S
  BY DEF EmptySlot, HashPointer
<1>3. ASSUME NEW s \in S, NEW hp \in Written PROVE PlaceIn(s, hp) \in S
  BY DEF PlaceIn, Written, HashPointer
<1>4. \A s \in S, n \in 1 .. m : F[<<s, n>>] = PlaceIn(s, q[n])
  <2> HIDE DEF S
  <2>1. \A n \in 1 .. m : n \in 0 .. m /\ n # 0
    BY <1>1
  <2> HIDE DEF m
  <2> QED
    BY <2>1
<1>5. Steps(F, S, 0, m)
  <2>1. \A s \in S, n \in 0 .. m : n = 0 \/ n \in 1 .. m
    BY <1>1
  <2>2. \A s \in S, n \in 1 .. m : PlaceIn(s, q[n]) \in S
    BY <1>1, <1>3
  <2> HIDE DEF S, m
  <2> QED
    BY <2>1, <2>2 DEF Steps
<1> HIDE DEF m, S, F, fill, base
<1>6. PICK g : Iterates(g, F, S, base, 0, m)
  BY <1>1, <1>2, <1>5, Iterated
<1>7. /\ g \in [0 .. m -> S] /\ g[0] = base
      /\ \A n \in 0 + 1 .. m : g[n] = F[<<g[n - 1], n>>]
  BY <1>6 DEF Iterates
<1>8. ASSUME NEW n \in 0 .. m
      PROVE  g[n] = IF n = 0 THEN base ELSE PlaceIn(g[n - 1], q[n])
  <2>1. CASE n = 0
    BY <1>7, <2>1
  <2>2. CASE n # 0
    <3>1. n \in 0 + 1 .. m /\ n \in 1 .. m /\ n - 1 \in 0 .. m
      BY <1>1, <2>2
    <3>2. g[n] = F[<<g[n - 1], n>>] /\ g[n - 1] \in S
      BY <1>7, <3>1
    <3> QED
      BY <1>4, <2>2, <3>1, <3>2
  <2> QED
    BY <2>1, <2>2
<1>9. g = [n \in 0 .. m |-> IF n = 0 THEN base ELSE PlaceIn(g[n - 1], q[n])]
  BY <1>7, <1>8
<1>10. fill = [n \in 0 .. m |-> IF n = 0 THEN base ELSE PlaceIn(fill[n - 1], q[n])]
  BY <1>9 DEF fill
<1>11. Filled(q) = fill[m]
  BY DEF Filled, fill, base, m
<1> DEFINE B == {n \in 0 .. m : \E place : Lay(fill[n], q, n, len, place)}
<1>12. 0 \in B
  <2> DEFINE place == [i \in 1 .. 0 |-> 0]
  <2>1. fill[0] = base /\ 0 \in 0 .. m
    BY <1>1, <1>10
  <2>2. \A u \in 1 .. len : base[u].p = 0
    BY DEF base, EmptySlot
  <2>3. place \in [1 .. 0 -> 0 .. len - 1] /\ base \in [1 .. len -> HashPointer]
    BY <1>2 DEF S
  <2>4. Lay(base, q, 0, len, place)
    BY <2>2, <2>3 DEF Lay
  <2> QED
    BY <2>1, <2>4
<1>13. ASSUME NEW n \in 0 + 1 .. m, n - 1 \in B PROVE n \in B
  <2>1. n \in 0 .. m /\ n # 0 /\ n - 1 \in Nat /\ n - 1 < len /\ (n - 1) + 1 = n
    BY <1>1
  <2>2. PICK place : Lay(fill[n - 1], q, n - 1, len, place)
    BY <1>13
  <2>3. \A i \in 1 .. (n - 1) + 1 : q[i] \in Written
    BY <1>1, <2>1
  <2>4. \E next : Lay(PlaceIn(fill[n - 1], q[(n - 1) + 1]), q, (n - 1) + 1, len, next)
    BY <1>1, <2>1, <2>2, <2>3, PlaceInFacts
  <2>5. fill[n] = PlaceIn(fill[n - 1], q[n])
    BY <1>10, <2>1
  <2> QED
    BY <2>1, <2>4, <2>5
<1>14. m \in B
  <2>1. m \in 0 .. m
    BY <1>1
  <2> HIDE DEF B
  <2> QED
    BY <1>1, <1>12, <1>13, <2>1, Stepwise
<1>15. PICK place : Lay(Filled(q), q, m, len, place)
  BY <1>11, <1>14
<1>16. Len(Filled(q)) = len
  <2>1. Filled(q) \in [1 .. len -> HashPointer]
    BY <1>15 DEF Lay
  <2> QED
    BY <1>1, <2>1
<1> QED
  BY <1>15, <1>16 DEF m

-----------------------------------------------------------------------------
(* The pointers in the links, and in a table                                 *)

Walked(links) == FlattenSeq([i \in 1 .. Len(links) |-> Reverse(links[i])])

LEMMA ReverseFacts ==
    ASSUME NEW A, NEW s \in Seq(A)
    PROVE  /\ Reverse(s) \in Seq(A) /\ Len(Reverse(s)) = Len(s)
           /\ DOMAIN Reverse(s) = 1 .. Len(s)
           /\ \A i \in 1 .. Len(s) : Reverse(s)[i] = s[Len(s) - i + 1]
<1>1. Len(s) \in Nat /\ \A i \in 1 .. Len(s) : s[i] \in A
  OBVIOUS
<1>2. Reverse(s) = [i \in 1 .. Len(s) |-> s[Len(s) - i + 1]]
  BY DEF Reverse
<1>3. \A i \in 1 .. Len(s) : Len(s) - i + 1 \in 1 .. Len(s)
  BY <1>1
<1>4. Reverse(s) \in [1 .. Len(s) -> A]
  BY <1>1, <1>2, <1>3
<1> QED
  BY <1>1, <1>2, <1>4

LEMMA ReverseAppend ==
    ASSUME NEW A, NEW s \in Seq(A), NEW x \in A
    PROVE  Reverse(Append(s, x)) = <<x>> \o Reverse(s)
<1> DEFINE t == Append(s, x)
           n == Len(s)
           r == Reverse(t)
           u == <<x>> \o Reverse(s)
<1>1. /\ n \in Nat /\ t \in Seq(A) /\ Len(t) = n + 1 /\ t[n + 1] = x
      /\ \A i \in 1 .. n : t[i] = s[i]
  BY AppendProperties
<1>2. /\ r \in Seq(A) /\ Len(r) = n + 1
      /\ \A i \in 1 .. n + 1 : r[i] = t[(n + 1) - i + 1]
  <2> HIDE DEF t, n
  <2> QED
    BY <1>1, ReverseFacts
<1>3. /\ u \in Seq(A) /\ Len(u) = 1 + n
      /\ \A i \in 1 .. 1 + n : u[i] = IF i <= 1 THEN <<x>>[i] ELSE Reverse(s)[i - 1]
  <2>1. <<x>> \in Seq(A) /\ Len(<<x>>) = 1
    OBVIOUS
  <2>2. Reverse(s) \in Seq(A) /\ Len(Reverse(s)) = n
    BY ReverseFacts
  <2> QED
    BY <2>1, <2>2, ConcatProperties
<1>4. \A i \in 1 .. n : Reverse(s)[i] = s[n - i + 1]
  BY ReverseFacts
<1> HIDE DEF t, n, r, u
<1>5. ASSUME NEW i \in 1 .. n + 1
      PROVE  r[i] = u[i]
  <2>1. CASE i = 1
    <3>1. (n + 1) - i + 1 = n + 1 /\ i <= 1 /\ i \in 1 .. 1 + n
      BY <1>1, <2>1
    <3>2. r[i] = x
      BY <1>1, <1>2, <3>1
    <3>3. u[i] = <<x>>[i]
      BY <1>3, <3>1
    <3> QED
      BY <2>1, <3>2, <3>3
  <2>2. CASE i # 1
    <3>1. /\ (n + 1) - i + 1 \in 1 .. n /\ i - 1 \in 1 .. n /\ i \in 1 .. 1 + n /\ ~(i <= 1)
          /\ n - (i - 1) + 1 = (n + 1) - i + 1
      BY <1>1, <2>2
    <3>2. r[i] = s[(n + 1) - i + 1]
      BY <1>1, <1>2, <3>1
    <3>3. u[i] = Reverse(s)[i - 1]
      BY <1>3, <3>1
    <3>4. Reverse(s)[i - 1] = s[n - (i - 1) + 1]
      BY <1>4, <3>1
    <3> QED
      BY <3>1, <3>2, <3>3, <3>4
  <2> QED
    BY <2>1, <2>2
<1>6. r = u
  <2>1. n \in Nat /\ r \in Seq(A) /\ u \in Seq(A) /\ Len(r) = n + 1 /\ Len(u) = n + 1
    BY <1>1, <1>2, <1>3
  <2> QED
    BY ONLY <1>5, <2>1, SeqEqual
<1> QED
  BY <1>6 DEF r, u, t

\* A pointer that is added is the first that cdb_make_finish meets.
LEMMA Pushed ==
    ASSUME NEW A, NEW links \in Seq(Seq(A)), NEW hp \in A
    PROVE  /\ Push(links, hp) \in Seq(Seq(A))
           /\ Walked(links) \in Seq(A)
           /\ Walked(Push(links, hp)) = <<hp>> \o Walked(links)
<1> DEFINE Back(ls) == [i \in 1 .. Len(ls) |-> Reverse(ls[i])]
<1>1. ASSUME NEW ls \in Seq(Seq(A))
      PROVE  Back(ls) \in Seq(Seq(A)) /\ Len(Back(ls)) = Len(ls)
  <2>1. Len(ls) \in Nat /\ \A i \in 1 .. Len(ls) : ls[i] \in Seq(A)
    OBVIOUS
  <2>2. \A i \in 1 .. Len(ls) : Reverse(ls[i]) \in Seq(A)
    BY <2>1, ReverseFacts
  <2>3. Back(ls) \in [1 .. Len(ls) -> Seq(A)]
    BY <2>2
  <2> DEFINE R == Seq(A)
             n == Len(ls)
             b == Back(ls)
  <2>4. n \in Nat /\ b \in [1 .. n -> R]
    BY <2>1, <2>3
  <2> HIDE DEF R, n, b
  <2>5. b \in Seq(R) /\ Len(b) = n
    BY <2>4
  <2> QED
    BY <2>5 DEF R, n, b
<1>2. ASSUME NEW x \in Seq(A), NEW ls \in Seq(Seq(A))
      PROVE  /\ <<x>> \o ls \in Seq(Seq(A))
             /\ Back(<<x>> \o ls) = <<Reverse(x)>> \o Back(ls)
  <2> DEFINE n == Len(ls)
             u == <<x>> \o ls
             v == <<Reverse(x)>> \o Back(ls)
  <2>1. n \in Nat /\ Reverse(x) \in Seq(A) /\ <<x>> \in Seq(Seq(A)) /\ Len(<<x>>) = 1
    BY ReverseFacts
  <2>0. <<x>>[1] = x /\ <<Reverse(x)>>[1] = Reverse(x)
    OBVIOUS
  <2>2. /\ u \in Seq(Seq(A)) /\ Len(u) = 1 + n
        /\ \A i \in 1 .. 1 + n : u[i] = IF i <= 1 THEN <<x>>[i] ELSE ls[i - 1]
    BY <2>1, ConcatProperties
  <2>3. /\ v \in Seq(Seq(A)) /\ Len(v) = 1 + n
        /\ \A i \in 1 .. 1 + n : v[i] = IF i <= 1 THEN <<Reverse(x)>>[i] ELSE Back(ls)[i - 1]
    <3>1. <<Reverse(x)>> \in Seq(Seq(A)) /\ Len(<<Reverse(x)>>) = 1
      BY <2>1
    <3>2. Back(ls) \in Seq(Seq(A)) /\ Len(Back(ls)) = n
      BY <1>1
    <3> DEFINE S == Seq(A)
               w == <<Reverse(x)>>
               b == Back(ls)
    <3>3. w \in Seq(S) /\ b \in Seq(S) /\ Len(w) = 1 /\ Len(b) = n
      BY <3>1, <3>2
    <3> HIDE DEF S, w, b, n
    <3>4. /\ w \o b \in Seq(S) /\ Len(w \o b) = Len(w) + Len(b)
          /\ \A i \in 1 .. Len(w) + Len(b) :
               (w \o b)[i] = IF i <= Len(w) THEN w[i] ELSE b[i - Len(w)]
      BY <3>3, ConcatProperties
    <3>5. /\ w \o b \in Seq(S) /\ Len(w \o b) = 1 + n
          /\ \A i \in 1 .. 1 + n : (w \o b)[i] = IF i <= 1 THEN w[i] ELSE b[i - 1]
      BY <3>3, <3>4
    <3> QED
      BY <3>5 DEF S, w, b
  <2> HIDE DEF u, v
  <2>4. ASSUME NEW i \in 1 .. 1 + n
        PROVE  v[i] = Reverse(u[i])
    <3>1. CASE i = 1
      <4>1. i <= 1 /\ i \in 1 .. 1 + n
        BY <2>1, <3>1
      <4>2. u[i] = x /\ v[i] = Reverse(x)
        BY <2>0, <2>2, <2>3, <3>1, <4>1
      <4> QED
        BY <4>2
    <3>2. CASE i # 1
      <4>1. i - 1 \in 1 .. Len(ls) /\ ~(i <= 1)
        BY <2>1, <3>2
      <4>2. Back(ls)[i - 1] = Reverse(ls[i - 1])
        BY <4>1
      <4> QED
        BY <2>2, <2>3, <4>1, <4>2
    <3> QED
      BY <3>1, <3>2
  <2>5. Back(u) \in Seq(Seq(A)) /\ Len(Back(u)) = 1 + n
    BY <1>1, <2>2
  <2>6. \A i \in 1 .. 1 + n : v[i] = Back(u)[i]
    BY <2>2, <2>4
  <2> HIDE DEF Back
  <2>7. Back(u) = v
    <3>1. \A i \in 1 .. Len(v) : v[i] = Back(u)[i]
      BY <2>3, <2>6
    <3> QED
      BY ONLY <2>3, <2>5, <3>1, SeqEqual
  <2> QED
    BY <2>2, <2>7 DEF u, v
<1>3. \A ls : Walked(ls) = FlattenSeq(Back(ls))
  BY DEF Walked
<1> HIDE DEF Back
<1>4. Walked(links) \in Seq(A)
  BY <1>1, <1>3, Flattened
<1>5. CASE links = <<>> \/ Len(links[1]) >= HpList
  <2>1. Push(links, hp) = <<<<hp>>>> \o links
    BY <1>5 DEF Push
  <2>2. <<hp>> \in Seq(A) /\ Reverse(<<hp>>) = <<hp>>
    <3>1. <<hp>> \in Seq(A)
      OBVIOUS
    <3>2. Reverse(Append(<<>>, hp)) = <<hp>> \o Reverse(<<>>)
      <4>0. <<>> \in Seq(A)
        OBVIOUS
      <4>1. PICK s \in Seq(A) : s = <<>>
        BY <4>0
      <4>2. Reverse(Append(s, hp)) = <<hp>> \o Reverse(s)
        BY ReverseAppend
      <4> QED
        BY <4>1, <4>2, Zenon
    <3>3. Append(<<>>, hp) = <<hp>> /\ Reverse(<<>>) = <<>> /\ <<hp>> \o <<>> = <<hp>>
      <4>1. Reverse(<<>>) = <<>>
        BY DEF Reverse
      <4> QED
        BY <3>1, <4>1, ConcatEmptySeq
    <3> QED
      BY <3>1, <3>2, <3>3
  <2>3. FlattenSeq(<<<<hp>>>> \o Back(links)) = <<hp>> \o FlattenSeq(Back(links))
    BY <1>1, <2>2, FlattenedFirst
  <2> QED
    BY <1>2, <1>3, <1>4, <2>1, <2>2, <2>3
<1>6. CASE ~(links = <<>> \/ Len(links[1]) >= HpList)
  <2> DEFINE first == links[1]
             rest == Tail(links)
             V == FlattenSeq(Back(rest))
  <2>1. first \in Seq(A) /\ rest \in Seq(Seq(A)) /\ links = <<first>> \o rest
    BY <1>6
  <2>2. Push(links, hp) = <<Append(first, hp)>> \o rest
    BY <1>6 DEF Push
  <2>3. /\ Append(first, hp) \in Seq(A) /\ Reverse(first) \in Seq(A) /\ <<hp>> \in Seq(A)
        /\ Reverse(Append(first, hp)) = <<hp>> \o Reverse(first)
        /\ <<hp>> \o Reverse(first) \in Seq(A)
    <3> HIDE DEF first
    <3>1. Append(first, hp) \in Seq(A) /\ <<hp>> \in Seq(A)
      BY <2>1
    <3>2. Reverse(first) \in Seq(A)
      BY <2>1, ReverseFacts
    <3>3. Reverse(Append(first, hp)) = <<hp>> \o Reverse(first)
      BY <2>1, ReverseAppend
    <3> QED
      BY <3>1, <3>2, <3>3
  <2> HIDE DEF first, rest
  <2>4. V \in Seq(A)
    BY <1>1, <2>1, Flattened
  <2>5. Walked(links) = Reverse(first) \o V
    <3>1. Back(<<first>> \o rest) = <<Reverse(first)>> \o Back(rest)
      BY <1>2, <2>1
    <3>2. FlattenSeq(<<Reverse(first)>> \o Back(rest)) = Reverse(first) \o V
      BY <1>1, <2>1, <2>3, FlattenedFirst
    <3> QED
      BY <1>3, <2>1, <3>1, <3>2
  <2>6. Walked(Push(links, hp)) = (<<hp>> \o Reverse(first)) \o V
    <3>1. Back(<<Append(first, hp)>> \o rest) = <<<<hp>> \o Reverse(first)>> \o Back(rest)
      <4>1. PICK x \in Seq(A) : x = Append(first, hp)
        BY <2>3
      <4>2. Back(<<x>> \o rest) = <<Reverse(x)>> \o Back(rest)
        BY <1>2, <2>1
      <4> QED
        BY <2>3, <4>1, <4>2, Zenon
    <3>2. FlattenSeq(<<<<hp>> \o Reverse(first)>> \o Back(rest)) = (<<hp>> \o Reverse(first)) \o V
      BY <1>1, <2>1, <2>3, FlattenedFirst
    <3> QED
      BY <1>3, <2>2, <3>1, <3>2
  <2>7. (<<hp>> \o Reverse(first)) \o V = <<hp>> \o (Reverse(first) \o V)
    BY <2>3, <2>4, InAnyOrder
  <2>8. Push(links, hp) \in Seq(Seq(A))
    BY <1>2, <2>1, <2>2, <2>3
  <2> QED
    BY <1>4, <2>5, <2>6, <2>7, <2>8
<1> QED
  BY <1>5, <1>6

-----------------------------------------------------------------------------
(* The pointers of one table                                                *)

\* q lists f[i] for the numbers i up to L with f[i] in T, the smaller i first;
\* idx says which.
Lists(q, f, L, T, idx) ==
    /\ Len(q) \in 0 .. L
    /\ idx \in [1 .. Len(q) -> 1 .. L]
    /\ \A j \in 1 .. Len(q) : q[j] = f[idx[j]] /\ f[idx[j]] \in T
    /\ \A j, k \in 1 .. Len(q) : j < k => idx[j] < idx[k]
    /\ \A i \in 1 .. L : f[i] \in T => \E j \in 1 .. Len(q) : idx[j] = i

\* Split backwards and filled from the end, a table has its pointers in order.
LEMMA TwiceBack ==
    ASSUME NEW A, NEW L \in Nat, NEW f \in [1 .. L -> A], NEW T,
           NEW V, V = [n \in 1 .. L |-> f[L + 1 - n]]
    PROVE  /\ Reverse(Kept(V, T)) \in Seq(A)
           /\ \E idx : Lists(Reverse(Kept(V, T)), f, L, T, idx)
<1> DEFINE P == {i \in DOMAIN V : V[i] \in T}
           m == Cardinality(P)
           places == InOrder(P)
           K == Kept(V, T)
           q == Reverse(K)
           idx == [j \in 1 .. m |-> L + 1 - places[m - j + 1]]
<1>1. \A n \in 1 .. L : L + 1 - n \in 1 .. L /\ L + 1 - (L + 1 - n) = n
  OBVIOUS
<1>2. DOMAIN V = 1 .. L /\ \A n \in 1 .. L : V[n] = f[L + 1 - n] /\ V[n] \in A
  BY <1>1
<1>3. P \in SUBSET Nat /\ P \in SUBSET (1 .. L) /\ \A n \in P : V[n] \in T
  BY <1>2
<1>4. IsFiniteSet(P) /\ m \in 0 .. L
  <2>1. IsFiniteSet(1 .. L) /\ Cardinality(1 .. L) = L
    BY FS_Interval
  <2>2. IsFiniteSet(P) /\ m <= L
    BY <1>3, <2>1, FS_Subset
  <2>3. m \in Nat
    BY <2>2, FS_CardinalityType
  <2> HIDE DEF m
  <2> QED
    BY <2>2, <2>3
<1>5. \A n \in 1 .. L : V[n] \in T => n \in P
  BY <1>2
<1> HIDE DEF P
<1>6. /\ places \in Seq(P) /\ Len(places) = m
      /\ \A i \in P : \E k \in 1 .. m : places[k] = i
      /\ \A k, l \in 1 .. m : k < l => places[k] < places[l]
  BY <1>3, <1>4, Ordered
<1> HIDE DEF m, places
<1>7. /\ DOMAIN places = 1 .. m
      /\ \A k \in 1 .. m : /\ places[k] \in P /\ places[k] \in 1 .. L
                           /\ V[places[k]] \in T /\ V[places[k]] \in A
  <2>1. DOMAIN places = 1 .. m /\ \A k \in 1 .. m : places[k] \in P
    BY <1>4, <1>6
  <2> QED
    BY <1>2, <1>3, <2>1
<1>8. K = [k \in 1 .. m |-> V[places[k]]]
  BY <1>7 DEF Kept, P, places
<1>9. K \in Seq(A) /\ Len(K) = m
  <2> HIDE DEF K
  <2>1. K \in [1 .. m -> A] /\ m \in Nat
    BY <1>4, <1>7, <1>8
  <2> QED
    BY <2>1
<1> HIDE DEF K
<1>10. /\ q \in Seq(A) /\ Len(q) = m
       /\ \A j \in 1 .. m : q[j] = K[m - j + 1]
  BY <1>9, ReverseFacts
<1>11. \A j \in 1 .. m : m - j + 1 \in 1 .. m /\ m - (m - j + 1) + 1 = j
  BY <1>4
<1>12. \A j \in 1 .. m : idx[j] = L + 1 - places[m - j + 1]
  OBVIOUS
<1> HIDE DEF idx, q
<1>13. ASSUME NEW j \in 1 .. m
       PROVE  idx[j] \in 1 .. L /\ q[j] = f[idx[j]] /\ f[idx[j]] \in T
  <2>1. q[j] = V[places[m - j + 1]] /\ V[places[m - j + 1]] \in T
    BY <1>7, <1>8, <1>10, <1>11
  <2> QED
    BY <1>1, <1>2, <1>7, <1>11, <1>12, <2>1
<1>14. idx \in [1 .. m -> 1 .. L]
  BY <1>13 DEF idx
<1>15. ASSUME NEW j \in 1 .. m, NEW k \in 1 .. m, j < k
       PROVE  idx[j] < idx[k]
  <2>1. m - k + 1 \in 1 .. m /\ m - j + 1 \in 1 .. m /\ m - k + 1 < m - j + 1
    BY <1>4, <1>15
  <2>2. /\ places[m - k + 1] < places[m - j + 1]
        /\ places[m - k + 1] \in 1 .. L /\ places[m - j + 1] \in 1 .. L
    BY <1>6, <1>7, <2>1
  <2> QED
    BY <1>12, <2>2
<1>16. ASSUME NEW i \in 1 .. L, f[i] \in T
       PROVE  \E j \in 1 .. m : idx[j] = i
  <2>1. V[L + 1 - i] = f[i] /\ L + 1 - i \in 1 .. L
    BY <1>1, <1>2
  <2>2. PICK k \in 1 .. m : places[k] = L + 1 - i
    BY <1>5, <1>6, <1>16, <2>1
  <2>3. m - k + 1 \in 1 .. m /\ m - (m - k + 1) + 1 = k
    BY <1>11
  <2>4. idx[m - k + 1] = L + 1 - places[k]
    BY <1>12, <2>3
  <2>5. idx[m - k + 1] = i
    BY <1>1, <2>2, <2>4
  <2> QED
    BY <2>3, <2>5
<1>17. Lists(q, f, L, T, idx)
  BY <1>4, <1>10, <1>13, <1>14, <1>15, <1>16 DEF Lists
<1> QED
  BY <1>10, <1>17 DEF q, K

\* The numbers that f gives an element of T
Numbers(f, L, T) == {i \in 1 .. L : f[i] \in T}

\* Over the slots s of a table a walk comes to the pointer f[i], i in R, after
\* off[i] others and never again; the later of two with one hash comes later.
Reaches(s, f, R, off) ==
    /\ off \in [R -> 0 .. Len(s) - 1]
    /\ \A i \in R : Placed(s, f[i], off[i])
    /\ \A i \in R : \A d \in 0 .. Len(s) - 1 :
            s[Nth(f[i].h, d, Len(s))] = f[i] => d = off[i]
    /\ \A i, j \in R : i < j /\ f[i].h = f[j].h => off[i] < off[j]

LEMMA BuiltTable ==
    ASSUME NEW L \in Nat, NEW f \in [1 .. L -> Written],
           \A i, j \in 1 .. L : f[i] = f[j] => i = j,
           NEW T, NEW q \in Seq(Written), NEW idx, Lists(q, f, L, T, idx)
    PROVE  /\ Len(Filled(q)) \in 0 .. 2 * L
           /\ Filled(q) \in [1 .. Len(Filled(q)) -> HashPointer]
           /\ \E off : Reaches(Filled(q), f, Numbers(f, L, T), off)
<1> DEFINE s == Filled(q)
           n == Len(q)
           len == 2 * n
           R == Numbers(f, L, T)
<1>1. Len(s) = len /\ \E place : Lay(s, q, n, len, place)
  BY FilledFacts
<1>2. PICK place : Lay(s, q, n, len, place)
  BY <1>1
<1> HIDE DEF s
<1>3. n \in 0 .. L /\ len \in 0 .. 2 * L /\ \A j \in 1 .. n : q[j] \in Written
  BY DEF Lists
<1>4. /\ idx \in [1 .. n -> 1 .. L]
      /\ \A j \in 1 .. n : q[j] = f[idx[j]] /\ f[idx[j]] \in T
      /\ \A j, k \in 1 .. n : j < k => idx[j] < idx[k]
      /\ \A i \in R : \E j \in 1 .. n : idx[j] = i
  BY DEF Lists, Numbers
<1>5. \A i \in R : i \in 1 .. L /\ f[i] \in Written /\ f[i].h \in Nat /\ f[i].p # 0
  BY DEF Written, Numbers
<1> HIDE DEF R
<1> DEFINE inv == [i \in R |-> CHOOSE j \in 1 .. n : idx[j] = i]
           off == [i \in R |-> place[inv[i]]]
<1>6. \A i \in R : inv[i] \in 1 .. n /\ idx[inv[i]] = i /\ q[inv[i]] = f[i]
  <2>1. \A i \in R : inv[i] \in 1 .. n /\ idx[inv[i]] = i
    BY <1>4
  <2> HIDE DEF inv
  <2> QED
    BY <1>4, <2>1
<1> HIDE DEF inv
<1>7. \A i \in R : off[i] = place[inv[i]]
  OBVIOUS
<1>8. off \in [R -> 0 .. len - 1]
  BY <1>2, <1>6 DEF Lay
<1> HIDE DEF off, len
<1>9. \A i \in R : off[i] \in 0 .. len - 1 /\ len \in Nat \ {0} /\ off[i] \in 0 .. len
  BY <1>3, <1>8
<1>10. \A i \in R : Placed(s, f[i], off[i])
  <2> TAKE i \in R
  <2>1. /\ s[Nth(f[i].h, off[i], len)] = f[i]
        /\ \A j \in 0 .. off[i] - 1 : s[Nth(f[i].h, j, len)].p # 0
    <3>1. /\ \A k \in 1 .. n : s[Nth(q[k].h, place[k], len)] = q[k]
          /\ \A k \in 1 .. n : \A j \in 0 .. place[k] - 1 : s[Nth(q[k].h, j, len)].p # 0
      BY <1>2 DEF Lay
    <3>2. inv[i] \in 1 .. n /\ q[inv[i]] = f[i] /\ off[i] = place[inv[i]]
      BY <1>6, <1>7
    <3> QED
      BY <3>1, <3>2
  <2> QED
    BY <1>1, <1>9, <2>1 DEF Placed
<1>11. ASSUME NEW i \in R, NEW d \in 0 .. len - 1, s[Nth(f[i].h, d, len)] = f[i]
       PROVE  d = off[i]
  <2>1. Nth(f[i].h, d, len) \in 1 .. len
    <3>1. d \in 0 .. len
      BY <1>9
    <3> QED
      BY <1>5, <1>9, <3>1, NthFacts
  <2>2. PICK k \in 1 .. n : Nth(f[i].h, d, len) = Nth(q[k].h, place[k], len)
    BY <1>2, <1>5, <1>11, <2>1 DEF Lay
  <2>3. s[Nth(q[k].h, place[k], len)] = q[k]
    BY <1>2 DEF Lay
  <2>4. f[idx[k]] = f[i] /\ idx[k] \in 1 .. L /\ i \in 1 .. L
    BY <1>4, <1>5, <1>11, <2>2, <2>3
  <2>5. idx[k] = i
    BY <2>4
  <2>6. k = inv[i]
    <3>1. inv[i] \in 1 .. n /\ idx[inv[i]] = i
      BY <1>6
    <3>2. ~(k < inv[i]) /\ ~(inv[i] < k)
      BY <1>4, <2>4, <2>5, <3>1
    <3> QED
      BY <1>3, <3>1, <3>2
  <2>7. Nth(f[i].h, d, len) = Nth(f[i].h, off[i], len)
    BY <1>6, <1>7, <2>2, <2>6
  <2> QED
    BY <1>5, <1>9, <2>7, NthFacts
<1>12. ASSUME NEW i \in R, NEW j \in R, i < j, f[i].h = f[j].h
       PROVE  off[i] < off[j]
  <2>1. /\ inv[i] \in 1 .. n /\ idx[inv[i]] = i /\ q[inv[i]] = f[i]
        /\ inv[j] \in 1 .. n /\ idx[inv[j]] = j /\ q[inv[j]] = f[j]
    BY <1>6
  <2>2. i \in Nat /\ j \in Nat /\ ~(inv[j] < inv[i]) /\ inv[i] # inv[j]
    BY <1>4, <1>5, <1>12, <2>1
  <2>3. inv[i] < inv[j]
    BY <1>3, <2>1, <2>2
  <2> QED
    BY <1>2, <1>7, <1>12, <2>1, <2>3, SMTT(30) DEF Lay
<1>13. Reaches(s, f, R, off)
  BY <1>1, <1>8, <1>10, <1>11, <1>12 DEF Reaches
<1>14. s \in [1 .. len -> HashPointer]
  BY <1>2 DEF Lay
<1>15. Len(s) \in 0 .. 2 * L
  BY <1>1, <1>3 DEF len
<1> QED
  BY <1>1, <1>13, <1>14, <1>15 DEF s, R

-----------------------------------------------------------------------------
(* A finished database                                                      *)

\* The records whose hash leads to table t
In(t) == {i \in DOMAIN file : Pointer(i).h % Tables = t}

LEMMA FileFacts ==
    ASSUME CdbInv
    PROVE  /\ Len(file) \in 0 .. MaxAdd /\ DOMAIN file = 1 .. Len(file)
           /\ \A i \in 1 .. Len(file) :
                /\ file[i] \in [key : Key, data : 1 .. MaxAdd, at : Nat]
                /\ hash[file[i].key] \in HashVal /\ hash[file[i].key] \in Nat
                /\ Pointer(i).h = hash[file[i].key] /\ Pointer(i).p = file[i].at
<1>1. /\ file \in Seq([key : Key, data : 1 .. MaxAdd, at : Nat])
      /\ hash \in [Key -> HashVal] /\ Len(file) <= MaxAdd /\ HashVal \subseteq Nat
  BY CdbConstants DEF CdbInv, TypeOK, Numbered
<1>2. Len(file) \in Nat /\ DOMAIN file = 1 .. Len(file)
  BY <1>1
<1>3. ASSUME NEW i \in 1 .. Len(file)
      PROVE  /\ file[i] \in [key : Key, data : 1 .. MaxAdd, at : Nat]
             /\ hash[file[i].key] \in HashVal /\ hash[file[i].key] \in Nat
  <2> DEFINE Rec == [key : Key, data : 1 .. MaxAdd, at : Nat]
  <2>1. file[i] \in Rec
    <3>1. file \in Seq(Rec)
      BY <1>1
    <3> HIDE DEF Rec
    <3> QED
      BY <3>1
  <2> QED
    BY <1>1, <2>1
<1>4. MaxAdd \in Nat
  BY CdbConstants
<1> QED
  BY <1>1, <1>2, <1>3, <1>4 DEF Pointer

LEMMA TableFacts ==
    ASSUME CdbInv, Readable, NEW t \in 0 .. Tables - 1
    PROVE  /\ Len(table[t]) \in 0 .. 2 * MaxAdd
           /\ table[t] \in [1 .. Len(table[t]) -> HashPointer]
           /\ \E off : Reaches(table[t], [i \in 1 .. Len(file) |-> Pointer(i)], In(t), off)
<1> DEFINE L == Len(file)
           f == [i \in 1 .. L |-> Pointer(i)]
           T == Of(t)
           q == Split(t)
<1>1. /\ L \in 0 .. MaxAdd /\ DOMAIN file = 1 .. L
      /\ \A i \in 1 .. L : file[i].at \in Nat /\ hash[file[i].key] \in Nat
  BY FileFacts
<1>2. /\ \A i \in 1 .. L : file[i].at # 0
      /\ \A i, j \in 1 .. L : i < j => file[i].at < file[j].at
      /\ Walk = [n \in 1 .. L |-> Pointer(L + 1 - n)]
  <2>1. /\ \A i \in DOMAIN file : file[i].at \in 1 .. end - 1
        /\ \A i, j \in DOMAIN file : i < j => file[i].at < file[j].at
        /\ Walk = [n \in 1 .. L |-> Pointer(L + 1 - n)]
    BY DEF CdbInv, InStep, Readable
  <2> HIDE DEF L
  <2>2. \A i \in 1 .. L : file[i].at \in 1 .. end - 1
    BY <1>1, <2>1
  <2>3. \A i \in 1 .. L : file[i].at # 0
    BY <2>2
  <2> QED
    BY <1>1, <2>1, <2>3
<1>3. table[t] = Filled(q)
  BY DEF CdbInv, TablesBuilt, Readable, Slots
<1>4. \A i \in 1 .. L : /\ f[i] = Pointer(i) /\ f[i] \in Written
                        /\ f[i].h = Pointer(i).h /\ f[i].p = file[i].at
  BY <1>1, <1>2 DEF Pointer, Written
<1>5. L \in Nat /\ MaxAdd \in Nat
  BY <1>1, CdbConstants
<1> HIDE DEF L
<1>6. f \in [1 .. L -> Written]
  BY <1>4
<1>7. Walk = [n \in 1 .. L |-> f[L + 1 - n]]
  <2>1. \A n \in 1 .. L : L + 1 - n \in 1 .. L
    BY <1>5
  <2> QED
    BY <1>2, <1>4, <2>1
<1>8. \A i, j \in 1 .. L : f[i] = f[j] => i = j
  <2> TAKE i, j \in 1 .. L
  <2>1. i < j => file[i].at < file[j].at
    BY <1>2
  <2>2. j < i => file[j].at < file[i].at
    BY <1>2
  <2>3. file[i].at \in Nat /\ file[j].at \in Nat
    BY <1>1
  <2>4. f[i] = f[j] => file[i].at = file[j].at
    BY <1>4
  <2> QED
    BY <1>5, <2>1, <2>2, <2>3, <2>4
<1>9. \A i \in 1 .. L : f[i] \in T <=> Pointer(i).h % Tables = t
  <2> TAKE i \in 1 .. L
  <2>1. f[i] \in ToSet(Walk)
    <3>1. L + 1 - i \in 1 .. L /\ L + 1 - (L + 1 - i) = i
      BY <1>5
    <3>2. DOMAIN Walk = 1 .. L /\ Walk[L + 1 - i] = f[i]
      BY <1>7, <3>1
    <3> QED
      BY <3>1, <3>2 DEF ToSet
  <2> QED
    BY <1>4, <2>1 DEF Of
<1>10. Numbers(f, L, T) = In(t)
  BY <1>1, <1>9 DEF In, Numbers
<1>11. q = Reverse(Kept(Walk, T))
  BY DEF Split
<1> HIDE DEF f, T, q
<1>12. q \in Seq(Written) /\ \E idx : Lists(q, f, L, T, idx)
  BY <1>5, <1>6, <1>7, <1>11, TwiceBack
<1>13. PICK idx : Lists(q, f, L, T, idx)
  BY <1>12
<1>14. /\ Len(Filled(q)) \in 0 .. 2 * L
       /\ Filled(q) \in [1 .. Len(Filled(q)) -> HashPointer]
       /\ \E off : Reaches(Filled(q), f, Numbers(f, L, T), off)
  BY ONLY <1>5, <1>6, <1>8, <1>12, <1>13, BuiltTable
<1>15. Len(Filled(q)) \in 0 .. 2 * MaxAdd
  BY <1>1, <1>5, <1>14
<1> QED
  BY <1>3, <1>10, <1>14, <1>15 DEF f, L

\* The offset of a record: a walk comes to it there and nowhere else.
LEMMA OffsetFacts ==
    ASSUME CdbInv, Readable, NEW t \in 0 .. Tables - 1
    PROVE  /\ \A i \in In(t) : /\ Offset(table[t], i) \in 0 .. Len(table[t]) - 1
                               /\ Placed(table[t], Pointer(i), Offset(table[t], i))
           /\ \A i \in In(t) : \A d \in 0 .. Len(table[t]) - 1 :
                table[t][Nth(Pointer(i).h, d, Len(table[t]))] = Pointer(i)
                    => d = Offset(table[t], i)
           /\ \A i, j \in In(t) : i < j /\ Pointer(i).h = Pointer(j).h
                => Offset(table[t], i) < Offset(table[t], j)
<1> DEFINE s == table[t]
           f == [i \in 1 .. Len(file) |-> Pointer(i)]
<1>1. \A i \in In(t) : f[i] = Pointer(i)
  BY FileFacts DEF In
<1>2. PICK off : Reaches(s, f, In(t), off)
  BY TableFacts
<1> HIDE DEF f, s
<1>3. \A i \in In(t) : off[i] \in 0 .. Len(s) - 1 /\ Placed(s, Pointer(i), off[i])
  BY <1>1, <1>2 DEF Reaches
<1>4. \A i \in In(t) : \A d \in 0 .. Len(s) - 1 :
        s[Nth(Pointer(i).h, d, Len(s))] = Pointer(i) => d = off[i]
  BY <1>1, <1>2 DEF Reaches
<1>5. \A i \in In(t) : Offset(s, i) = off[i]
  <2> TAKE i \in In(t)
  <2>1. \A d \in 0 .. Len(s) - 1 : Placed(s, Pointer(i), d) => d = off[i]
    BY <1>4 DEF Placed
  <2> QED
    BY <1>3, <2>1 DEF Offset
<1>6. \A i, j \in In(t) : i < j /\ Pointer(i).h = Pointer(j).h => off[i] < off[j]
  BY <1>1, <1>2 DEF Reaches
<1> QED
  BY <1>3, <1>4, <1>5, <1>6 DEF s

LEMMA Reachable == CdbInv => EveryRecordReachable
<1> SUFFICES ASSUME CdbInv, Readable, NEW i \in DOMAIN file
             PROVE  LET slots == table[Pointer(i).h % Tables]
                    IN  \E d \in 0 .. Len(slots) - 1 : Placed(slots, Pointer(i), d)
  BY DEF EveryRecordReachable
<1> DEFINE t == Pointer(i).h % Tables
<1>1. Pointer(i).h \in Nat /\ Tables \in Nat \ {0}
  BY FileFacts, CdbConstants
<1>2. t \in 0 .. Tables - 1
  BY <1>1, Division
<1>3. i \in In(t)
  BY DEF In
<1> HIDE DEF t
<1>4. Offset(table[t], i) \in 0 .. Len(table[t]) - 1 /\ Placed(table[t], Pointer(i), Offset(table[t], i))
  BY <1>2, <1>3, OffsetFacts
<1> QED
  BY <1>4 DEF t

\* The table a key is sought in
LEMMA SlotFacts ==
    ASSUME CdbInv, Readable, NEW k \in Key
    PROVE  /\ hash[k] \in Nat /\ hash[k] % Tables \in 0 .. Tables - 1
           /\ Len(SlotsOf(k)) \in 0 .. 2 * MaxAdd
           /\ SlotsOf(k) \in [1 .. Len(SlotsOf(k)) -> HashPointer]
           /\ SlotsOf(k) = <<>> <=> Len(SlotsOf(k)) = 0
           /\ Len(SlotsOf(k)) # 0 =>
                FirstSlot(hash[k], Len(SlotsOf(k))) = Nth(hash[k], 0, Len(SlotsOf(k))) - 1
<1> DEFINE t == hash[k] % Tables
           s == table[t]
           len == Len(s)
<1>1. hash[k] \in Nat /\ Tables \in Nat \ {0}
  BY CdbConstants DEF CdbInv, TypeOK
<1>2. t \in 0 .. Tables - 1
  BY <1>1, Division
<1> HIDE DEF t
<1>3. len \in 0 .. 2 * MaxAdd /\ s \in [1 .. len -> HashPointer]
  BY <1>2, TableFacts
<1>4. len \in Nat
  BY <1>3, CdbConstants
<1>5. SlotsOf(k) = s
  BY DEF SlotsOf, t
<1> HIDE DEF s
<1>6. s = <<>> <=> len = 0
  <2>1. CASE len = 0
    <3>1. 1 .. len = {}
      BY <2>1
    <3> QED
      BY <1>3, <2>1, <3>1
  <2>2. CASE len # 0
    BY <2>2
  <2> QED
    BY <2>1, <2>2
<1>7. ASSUME len # 0
      PROVE  FirstSlot(hash[k], len) = Nth(hash[k], 0, len) - 1
  <2>1. len \in Nat \ {0}
    BY <1>4, <1>7
  <2>2. FirstSlot(hash[k], len) \in 0 .. len - 1
    <3>1. hash[k] \div Tables \in Nat
      BY <1>1, Division
    <3> QED
      BY <2>1, <3>1, Division DEF FirstSlot
  <2> QED
    BY <2>1, <2>2 DEF Nth
<1> QED
  BY <1>1, <1>2, <1>3, <1>5, <1>6, <1>7 DEF t

-----------------------------------------------------------------------------
(* Writing                                                                  *)

Rec == [key : Key, data : 1 .. MaxAdd, at : Nat]
HeadPointer == [h : HashVal, p : Nat]

LEMMA NewPosFacts ==
    ASSUME TypeOK, NEW n \in Sizes
    PROVE  /\ n \in Nat \ {0} /\ pos \in Nat /\ Field \in Nat \ {0} /\ Limit \in Nat
           /\ NewPos(n) \in -1 .. Limit - 1
           /\ NewPos(n) # -1 => NewPos(n) = pos + Field + n
<1>1. n \in Nat \ {0} /\ Field \in Nat \ {0} /\ pos \in 0 .. Limit - 1 /\ Limit \in Nat
  BY CdbConstants DEF TypeOK
<1> DEFINE p == PosPlus(pos, Field)
<1>2. p \in -1 .. Limit - 1 /\ (p # -1 => p = pos + Field)
  BY <1>1, PosPlusFacts
<1> HIDE DEF p
<1>3. CASE p = -1
  BY <1>1, <1>3 DEF NewPos, p
<1>4. CASE p # -1
  <2>1. p \in 0 .. Limit - 1 /\ NewPos(n) = PosPlus(p, n)
    BY <1>1, <1>2, <1>4 DEF NewPos, p
  <2>2. PosPlus(p, n) \in -1 .. Limit - 1 /\ (PosPlus(p, n) # -1 => PosPlus(p, n) = p + n)
    BY <1>1, <2>1, PosPlusFacts
  <2> QED
    BY <1>1, <1>2, <1>4, <2>1, <2>2
<1> QED
  BY <1>3, <1>4

\* What cdb_make_add leaves
LEMMA Added ==
    ASSUME CdbInv, NEW k \in Key, NEW n \in Sizes, AddRecord(k, n)
    PROVE  /\ Len(file) \in 0 .. MaxAdd - 1
           /\ head' \in Seq(Seq(HeadPointer))
           /\ file' \in Seq(Rec) /\ Len(file') = Len(file) + 1
           /\ \A i \in 1 .. Len(file) : file'[i] = file[i]
           /\ file'[Len(file) + 1] = [key |-> k, data |-> Len(file) + 1, at |-> end]
           /\ end' = end + Field + n /\ end' \in Nat
           /\ Walk \in Seq(HeadPointer)
           /\ Walk' = <<[h |-> hash[k], p |-> pos]>> \o Walk
<1>1. /\ file \in Seq(Rec) /\ head \in Seq(Seq(HeadPointer)) /\ end \in Nat
      /\ hash[k] \in HashVal /\ pos \in Nat
  <2>1. pos \in 0 .. Limit - 1 /\ Limit \in Nat
    BY CdbConstants DEF CdbInv, TypeOK
  <2> QED
    BY <2>1 DEF CdbInv, TypeOK, Rec, HeadPointer
<1>2. /\ Len(file) < MaxAdd /\ head' = Push(head, [h |-> hash[k], p |-> pos])
      /\ file' = Append(file, [key |-> k, data |-> Len(file) + 1, at |-> end])
      /\ end' = end + Field + n
  BY DEF AddRecord
<1>3. Len(file) \in 0 .. MaxAdd - 1 /\ Field \in Nat /\ n \in Nat
  BY <1>1, <1>2, CdbConstants
<1>4. [key |-> k, data |-> Len(file) + 1, at |-> end] \in Rec
  <2>1. Len(file) + 1 \in 1 .. MaxAdd
    BY <1>3, CdbConstants
  <2> QED
    BY <1>1, <2>1 DEF Rec
<1>5. /\ file' \in Seq(Rec) /\ Len(file') = Len(file) + 1
      /\ \A i \in 1 .. Len(file) : file'[i] = file[i]
      /\ file'[Len(file) + 1] = [key |-> k, data |-> Len(file) + 1, at |-> end]
  BY <1>1, <1>2, <1>4, AppendProperties
<1>6. [h |-> hash[k], p |-> pos] \in HeadPointer
  BY <1>1 DEF HeadPointer
<1>7. /\ head' \in Seq(Seq(HeadPointer)) /\ Walked(head) \in Seq(HeadPointer)
      /\ Walked(head') = <<[h |-> hash[k], p |-> pos]>> \o Walked(head)
  BY <1>1, <1>2, <1>6, Pushed
<1>8. Walk = Walked(head) /\ Walk' = Walked(head')
  BY DEF Walk, Walked
<1>9. end' \in Nat
  BY <1>1, <1>2, <1>3
<1> QED
  BY <1>2, <1>3, <1>5, <1>7, <1>8, <1>9

\* Records are numbered, and while nothing failed unseen the positions are right.
LEMMA WritingStep ==
    ASSUME CdbInv, NEW k \in Key, NEW n \in Sizes, AddRecord(k, n),
           sound' => sound /\ NewPos(n) # -1 /\ pos' = NewPos(n)
    PROVE  Numbered' /\ InStep'
<1>0. PICK L \in Nat : L = Len(file)
  <2>1. Len(file) \in 0 .. MaxAdd /\ MaxAdd \in Nat
    BY FileFacts, CdbConstants
  <2>2. Len(file) \in Nat
    BY <2>1
  <2> QED
    BY <2>2
<1> DEFINE hp == [h |-> hash[k], p |-> pos]
<1>1. /\ L \in 0 .. MaxAdd - 1 /\ Len(file') = L + 1 /\ file' \in Seq(Rec)
      /\ \A i \in 1 .. L : file'[i] = file[i]
      /\ file'[L + 1] = [key |-> k, data |-> L + 1, at |-> end]
      /\ end' = end + Field + n
      /\ Walk \in Seq(HeadPointer) /\ Walk' = <<hp>> \o Walk
  BY <1>0, Added
<1>2. L \in Nat /\ MaxAdd \in Nat /\ DOMAIN file = 1 .. L /\ DOMAIN file' = 1 .. L + 1
  BY <1>0, <1>1, CdbConstants, FileFacts
<1>3. hash' = hash
  BY DEF AddRecord
<1>4. \A i \in 1 .. L + 1 : i \in 1 .. L \/ i = L + 1
  BY <1>2
<1>5. Numbered'
  <2>1. Len(file') <= MaxAdd
    BY <1>1, <1>2
  <2>2. \A i \in 1 .. L : file[i].data = i
    BY <1>2 DEF CdbInv, Numbered
  <2>3. \A i \in 1 .. L + 1 : file'[i].data = i
    BY <1>1, <1>4, <2>2
  <2> QED
    BY <1>2, <2>1, <2>3 DEF Numbered
<1>6. ASSUME sound'
      PROVE  /\ pos' = end' /\ end' > 0
             /\ \A i \in DOMAIN file' : file'[i].at \in 1 .. end' - 1
             /\ \A i, j \in DOMAIN file' : i < j => file'[i].at < file'[j].at
             /\ Walk' = [m \in 1 .. L + 1 |-> Pointer(L + 1 + 1 - m)']
  <2>1. /\ pos = end /\ end > 0
        /\ \A i \in 1 .. L : file[i].at \in 1 .. end - 1
        /\ \A i, j \in 1 .. L : i < j => file[i].at < file[j].at
        /\ Walk = [m \in 1 .. L |-> Pointer(L + 1 - m)]
    BY <1>0, <1>2, <1>6 DEF CdbInv, InStep
  <2>2. /\ pos \in Nat /\ Field \in Nat \ {0} /\ n \in Nat \ {0}
        /\ pos' = pos + Field + n
    BY <1>6, NewPosFacts DEF CdbInv
  <2>3. pos' = end' /\ end > 0 /\ end' > 0 /\ end < end' /\ end' \in Nat /\ end \in Nat
    BY <1>1, <2>1, <2>2
  <2>4. \A i \in 1 .. L + 1 : file'[i].at \in 1 .. end' - 1
    <3> TAKE i \in 1 .. L + 1
    <3>1. CASE i \in 1 .. L
      <4>1. file'[i].at = file[i].at /\ file[i].at \in 1 .. end - 1
        BY <1>1, <2>1, <3>1
      <4> QED
        BY <2>3, <4>1
    <3>2. CASE i = L + 1
      <4>1. file'[i].at = end
        BY <1>1, <3>2
      <4>2. end \in 1 .. end' - 1
        <5> DEFINE e == end
                   m == end'
        <5>1. e \in Nat /\ m \in Nat /\ e > 0 /\ e < m
          BY <2>3
        <5> HIDE DEF e, m
        <5>2. e \in 1 .. m - 1
          BY <5>1
        <5> QED
          BY <5>2 DEF e, m
      <4> QED
        BY <4>1, <4>2
    <3> QED
      BY <1>4, <3>1, <3>2
  <2>5. ASSUME NEW i \in 1 .. L + 1, NEW j \in 1 .. L + 1, i < j
        PROVE  file'[i].at < file'[j].at
    <3>1. i \in 1 .. L
      BY <1>2, <2>5
    <3>2. file'[i].at = file[i].at /\ file[i].at \in 1 .. end - 1
      BY <1>1, <2>1, <3>1
    <3>3. CASE j \in 1 .. L
      <4>1. file'[j].at = file[j].at
        BY <1>1, <3>3
      <4>2. file[i].at < file[j].at
        BY <2>1, <2>5, <3>1, <3>3
      <4> QED
        BY <3>2, <4>1, <4>2
    <3>4. CASE j = L + 1
      <4>1. file'[j].at = end
        BY <1>1, <3>4
      <4> QED
        BY <2>3, <3>2, <4>1
    <3> QED
      BY <1>4, <3>3, <3>4
  <2>6. Pointer(L + 1)' = hp /\ \A i \in 1 .. L : Pointer(i)' = Pointer(i)
    <3>1. Pointer(L + 1)' = [h |-> hash[file'[L + 1].key], p |-> file'[L + 1].at]
      BY <1>3 DEF Pointer
    <3>2. ASSUME NEW i \in 1 .. L PROVE Pointer(i)' = Pointer(i)
      BY <1>1, <1>3 DEF Pointer
    <3> QED
      BY <1>1, <2>1, <3>1, <3>2
  <2>7. Walk' = [m \in 1 .. L + 1 |-> Pointer(L + 1 + 1 - m)']
    <3> DEFINE u == <<hp>> \o Walk
               v == [m \in 1 .. L + 1 |-> Pointer(L + 1 + 1 - m)']
    <3>1. <<hp>> \in Seq({hp}) /\ Len(<<hp>>) = 1 /\ <<hp>>[1] = hp
      OBVIOUS
    <3>2. Len(Walk) = L /\ \A m \in 1 .. L : Walk[m] = Pointer(L + 1 - m)
      BY <1>2, <2>1
    <3> DEFINE A == HeadPointer \cup {hp}
    <3>3. <<hp>> \in Seq(A) /\ Walk \in Seq(A)
      BY <1>1, <3>1, SeqMonotonic
    <3> HIDE DEF A
    <3>4. /\ u \in Seq(A) /\ Len(u) = 1 + L
          /\ \A m \in 1 .. 1 + L : u[m] = IF m <= 1 THEN <<hp>>[m] ELSE Walk[m - 1]
      BY <3>1, <3>2, <3>3, ConcatProperties
    <3> HIDE DEF u
    <3>5. ASSUME NEW m \in 1 .. L + 1
          PROVE  u[m] = Pointer(L + 1 + 1 - m)'
      <4>1. CASE m = 1
        <5>1. m <= 1 /\ m \in 1 .. 1 + L /\ L + 1 + 1 - m = L + 1
          BY <1>2, <4>1
        <5> QED
          BY <2>6, <3>1, <3>4, <4>1, <5>1
      <4>2. CASE m # 1
        <5>1. /\ ~(m <= 1) /\ m \in 1 .. 1 + L /\ m - 1 \in 1 .. L
              /\ L + 1 + 1 - m \in 1 .. L /\ L + 1 - (m - 1) = L + 1 + 1 - m
          BY <1>2, <4>2
        <5>2. u[m] = Pointer(L + 1 - (m - 1))
          BY <3>2, <3>4, <5>1
        <5> QED
          BY <2>6, <5>1, <5>2
      <4> QED
        BY <4>1, <4>2
    <3>6. u = v
      <4>1. u = [m \in 1 .. L + 1 |-> u[m]]
        <5>1. L + 1 = 1 + L /\ DOMAIN u = 1 .. Len(u)
          BY <1>2, <3>4
        <5> QED
          BY <3>4, <5>1
      <4> QED
        BY <3>5, <4>1
    <3> QED
      BY <1>1, <3>6 DEF u
  <2> QED
    BY <1>2, <2>3, <2>4, <2>5, <2>7
<1> QED
  BY <1>1, <1>5, <1>6 DEF InStep

-----------------------------------------------------------------------------
(* Searching                                                                *)

LEMMA SearchFacts ==
    ASSUME CdbInv, probing
    PROVE  /\ key \in Key /\ Readable /\ reply = NoReply
           /\ loop \in 0 .. Len(SlotsOf(key)) /\ loop \in Nat
           /\ Len(SlotsOf(key)) # 0 => kpos + 1 = Nth(hash[key], loop, Len(SlotsOf(key)))
           /\ ~Ends => /\ loop \in 0 .. Len(SlotsOf(key)) - 1
                       /\ Here = SlotsOf(key)[Nth(hash[key], loop, Len(SlotsOf(key)))]
                       /\ Here.p # 0
<1>1. key # NoKey
  BY DEF CdbInv, Searching
<1>2. /\ key \in Key /\ Readable /\ reply = NoReply /\ loop \in 0 .. Len(SlotsOf(key))
      /\ kpos = IF SlotsOf(key) = <<>> THEN 0
                ELSE Nth(hash[key], loop, Len(SlotsOf(key))) - 1
  BY <1>1 DEF CdbInv, Searching, TypeOK
<1> DEFINE s == SlotsOf(key)
           len == Len(s)
<1>3. /\ hash[key] \in Nat /\ len \in 0 .. 2 * MaxAdd /\ MaxAdd \in Nat
      /\ s = <<>> <=> len = 0
  BY <1>2, SlotFacts, CdbConstants
<1>4. len \in Nat /\ loop \in Nat
  BY <1>2, <1>3
<1>5. ASSUME len # 0
      PROVE  kpos + 1 = Nth(hash[key], loop, len)
  <2>1. len \in Nat \ {0} /\ loop \in 0 .. len
    BY <1>2, <1>4, <1>5
  <2>2. Nth(hash[key], loop, len) \in 1 .. len
    BY <1>3, <2>1, NthFacts
  <2>3. kpos = Nth(hash[key], loop, len) - 1
    BY <1>2, <1>3, <1>5
  <2> QED
    BY <2>2, <2>3
<1>6. ASSUME ~Ends
      PROVE  loop \in 0 .. len - 1 /\ Here = s[Nth(hash[key], loop, len)] /\ Here.p # 0
  <2>1. loop < len /\ Here.p # 0
    BY <1>6 DEF Ends
  <2>2. len # 0 /\ loop \in 0 .. len - 1
    BY <1>4, <2>1
  <2> QED
    BY <1>5, <2>1, <2>2 DEF Here
<1> QED
  BY <1>2, <1>4, <1>5, <1>6

LEMMA AdvanceFacts ==
    ASSUME CdbInv, Advance
    PROVE  /\ loop' = loop + 1 /\ loop' \in 0 .. Len(SlotsOf(key))
           /\ SlotsOf(key) # <<>>
           /\ kpos' = Nth(hash[key], loop', Len(SlotsOf(key))) - 1
<1> DEFINE s == SlotsOf(key)
           len == Len(s)
           h == hash[key]
<1>1. /\ probing /\ ~Ends /\ loop' = loop + 1
      /\ kpos' = IF kpos + 1 = len THEN 0 ELSE kpos + 1
  BY DEF Advance
<1>2. /\ key \in Key /\ Readable /\ loop \in 0 .. len - 1 /\ loop \in Nat
      /\ len # 0 => kpos + 1 = Nth(h, loop, len)
  BY <1>1, SearchFacts
<1>3. h \in Nat /\ len \in 0 .. 2 * MaxAdd /\ MaxAdd \in Nat /\ (s = <<>> <=> len = 0)
  BY <1>2, SlotFacts, CdbConstants
<1> HIDE DEF h, s, len
<1>4. len \in Nat \ {0} /\ loop + 1 \in 0 .. len
  BY <1>2, <1>3
<1>5. kpos + 1 = Nth(h, loop, len) /\ Nth(h, loop, len) \in 1 .. len
  <2>1. loop \in 0 .. len
    BY <1>2, <1>4
  <2>2. Nth(h, loop, len) \in 1 .. len
    BY <1>3, <1>4, <2>1, NthFacts
  <2> QED
    BY <1>2, <1>4, <2>2
<1>6. Nth(h, loop + 1, len) = IF Nth(h, loop, len) = len THEN 1 ELSE Nth(h, loop, len) + 1
  <2>1. \A i \in 0 .. len - 1 :
            Nth(h, i + 1, len) = IF Nth(h, i, len) = len THEN 1 ELSE Nth(h, i, len) + 1
    BY <1>3, <1>4, NthFacts
  <2> QED
    BY <1>2, <2>1
<1>7. kpos' = Nth(h, loop + 1, len) - 1
  BY <1>1, <1>4, <1>5, <1>6
<1> QED
  BY <1>1, <1>3, <1>4, <1>7 DEF h, s, len

\* The search stays where its count says; nothing is sought in a file that
\* cannot be read.
LEMMA SearchingStep ==
    ASSUME CdbInv, [Next]_vars
    PROVE  Searching'
<1>1. ASSUME phase = "adding" \/ phase = "dead", UNCHANGED findVars
      PROVE  Searching'
  <2>1. key = NoKey
    BY <1>1 DEF CdbInv, Searching, Readable
  <2> QED
    BY <1>1, <2>1 DEF CdbInv, Searching, findVars
<1>2. ASSUME NEW k \in Key, NEW n \in Sizes, AddRecord(k, n)
      PROVE  Searching'
  BY <1>1, <1>2 DEF AddRecord
<1>3. ASSUME NEW k \in Key, Find(k)
      PROVE  Searching'
  <2>1. Readable /\ Readable' /\ k # NoKey
    BY <1>3, CdbConstants DEF Find, Readable, makeVars
  <2>2. /\ key' = k /\ loop' = 0 /\ reply' = NoReply
        /\ kpos' = IF SlotsOf(k) = <<>> THEN 0 ELSE FirstSlot(hash[k], Len(SlotsOf(k)))
    BY <1>3 DEF Find
  <2>3. hash' = hash /\ table' = table
    BY <1>3 DEF Find, makeVars
  <2>4. SlotsOf(key)' = SlotsOf(k) /\ hash'[key'] = hash[k]
    BY <2>2, <2>3 DEF SlotsOf
  <2>5. /\ Len(SlotsOf(k)) \in 0 .. 2 * MaxAdd /\ MaxAdd \in Nat
        /\ (SlotsOf(k) = <<>> <=> Len(SlotsOf(k)) = 0)
        /\ Len(SlotsOf(k)) # 0 =>
            FirstSlot(hash[k], Len(SlotsOf(k))) = Nth(hash[k], 0, Len(SlotsOf(k))) - 1
    BY <2>1, SlotFacts, CdbConstants
  <2>6. loop' \in 0 .. Len(SlotsOf(k))
    BY <2>2, <2>5
  <2> QED
    BY <2>1, <2>2, <2>4, <2>5, <2>6 DEF Searching
<1>4. CASE Advance /\ (probing' => reply' = NoReply)
  <2>1. key' = key /\ hash' = hash /\ table' = table /\ phase' = phase /\ sound' = sound
    BY <1>4 DEF Advance, makeVars
  <2>2. key # NoKey /\ Readable
    BY <1>4 DEF CdbInv, Searching, Advance
  <2>3. SlotsOf(key)' = SlotsOf(key) /\ Readable'
    BY <2>1, <2>2 DEF SlotsOf, Readable
  <2>4. /\ loop' \in 0 .. Len(SlotsOf(key)) /\ SlotsOf(key) # <<>>
        /\ kpos' = Nth(hash[key], loop', Len(SlotsOf(key))) - 1
    BY <1>4, AdvanceFacts
  <2> QED
    BY <1>4, <2>1, <2>2, <2>3, <2>4 DEF Searching
<1>5. CASE FindNext \/ Miss
  <2>1. UNCHANGED <<hash, makeVars, loop, kpos, key>> /\ (probing' => reply' = NoReply)
    BY <1>5 DEF FindNext, Miss
  <2>2. key # NoKey
    BY <1>5 DEF FindNext, Miss, CdbInv, Searching
  <2>3. SlotsOf(key)' = SlotsOf(key) /\ Readable' = Readable
    BY <2>1 DEF SlotsOf, Readable, makeVars
  <2> QED
    BY <2>1, <2>2, <2>3 DEF CdbInv, Searching
<1>6. CASE UNCHANGED vars
  <2>1. SlotsOf(key)' = SlotsOf(key) /\ Readable' = Readable
    BY <1>6 DEF vars, SlotsOf, Readable, makeVars, findVars
  <2> QED
    BY <1>6, <2>1 DEF vars, findVars, CdbInv, Searching
<1>7. CASE \/ \E n \in Sizes : AddFails(n)
           \/ Finish \/ FinishFails
  <2>1. phase = "adding" /\ UNCHANGED findVars
    BY <1>7 DEF AddFails, Finish, FinishFails
  <2> QED
    BY <1>1, <2>1
<1>8. CASE Pass \/ Hit
  <2>1. Advance /\ (probing' => reply' = NoReply)
    <3>1. CASE Pass
      BY <3>1, SearchFacts DEF Pass, Advance
    <3>2. CASE Hit
      BY <3>2 DEF Hit
    <3> QED
      BY <1>8, <3>1, <3>2
  <2> QED
    BY <1>4, <2>1
<1>9. ASSUME NEW k \in Key, NEW n \in Sizes, Add(k, n) \/ AddFailsUnseen(k, n)
      PROVE  Searching'
  BY <1>2, <1>9 DEF Add, AddFailsUnseen
<1> QED
  BY <1>3, <1>5, <1>6, <1>7, <1>8, <1>9 DEF Next

-----------------------------------------------------------------------------
(* The invariant                                                            *)

LEMMA TypeStep ==
    ASSUME CdbInv, [Next]_vars, Searching'
    PROVE  TypeOK'
<1>0. /\ hash \in [Key -> HashVal] /\ head \in Seq(Seq(HeadPointer)) /\ pos \in 0 .. Limit - 1
      /\ file \in Seq(Rec) /\ end \in Nat /\ sound \in BOOLEAN
      /\ loop \in 0 .. 2 * MaxAdd /\ kpos \in 0 .. 2 * MaxAdd
      /\ key \in Key \cup {NoKey} /\ probing \in BOOLEAN
      /\ phase \in {"adding", "finished", "dead"}
  BY DEF CdbInv, TypeOK, Rec, HeadPointer
<1>1. ASSUME /\ hash' = hash /\ head' \in Seq(Seq(HeadPointer)) /\ pos' \in 0 .. Limit - 1
             /\ file' \in Seq(Rec) /\ end' \in Nat /\ sound' \in BOOLEAN
             /\ loop' \in 0 .. 2 * MaxAdd /\ kpos' \in 0 .. 2 * MaxAdd
             /\ key' \in Key \cup {NoKey} /\ probing' \in BOOLEAN
             /\ phase' \in {"adding", "finished", "dead"}
      PROVE  TypeOK'
  BY <1>0, <1>1 DEF TypeOK, Rec, HeadPointer
<1>2. ASSUME NEW k \in Key, NEW n \in Sizes, AddRecord(k, n),
             pos' \in 0 .. Limit - 1, sound' \in BOOLEAN, phase' = phase
      PROVE  TypeOK'
  <2>1. head' \in Seq(Seq(HeadPointer)) /\ file' \in Seq(Rec) /\ end' \in Nat
    BY <1>2, Added
  <2>2. hash' = hash /\ loop' = loop /\ kpos' = kpos /\ key' = key /\ probing' = probing
    BY <1>2 DEF AddRecord, findVars
  <2> QED
    BY <1>0, <1>1, <1>2, <2>1, <2>2
<1>3. ASSUME NEW k \in Key, NEW n \in Sizes, Add(k, n)
      PROVE  TypeOK'
  <2>1. NewPos(n) \in 0 .. Limit - 1
    BY <1>3, NewPosFacts DEF Add, CdbInv
  <2> QED
    BY <1>0, <1>2, <1>3, <2>1 DEF Add
<1>4. ASSUME NEW k \in Key, NEW n \in Sizes, AddFailsUnseen(k, n)
      PROVE  TypeOK'
  <2>1. pos' \in 0 .. Limit - 1
    <3>1. pos \in Nat /\ Field \in Nat \ {0}
      BY NewPosFacts DEF CdbInv
    <3>2. pos' = pos \/ pos' \in pos + Field .. Limit - 1
      BY <1>4 DEF AddFailsUnseen
    <3>3. pos' = pos => pos' \in 0 .. Limit - 1
      BY <1>0
    <3>4. \A p \in pos + Field .. Limit - 1 : p \in 0 .. Limit - 1
      BY <3>1, CdbConstants
    <3> QED
      BY <3>2, <3>3, <3>4
  <2>2. sound' \in BOOLEAN /\ phase' = phase /\ AddRecord(k, n)
    BY <1>4 DEF AddFailsUnseen
  <2> QED
    BY <1>2, <2>1, <2>2
<1>5. CASE (\E n \in Sizes : AddFails(n)) \/ Finish \/ FinishFails
  <2>1. /\ UNCHANGED <<hash, head, pos, file, end, sound, findVars>>
        /\ phase' \in {"adding", "finished", "dead"}
    BY <1>5 DEF AddFails, Finish, FinishFails
  <2> QED
    BY <1>0, <1>1, <2>1 DEF findVars
\* Searches: how far they come is bounded by the length of a table.
<1>6. ASSUME Readable, UNCHANGED <<hash, makeVars>>, NEW k \in Key, key' = k,
             probing' \in BOOLEAN
      PROVE  TypeOK'
  <2> DEFINE len == Len(SlotsOf(k))
  <2>1. /\ len \in 0 .. 2 * MaxAdd /\ MaxAdd \in Nat /\ hash[k] \in Nat
        /\ (SlotsOf(k) = <<>> <=> len = 0)
    BY <1>6, SlotFacts, CdbConstants
  <2>2. SlotsOf(key)' = SlotsOf(k) /\ hash'[key'] = hash[k]
    BY <1>6 DEF SlotsOf, makeVars
  <2>3. /\ loop' \in 0 .. len
        /\ kpos' = IF SlotsOf(k) = <<>> THEN 0 ELSE Nth(hash[k], loop', len) - 1
    <3>1. key' # NoKey
      BY <1>6, CdbConstants
    <3> QED
      BY <2>2, <3>1 DEF Searching
  <2>4. kpos' \in 0 .. 2 * MaxAdd
    <3>1. CASE SlotsOf(k) = <<>>
      BY <2>1, <2>3, <3>1
    <3>2. CASE SlotsOf(k) # <<>>
      <4>1. len \in Nat \ {0}
        BY <2>1, <3>2
      <4> HIDE DEF len
      <4>2. Nth(hash[k], loop', len) \in 1 .. len
        BY <2>1, <2>3, <4>1, NthFacts
      <4> QED
        BY <2>1, <2>3, <3>2, <4>1, <4>2
    <3> QED
      BY <3>1, <3>2
  <2>5. loop' \in 0 .. 2 * MaxAdd
    BY <2>1, <2>3
  <2> QED
    BY <1>0, <1>1, <1>6, <2>4, <2>5 DEF makeVars
<1>7. ASSUME NEW k \in Key, Find(k)
      PROVE  TypeOK'
  BY <1>6, <1>7 DEF Find
<1>8. CASE FindNext
  BY <1>0, <1>1, <1>8 DEF FindNext, makeVars
<1>9. CASE Miss
  BY <1>0, <1>1, <1>9 DEF Miss, makeVars
<1>10. CASE Pass \/ Hit
  <2>1. Advance /\ probing' \in BOOLEAN
    BY <1>0, <1>10 DEF Pass, Hit
  <2>2. key \in Key /\ Readable
    BY <2>1, SearchFacts DEF Advance
  <2> QED
    BY <1>6, <2>1, <2>2 DEF Advance
<1>11. CASE UNCHANGED vars
  BY <1>0, <1>1, <1>11 DEF vars, makeVars, findVars
<1> QED
  BY <1>3, <1>4, <1>5, <1>7, <1>8, <1>9, <1>10, <1>11 DEF Next

\* What does not write a record leaves file, positions and tables in step.
LEMMA FileStep ==
    ASSUME CdbInv, [Next]_vars
    PROVE  Numbered' /\ InStep' /\ TablesBuilt'
<1>1. ASSUME NEW k \in Key, NEW n \in Sizes, Add(k, n) \/ AddFailsUnseen(k, n)
      PROVE  Numbered' /\ InStep' /\ TablesBuilt'
  <2>1. /\ AddRecord(k, n) /\ (sound' => sound /\ NewPos(n) # -1 /\ pos' = NewPos(n))
        /\ phase' # "finished"
    BY <1>1 DEF Add, AddFailsUnseen, AddRecord
  <2> QED
    BY <2>1, WritingStep DEF TablesBuilt
<1>2. ASSUME UNCHANGED <<hash, head, pos, file, end, sound>>
      PROVE  Numbered' /\ InStep'
  <2>1. Walk' = Walk
    BY <1>2 DEF Walk
  <2>2. \A i : Pointer(i)' = Pointer(i)
    BY <1>2 DEF Pointer
  <2>3. [m \in 1 .. Len(file) |-> Pointer(Len(file) + 1 - m)]'
            = [m \in 1 .. Len(file) |-> Pointer(Len(file) + 1 - m)]
    BY <1>2 DEF Pointer
  <2> QED
    BY <1>2, <2>1, <2>3 DEF CdbInv, Numbered, InStep
<1>3. ASSUME UNCHANGED head, NEW t
      PROVE  Slots(t)' = Slots(t)
  <2>1. Walk' = Walk
    BY <1>3 DEF Walk
  <2>2. Of(t)' = Of(t)
    BY <2>1 DEF Of
  <2>3. Split(t)' = Split(t)
    BY <2>1, <2>2 DEF Split
  <2> QED
    BY <2>3 DEF Slots
<1>4. ASSUME UNCHANGED <<head, phase, table>>
      PROVE  TablesBuilt'
  BY <1>3, <1>4 DEF CdbInv, TablesBuilt
<1>5. CASE (\E n \in Sizes : AddFails(n)) \/ FinishFails
  BY <1>2, <1>5 DEF AddFails, FinishFails, TablesBuilt
<1>6. CASE Finish
  <2>1. UNCHANGED <<hash, head, pos, file, end, sound>>
    BY <1>6 DEF Finish
  <2>2. table' = [t \in 0 .. Tables - 1 |-> Slots(t)]
    BY <1>6 DEF Finish
  <2> QED
    BY <1>2, <1>3, <2>1, <2>2 DEF TablesBuilt
<1>7. CASE UNCHANGED <<hash, makeVars>>
  BY <1>2, <1>4, <1>7 DEF makeVars
<1>8. CASE (\E k \in Key : Find(k)) \/ FindNext \/ Pass \/ Hit \/ Miss
  BY <1>7, <1>8 DEF Find, FindNext, Pass, Hit, Advance, Miss
<1>9. CASE UNCHANGED vars
  BY <1>7, <1>9 DEF vars
<1> QED
  BY <1>1, <1>5, <1>6, <1>8, <1>9 DEF Next

LEMMA InvInit == Init => CdbInv
<1> SUFFICES ASSUME Init PROVE CdbInv
  OBVIOUS
<1>1. /\ Final \in Nat \ {0} /\ Limit \in Nat /\ Final < Limit /\ MaxAdd \in Nat
      /\ HashVal \subseteq Nat
  BY CdbConstants
<1>2. TypeOK
  <2>1. Final \in 0 .. Limit - 1 /\ Final \in Nat /\ 0 \in 0 .. 2 * MaxAdd
    BY <1>1
  <2>2. \A A : <<>> \in Seq(A)
    OBVIOUS
  <2> QED
    BY <2>1, <2>2 DEF Init, TypeOK
<1>3. Len(file) = 0 /\ DOMAIN file = {} /\ head = <<>> /\ pos = Final /\ end = Final
  BY DEF Init
<1>4. Walk = <<>>
  <2>1. [i \in 1 .. Len(head) |-> Reverse(head[i])] = <<>>
    BY <1>3
  <2> QED
    BY <2>1, NothingToFlatten DEF Walk
<1>5. Numbered /\ InStep
  <2>1. [n \in 1 .. Len(file) |-> Pointer(Len(file) + 1 - n)] = <<>>
    BY <1>3
  <2> QED
    BY <1>1, <1>3, <1>4, <2>1 DEF Numbered, InStep
<1>6. TablesBuilt /\ Searching
  BY DEF Init, TablesBuilt, Searching
<1> QED
  BY <1>2, <1>5, <1>6 DEF CdbInv

LEMMA CdbStep == CdbInv /\ [Next]_vars => CdbInv'
  BY SearchingStep, TypeStep, FileStep DEF CdbInv

\* cdb_make_add, cdb_make_finish, cdb_findnext: the positions noted are right as
\* long as no failure went unseen, the tables are those of the records, and a
\* search is where its count says.
THEOREM CdbInvariance == Spec => []CdbInv
<1> QED
  BY CdbStep, InvInit, PTL DEF Spec

\* cdb_make.c: the file and the positions noted agree, for a file of any length,
\* and a walk from the first slot of a record's hash comes to the record before
\* it comes to an empty slot, whatever hashes collide.
THEOREM FileIsSound == Spec => [](FileInStep /\ EveryRecordReachable)
<1>1. CdbInv => FileInStep /\ EveryRecordReachable
  BY Reachable DEF CdbInv, InStep, FileInStep
<1> QED
  BY <1>1, CdbInvariance, PTL

-----------------------------------------------------------------------------
(* The database is a multimap                                               *)

\* The data of the records in S, in their order
DataFrom(S) == [n \in 1 .. Cardinality(S) |-> file[InOrder(S)[n]].data]

LEMMA TakenOne ==
    ASSUME NEW S \in SUBSET Nat, IsFiniteSet(S), NEW m \in S, \A i \in S : m <= i
    PROVE  /\ DataFrom(S) # <<>> /\ Head(DataFrom(S)) = file[m].data
           /\ Tail(DataFrom(S)) = DataFrom(S \ {m})
<1> DEFINE n == Cardinality(S)
           d == DataFrom(S)
           A == {d[i] : i \in 1 .. n}
<1>1. /\ n \in Nat \ {0} /\ Cardinality(S \ {m}) = n - 1 /\ InOrder(S)[1] = m
      /\ \A k \in 1 .. n - 1 : InOrder(S \ {m})[k] = InOrder(S)[k + 1]
  BY LeastFirst
<1>2. d = [k \in 1 .. n |-> file[InOrder(S)[k]].data]
  BY DEF DataFrom
<1> HIDE DEF d, n
<1>3. d \in Seq(A) /\ Len(d) = n /\ d # <<>>
  <2>1. d \in [1 .. n -> A] /\ n \in Nat
    BY <1>1, <1>2
  <2> HIDE DEF A
  <2>2. d \in Seq(A) /\ Len(d) = n
    BY <2>1
  <2>3. n # 0
    BY <1>1
  <2> QED
    BY <2>2, <2>3
<1>4. Head(d) = file[m].data
  <2>1. 1 \in 1 .. n /\ Head(d) = d[1]
    BY <1>1, <1>3
  <2> QED
    BY <1>1, <1>2, <2>1
<1>5. Tail(d) = [k \in 1 .. n - 1 |-> d[k + 1]]
  <2> HIDE DEF A
  <2>1. /\ Tail(d) \in Seq(A) /\ Len(Tail(d)) = n - 1
        /\ \A k \in 1 .. n - 1 : Tail(d)[k] = d[k + 1]
    BY <1>3, HeadTailProperties
  <2> DEFINE t == Tail(d)
  <2> HIDE DEF t
  <2>2. t = [k \in 1 .. n - 1 |-> t[k]]
    <3>1. t \in Seq(A) /\ Len(t) = n - 1 /\ n - 1 \in Nat
      BY <1>1, <2>1 DEF t
    <3> QED
      BY <3>1
  <2> QED
    BY <2>1, <2>2 DEF t
<1>6. DataFrom(S \ {m}) = [k \in 1 .. n - 1 |-> file[InOrder(S \ {m})[k]].data]
  BY <1>1 DEF DataFrom
<1>7. ASSUME NEW k \in 1 .. n - 1
      PROVE  d[k + 1] = file[InOrder(S \ {m})[k]].data
  <2>1. k + 1 \in 1 .. n
    BY <1>1
  <2> QED
    BY <1>1, <1>2, <2>1
<1>8. Tail(d) = DataFrom(S \ {m})
  BY <1>5, <1>6, <1>7
<1> QED
  BY <1>3, <1>4, <1>8 DEF d

LEMMA AheadFacts ==
    ASSUME CdbInv
    PROVE  /\ Left = DataFrom(Ahead) /\ Ahead \in SUBSET Nat /\ IsFiniteSet(Ahead)
           /\ Ahead = {} => Left = <<>>
           /\ key = NoKey => Ahead = {}
<1>1. Left = DataFrom(Ahead)
  BY DEF Left, DataFrom
<1>2. Len(file) \in 0 .. MaxAdd /\ MaxAdd \in Nat /\ DOMAIN file = 1 .. Len(file)
  BY FileFacts, CdbConstants
<1>3. Ahead \in SUBSET (1 .. Len(file)) /\ Ahead \in SUBSET Nat
  BY <1>2 DEF Ahead
<1>4. IsFiniteSet(Ahead)
  <2>1. IsFiniteSet(1 .. Len(file))
    BY <1>2, FS_Interval
  <2> QED
    BY <1>3, <2>1, FS_Subset
<1>5. ASSUME Ahead = {}
      PROVE  Left = <<>>
  <2>1. Cardinality(Ahead) = 0
    BY <1>5, FS_EmptySet
  <2> QED
    BY <2>1 DEF Left
<1>6. ASSUME key = NoKey
      PROVE  Ahead = {}
  <2>1. \A i \in DOMAIN file : file[i].key \in Key
    BY <1>2, FileFacts
  <2> QED
    BY <1>6, <2>1, CdbConstants DEF Ahead
<1> QED
  BY <1>1, <1>3, <1>4, <1>5, <1>6

\* What has not changed when only the place of the search has
LEMMA SameOffsets ==
    ASSUME UNCHANGED <<hash, makeVars>>, NEW k
    PROVE  /\ SlotsOf(k)' = SlotsOf(k)
           /\ \A s, i : Offset(s, i)' = Offset(s, i)
           /\ \A S : DataFrom(S)' = DataFrom(S)
<1>1. hash' = hash /\ file' = file /\ table' = table
  BY DEF makeVars
<1>2. \A i : Pointer(i)' = Pointer(i)
  BY <1>1 DEF Pointer
<1>3. \A s, i : Offset(s, i)' = Offset(s, i)
  BY <1>2 DEF Offset
<1> QED
  BY <1>1, <1>3 DEF SlotsOf, DataFrom

\* Where the record of a key lies in its table
LEMMA WhereItIs ==
    ASSUME CdbInv, probing
    PROVE  LET s == SlotsOf(key) IN
           /\ Ahead = {i \in DOMAIN file : file[i].key = key /\ Offset(s, i) >= loop}
           /\ \A i \in DOMAIN file : file[i].key = key =>
                /\ Offset(s, i) \in 0 .. Len(s) - 1
                /\ s[Nth(hash[key], Offset(s, i), Len(s))] = Pointer(i)
                /\ \A j \in 0 .. Offset(s, i) - 1 : s[Nth(hash[key], j, Len(s))].p # 0
                /\ \A d \in 0 .. Len(s) - 1 :
                    s[Nth(hash[key], d, Len(s))] = Pointer(i) => d = Offset(s, i)
           /\ \A i, j \in DOMAIN file : i < j /\ file[i].key = key /\ file[j].key = key
                => Offset(s, i) < Offset(s, j)
<1> DEFINE t == hash[key] % Tables
           s == SlotsOf(key)
<1>1. key \in Key /\ Readable
  BY SearchFacts
<1>2. t \in 0 .. Tables - 1 /\ s = table[t]
  BY <1>1, SlotFacts DEF SlotsOf
<1>3. \A i \in DOMAIN file : Pointer(i).h = hash[file[i].key]
  BY FileFacts
<1>4. \A i \in DOMAIN file : file[i].key = key => i \in In(t) /\ Pointer(i).h = hash[key]
  BY <1>3 DEF In
<1> HIDE DEF t, s
<1>5. /\ \A i \in In(t) : /\ Offset(s, i) \in 0 .. Len(s) - 1
                          /\ Placed(s, Pointer(i), Offset(s, i))
      /\ \A i \in In(t) : \A d \in 0 .. Len(s) - 1 :
            s[Nth(Pointer(i).h, d, Len(s))] = Pointer(i) => d = Offset(s, i)
      /\ \A i, j \in In(t) : i < j /\ Pointer(i).h = Pointer(j).h
            => Offset(s, i) < Offset(s, j)
  BY <1>1, <1>2, OffsetFacts
<1>6. ASSUME NEW i \in DOMAIN file, file[i].key = key
      PROVE  /\ Offset(s, i) \in 0 .. Len(s) - 1
             /\ s[Nth(hash[key], Offset(s, i), Len(s))] = Pointer(i)
             /\ \A j \in 0 .. Offset(s, i) - 1 : s[Nth(hash[key], j, Len(s))].p # 0
             /\ \A d \in 0 .. Len(s) - 1 :
                    s[Nth(hash[key], d, Len(s))] = Pointer(i) => d = Offset(s, i)
  BY <1>4, <1>5, <1>6 DEF Placed
<1>7. ASSUME NEW i \in DOMAIN file, NEW j \in DOMAIN file, i < j,
             file[i].key = key, file[j].key = key
      PROVE  Offset(s, i) < Offset(s, j)
  BY <1>4, <1>5, <1>7
<1>8. Ahead = {i \in DOMAIN file : file[i].key = key /\ Offset(s, i) >= loop}
  BY DEF Ahead, s
<1> QED
  BY <1>6, <1>7, <1>8 DEF s

\* A slot that does not match is none of those the search will find.
LEMMA PassKeeps ==
    ASSUME CdbInv, Pass
    PROVE  Left' = Left
<1> DEFINE s == SlotsOf(key)
           len == Len(s)
<1>1. /\ Advance /\ ~Matches(Here) /\ probing /\ ~Ends /\ loop' = loop + 1 /\ key' = key
      /\ UNCHANGED <<hash, makeVars>> /\ file' = file
  BY DEF Pass, Advance, makeVars
<1>2. loop \in 0 .. len - 1 /\ loop \in Nat /\ Here = s[Nth(hash[key], loop, len)]
  BY <1>1, SearchFacts
<1>3. /\ Ahead = {i \in DOMAIN file : file[i].key = key /\ Offset(s, i) >= loop}
      /\ \A i \in DOMAIN file : file[i].key = key =>
            /\ Offset(s, i) \in 0 .. len - 1
            /\ s[Nth(hash[key], Offset(s, i), len)] = Pointer(i)
  BY <1>1, WhereItIs
<1>4. SlotsOf(key)' = s /\ \A i : Offset(s, i)' = Offset(s, i)
  BY <1>1, SameOffsets DEF SlotsOf
<1>5. Ahead' = {i \in DOMAIN file : file[i].key = key /\ Offset(s, i) >= loop + 1}
  BY <1>1, <1>4 DEF Ahead
<1> HIDE DEF s, len
<1>6. ASSUME NEW i \in DOMAIN file, file[i].key = key, Offset(s, i) = loop
      PROVE  FALSE
  <2>1. Here = Pointer(i)
    BY <1>2, <1>3, <1>6
  <2>2. i \in 1 .. Len(file) /\ Here.h = hash[key] /\ file[i].at = Here.p
    BY <1>6, <2>1, FileFacts
  <2>3. Matches(Here)
    BY <1>6, <2>2 DEF Matches
  <2> QED
    BY <1>1, <2>3
<1>7. Ahead' = Ahead
  <2>1. ASSUME NEW i \in DOMAIN file, file[i].key = key
        PROVE  Offset(s, i) >= loop + 1 <=> Offset(s, i) >= loop
    <3>1. Offset(s, i) \in Int /\ Offset(s, i) # loop
      BY <1>3, <1>6, <2>1
    <3> QED
      BY <1>2, <3>1
  <2> QED
    BY <1>3, <1>5, <2>1
<1>8. DataFrom(Ahead)' = DataFrom(Ahead)
  BY <1>1, <1>7 DEF DataFrom
<1> QED
  BY <1>8 DEF Left, DataFrom

\* A slot that matches belongs to the first of those the search will find.
LEMMA HitTakes ==
    ASSUME CdbInv, Hit
    PROVE  /\ Left # <<>> /\ reply' = Yield(Head(Left))
           /\ Left' = Tail(Left)
<1> DEFINE s == SlotsOf(key)
           len == Len(s)
<1>1. /\ Advance /\ Matches(Here) /\ probing /\ ~Ends /\ loop' = loop + 1 /\ key' = key
      /\ UNCHANGED <<hash, makeVars>> /\ file' = file
  BY DEF Hit, Advance, makeVars
<1>2. /\ loop \in 0 .. len - 1 /\ loop \in Nat /\ Here = s[Nth(hash[key], loop, len)]
      /\ key \in Key /\ Readable
  BY <1>1, SearchFacts
<1>3. /\ Ahead = {i \in DOMAIN file : file[i].key = key /\ Offset(s, i) >= loop}
      /\ \A i \in DOMAIN file : file[i].key = key =>
            /\ Offset(s, i) \in 0 .. len - 1
            /\ \A d \in 0 .. len - 1 :
                    s[Nth(hash[key], d, len)] = Pointer(i) => d = Offset(s, i)
      /\ \A i, j \in DOMAIN file : i < j /\ file[i].key = key /\ file[j].key = key
            => Offset(s, i) < Offset(s, j)
  BY <1>1, WhereItIs
<1>4. SlotsOf(key)' = s /\ \A i : Offset(s, i)' = Offset(s, i)
  BY <1>1, SameOffsets DEF SlotsOf
<1>5. Ahead' = {i \in DOMAIN file : file[i].key = key /\ Offset(s, i) >= loop + 1}
  BY <1>1, <1>4 DEF Ahead
<1>6. Here \in HashPointer
  <2>1. /\ s \in [1 .. len -> HashPointer] /\ hash[key] \in Nat
        /\ len \in 0 .. 2 * MaxAdd /\ MaxAdd \in Nat
    BY <1>2, SlotFacts, CdbConstants
  <2> HIDE DEF s, len
  <2>2. len \in Nat \ {0} /\ loop \in 0 .. len
    BY <1>2, <2>1
  <2>3. Nth(hash[key], loop, len) \in 1 .. len
    BY <2>1, <2>2, NthFacts
  <2> QED
    BY <1>2, <2>1, <2>3
<1> HIDE DEF s, len
<1>7. PICK r \in 1 .. Len(file) : file[r].at = Here.p /\ file[r].key = key
  BY <1>1 DEF Matches
<1>8. r \in DOMAIN file /\ r \in Nat /\ Here = Pointer(r)
  <2>1. r \in DOMAIN file /\ Here.h = hash[key]
    BY <1>1, FileFacts DEF Matches
  <2>2. Here = [h |-> Here.h, p |-> Here.p]
    BY <1>6 DEF HashPointer
  <2> QED
    BY <1>7, <2>1, <2>2 DEF Pointer
<1>9. Offset(s, r) = loop /\ r \in Ahead
  <2>1. Offset(s, r) = loop
    BY <1>2, <1>3, <1>7, <1>8
  <2> QED
    BY <1>2, <1>3, <1>7, <1>8, <2>1
<1>10. \A i \in Ahead : /\ i \in DOMAIN file /\ file[i].key = key /\ i \in Nat
                        /\ Offset(s, i) \in Int /\ Offset(s, i) >= loop
  BY <1>3, AheadFacts
<1>11. \A i \in Ahead : r <= i
  <2> TAKE i \in Ahead
  <2>1. ~(i < r)
    <3>1. i < r => Offset(s, i) < Offset(s, r)
      BY <1>3, <1>7, <1>8, <1>10
    <3> QED
      BY <1>2, <1>9, <1>10, <3>1
  <2> QED
    BY <1>8, <1>10, <2>1
<1>12. Ahead' = Ahead \ {r}
  <2>1. ASSUME NEW i \in Ahead, i # r
        PROVE  Offset(s, i) >= loop + 1
    <3>1. r < i
      BY <1>8, <1>10, <1>11, <2>1
    <3>2. Offset(s, r) < Offset(s, i)
      BY <1>3, <1>7, <1>8, <1>10, <3>1
    <3> QED
      BY <1>2, <1>9, <1>10, <3>2
  <2>2. ASSUME NEW i \in DOMAIN file, file[i].key = key, Offset(s, i) >= loop + 1
        PROVE  i \in Ahead /\ i # r
    <3>1. Offset(s, i) \in Int
      BY <1>3, <2>2
    <3> QED
      BY <1>2, <1>3, <1>9, <2>2, <3>1
  <2> QED
    BY <1>5, <1>10, <2>1, <2>2
<1>13. /\ Left = DataFrom(Ahead) /\ DataFrom(Ahead) # <<>>
       /\ Head(DataFrom(Ahead)) = file[r].data
       /\ Tail(DataFrom(Ahead)) = DataFrom(Ahead \ {r})
  BY <1>9, <1>11, AheadFacts, TakenOne
<1>14. Left' = DataFrom(Ahead \ {r})
  <2>1. Left' = DataFrom(Ahead)'
    BY DEF Left, DataFrom
  <2>2. DataFrom(Ahead)' = DataFrom(Ahead \ {r})
    BY <1>1, <1>12 DEF DataFrom
  <2> QED
    BY <2>1, <2>2
<1>15. reply' = Yield(file[r].data)
  <2>1. PICK q \in 1 .. Len(file) : file[q].at = Here.p /\ reply' = Yield(file[q].data)
    BY DEF Hit
  <2>2. q = r
    <3>1. \A i, j \in 1 .. Len(file) : i < j => file[i].at < file[j].at
      BY <1>2, FileFacts DEF CdbInv, InStep, Readable
    <3>2. /\ q \in Nat /\ r \in Nat /\ file[q].at \in Nat /\ file[r].at \in Nat
          /\ file[q].at = file[r].at
      BY <1>7, <2>1, FileFacts
    <3>3. ~(q < r) /\ ~(r < q)
      BY <3>1, <3>2
    <3> QED
      BY <3>2, <3>3
  <2> QED
    BY <2>1, <2>2
<1> QED
  BY <1>13, <1>14, <1>15

\* An empty slot, or the last one seen, means that nothing is left.
LEMMA MissRight ==
    ASSUME CdbInv, Miss
    PROVE  Left = <<>>
<1> DEFINE s == SlotsOf(key)
           len == Len(s)
<1>1. probing /\ Ends
  BY DEF Miss
<1>2. /\ loop \in 0 .. len /\ loop \in Nat
      /\ len # 0 => kpos + 1 = Nth(hash[key], loop, len)
      /\ key \in Key /\ Readable
  BY <1>1, SearchFacts
<1>3. /\ Ahead = {i \in DOMAIN file : file[i].key = key /\ Offset(s, i) >= loop}
      /\ \A i \in DOMAIN file : file[i].key = key =>
            /\ Offset(s, i) \in 0 .. len - 1
            /\ s[Nth(hash[key], Offset(s, i), len)] = Pointer(i)
            /\ \A j \in 0 .. Offset(s, i) - 1 : s[Nth(hash[key], j, len)].p # 0
  BY <1>1, WhereItIs
<1>4. loop < len => s[kpos + 1].p = 0
  BY <1>1 DEF Ends, Here
<1>5. len \in Nat
  <2>1. len \in 0 .. 2 * MaxAdd /\ MaxAdd \in Nat
    BY <1>2, SlotFacts, CdbConstants
  <2> QED
    BY <2>1
<1>6. \A i \in DOMAIN file : Pointer(i).p # 0
  <2>1. \A i \in DOMAIN file : file[i].at \in 1 .. end - 1
    BY <1>2 DEF CdbInv, InStep, Readable
  <2>2. \A i \in DOMAIN file : file[i].at # 0
    BY <2>1
  <2> QED
    BY <2>2, FileFacts
<1> HIDE DEF s, len
<1>7. ASSUME NEW i \in Ahead
      PROVE  FALSE
  <2>1. /\ i \in DOMAIN file /\ file[i].key = key /\ Offset(s, i) >= loop
        /\ Offset(s, i) \in 0 .. len - 1
    BY <1>3
  <2>2. loop < len /\ len # 0
    BY <1>2, <1>5, <2>1
  <2>3. s[Nth(hash[key], loop, len)].p = 0
    BY <1>2, <1>4, <2>2
  <2>4. CASE Offset(s, i) = loop
    <3>1. s[Nth(hash[key], loop, len)] = Pointer(i)
      BY <1>3, <2>1, <2>4
    <3> QED
      BY <1>6, <2>1, <2>3, <3>1
  <2>5. CASE Offset(s, i) # loop
    <3>1. loop \in 0 .. Offset(s, i) - 1
      BY <1>2, <2>1, <2>5
    <3> QED
      BY <1>3, <2>1, <2>3, <3>1
  <2> QED
    BY <2>4, <2>5
<1> QED
  BY <1>7, AheadFacts

\* The records as the multimap sees them
Rows == [i \in 1 .. Len(file) |-> [key |-> file[i].key, data |-> file[i].data]]

\* The multimap's instances of what both use
LEMMA SameKept == \A s, T : Abstract!Kept(s, T) = Kept(s, T)
BY DEF Abstract!Kept, Kept, Abstract!InOrder, InOrder, Abstract!Cardinality, Cardinality

\* A new search has to yield what the multimap has under the key.
LEMMA FindLeft ==
    ASSUME CdbInv, NEW k \in Key, Find(k)
    PROVE  Left' = Abstract!DataOf(Rows, k)
<1> DEFINE S == {i \in DOMAIN file : file[i].key = k}
           s == SlotsOf(k)
           t == hash[k] % Tables
           T == {r \in ToSet(Rows) : r.key = k}
           hits == Kept(Rows, T)
<1>1. /\ Readable /\ key' = k /\ loop' = 0 /\ UNCHANGED <<hash, makeVars>> /\ file' = file
  BY DEF Find, makeVars
<1>2. DOMAIN file = 1 .. Len(file) /\ \A i \in DOMAIN file : Pointer(i).h = hash[file[i].key]
  BY FileFacts
<1>3. \A i \in S : Offset(s, i) >= 0
  <2>1. t \in 0 .. Tables - 1 /\ s = table[t]
    BY <1>1, SlotFacts DEF SlotsOf
  <2>2. \A i \in S : i \in In(t)
    BY <1>2 DEF In
  <2> HIDE DEF t, s, S
  <2>3. \A i \in S : Offset(s, i) \in 0 .. Len(s) - 1
    BY <1>1, <2>1, <2>2, OffsetFacts
  <2> QED
    BY <2>3
<1>4. Ahead' = S
  <2>1. SlotsOf(key)' = s
    BY <1>1 DEF SlotsOf, makeVars
  <2>2. \A x, i : Offset(x, i)' = Offset(x, i)
    BY <1>1, SameOffsets
  <2>3. Ahead' = {i \in DOMAIN file : file[i].key = k /\ Offset(s, i) >= 0}
    BY <1>1, <2>1, <2>2 DEF Ahead
  <2> QED
    BY <1>3, <2>3
<1>5. {i \in DOMAIN Rows : Rows[i] \in T} = S
  <2>1. DOMAIN Rows = DOMAIN file
    BY <1>2 DEF Rows
  <2>2. \A i \in DOMAIN file : Rows[i] \in ToSet(Rows) /\ Rows[i].key = file[i].key
    BY <1>2 DEF Rows, ToSet
  <2> QED
    BY <2>1, <2>2
<1>6. Abstract!DataOf(Rows, k) = [n \in DOMAIN hits |-> hits[n].data]
  BY SameKept DEF Abstract!DataOf, Abstract!ToSet, ToSet
<1> HIDE DEF S, T
<1>7. hits = [n \in 1 .. Cardinality(S) |-> Rows[InOrder(S)[n]]]
  <2>1. hits = [n \in DOMAIN InOrder(S) |-> Rows[InOrder(S)[n]]]
    BY ONLY <1>5, Zenon DEF Kept, hits
  <2>2. DOMAIN InOrder(S) = 1 .. Cardinality(S)
    BY DEF InOrder
  <2> QED
    BY <2>1, <2>2
<1>8. \A n \in 1 .. Cardinality(S) : Rows[InOrder(S)[n]].data = file[InOrder(S)[n]].data
  <2>1. S \in SUBSET (1 .. Len(file)) /\ S \in SUBSET Nat
    BY <1>2 DEF S
  <2>2. IsFiniteSet(S)
    <3>1. IsFiniteSet(1 .. Len(file))
      BY FS_Interval, FileFacts, CdbConstants
    <3> QED
      BY <2>1, <3>1, FS_Subset
  <2>3. InOrder(S) \in Seq(S) /\ Len(InOrder(S)) = Cardinality(S)
    BY <2>1, <2>2, Ordered
  <2>4. \A n \in 1 .. Cardinality(S) : InOrder(S)[n] \in S
    BY <2>3
  <2>5. \A i \in 1 .. Len(file) : Rows[i].data = file[i].data
    BY DEF Rows
  <2> QED
    BY <2>1, <2>4, <2>5
<1> HIDE DEF hits
<1>9. DOMAIN hits = 1 .. Cardinality(S)
      /\ \A n \in 1 .. Cardinality(S) : hits[n] = Rows[InOrder(S)[n]]
  BY <1>7
<1>10. Abstract!DataOf(Rows, k) = [n \in 1 .. Cardinality(S) |-> file[InOrder(S)[n]].data]
  BY <1>6, <1>8, <1>9
<1>11. Left' = [n \in 1 .. Cardinality(Ahead') |-> file'[InOrder(Ahead')[n]].data]
  BY DEF Left
<1> QED
  BY <1>1, <1>4, <1>10, <1>11

\* A record that is added is one more row.
LEMMA AddedRow ==
    ASSUME CdbInv, NEW k \in Key, NEW n \in Sizes, AddRecord(k, n)
    PROVE  /\ Rows' = Append(Rows, [key |-> k, data |-> Len(file) + 1])
           /\ Len(file) + 1 \in 1 .. MaxAdd
<1>0. PICK L \in Nat : L = Len(file)
  <2>1. Len(file) \in 0 .. MaxAdd /\ MaxAdd \in Nat
    BY FileFacts, CdbConstants
  <2>2. Len(file) \in Nat
    BY <2>1
  <2> QED
    BY <2>2
<1> DEFINE row == [key |-> k, data |-> L + 1]
           A == {Rows[i] : i \in 1 .. L} \cup {row}
           u == Append(Rows, row)
<1>1. /\ L \in 0 .. MaxAdd - 1 /\ MaxAdd \in Nat /\ Len(file') = L + 1
      /\ \A i \in 1 .. L : file'[i] = file[i]
      /\ file'[L + 1] = [key |-> k, data |-> L + 1, at |-> end]
  BY <1>0, Added, CdbConstants
<1>2. /\ Rows = [i \in 1 .. L |-> [key |-> file[i].key, data |-> file[i].data]]
      /\ Rows' = [i \in 1 .. L + 1 |-> [key |-> file'[i].key, data |-> file'[i].data]]
  BY <1>0, <1>1 DEF Rows
<1>3. Rows \in Seq(A) /\ Len(Rows) = L /\ row \in A
  <2> DEFINE q == Rows
  <2>1. q \in [1 .. L -> A] /\ row \in A
    BY <1>2
  <2> HIDE DEF q, A
  <2>2. q \in Seq(A) /\ Len(q) = L
    BY <2>1
  <2> QED
    BY <2>1, <2>2 DEF q
<1> HIDE DEF A, row
<1>4. /\ u \in Seq(A) /\ Len(u) = L + 1 /\ u[L + 1] = row
      /\ \A i \in 1 .. L : u[i] = Rows[i]
  BY <1>3, AppendProperties
<1> HIDE DEF u
<1>5. u = [i \in 1 .. L + 1 |-> u[i]]
  BY <1>4
<1>6. ASSUME NEW i \in 1 .. L + 1
      PROVE  u[i] = [key |-> file'[i].key, data |-> file'[i].data]
  <2>1. CASE i \in 1 .. L
    BY <1>1, <1>2, <1>4, <2>1
  <2>2. CASE i = L + 1
    BY <1>1, <1>4, <2>2 DEF row
  <2> QED
    BY <2>1, <2>2
<1>7. Rows' = u
  BY <1>2, <1>5, <1>6
<1>8. L + 1 \in 1 .. MaxAdd
  BY <1>1
<1> QED
  BY <1>0, <1>7, <1>8 DEF u, row

\* A step of the database is one of the multimap, or none.
LEMMA RefinedStep ==
    ASSUME CdbInv, CdbInv', [Next]_vars
    PROVE  [Abstract!Next]_Abstract!vars
<1> DEFINE open == phase = "adding"
<1>0. Rows = [i \in 1 .. Len(file) |-> [key |-> file[i].key, data |-> file[i].data]]
  BY DEF Rows
<1>1. ASSUME key = NoKey, key' = NoKey
      PROVE  Left = <<>> /\ Left' = <<>>
  <2>1. Left = <<>>
    BY <1>1, AheadFacts
  <2>2. (key = NoKey => Left = <<>>)'
    BY AheadFacts, PTL
  <2> QED
    BY <1>1, <2>1, <2>2
<1>2. ASSUME NEW k \in Key, NEW n \in Sizes, Add(k, n) \/ AddFailsUnseen(k, n)
      PROVE  Abstract!Next
  <2>1. AddRecord(k, n) /\ phase = "adding" /\ phase' = phase
    BY <1>2 DEF Add, AddFailsUnseen, AddRecord
  <2>2. /\ Rows' = Append(Rows, [key |-> k, data |-> Len(file) + 1])
        /\ Len(file) + 1 \in 1 .. MaxAdd
    BY <2>1, AddedRow
  <2>3. key = NoKey /\ key' = NoKey /\ reply' = reply
    BY <2>1 DEF AddRecord, findVars, CdbInv, Searching, Readable
  <2>4. Left' = Left
    BY <1>1, <2>3
  <2>5. PICK d \in 1 .. MaxAdd : d = Len(file) + 1
    BY <2>2
  <2>6. Abstract!Add(k, d)
    BY <2>1, <2>2, <2>3, <2>4, <2>5 DEF Abstract!Add, Rows
  <2> QED
    BY <2>6 DEF Abstract!Next
<1>3. CASE (\E n \in Sizes : AddFails(n)) \/ Finish \/ FinishFails
  <2>1. phase = "adding" /\ phase' # "adding" /\ file' = file /\ UNCHANGED findVars
    BY <1>3 DEF AddFails, Finish, FinishFails
  <2>2. key = NoKey /\ key' = NoKey /\ reply' = reply
    BY <2>1 DEF findVars, CdbInv, Searching, Readable
  <2>3. Left' = Left
    BY <1>1, <2>2
  <2>4. Abstract!Seal
    BY <2>1, <2>2, <2>3 DEF Abstract!Seal
  <2> QED
    BY <2>4 DEF Abstract!Next
<1>4. ASSUME NEW k \in Key, Find(k)
      PROVE  Abstract!Next
  <2>1. Left' = Abstract!DataOf(Rows, k)
    BY <1>4, FindLeft
  <2>2. /\ phase # "adding" /\ phase' = phase /\ file' = file
        /\ reply' = NoReply
    BY <1>4 DEF Find, Readable, makeVars
  <2>3. Abstract!Search(k)
    BY <2>1, <2>2 DEF Abstract!Search, Rows, NoReply, Abstract!NoReply
  <2> QED
    BY <2>3 DEF Abstract!Next
<1>5. CASE FindNext
  <2>1. /\ phase' = phase /\ file' = file /\ reply' = NoReply
        /\ UNCHANGED <<hash, table, key, loop>>
    BY <1>5 DEF FindNext, makeVars
  <2>2. Left' = Left
    BY <2>1 DEF Left, Ahead, Offset, Pointer, SlotsOf
  <2>3. Abstract!Ask
    BY <2>1, <2>2 DEF Abstract!Ask, NoReply, Abstract!NoReply
  <2> QED
    BY <2>3 DEF Abstract!Next
<1>6. CASE Pass
  <2>1. phase' = phase /\ file' = file /\ reply' = reply /\ Left' = Left
    BY <1>6, PassKeeps DEF Pass, Advance, makeVars
  <2> QED
    BY <2>1 DEF Abstract!vars
<1>7. CASE Hit
  <2>1. /\ Left # <<>> /\ reply' = Yield(Head(Left)) /\ Left' = Tail(Left)
        /\ reply = NoReply /\ phase' = phase /\ file' = file
    BY <1>7, HitTakes, SearchFacts DEF Hit, Advance, makeVars
  <2>2. Abstract!Answer
    BY <2>1 DEF Abstract!Answer, Abstract!Yield, Yield, NoReply, Abstract!NoReply
  <2> QED
    BY <2>2 DEF Abstract!Next
<1>8. CASE Miss
  <2>1. /\ Left = <<>> /\ reply' = NoMore /\ reply = NoReply
        /\ phase' = phase /\ file' = file /\ UNCHANGED <<hash, table, key, loop>>
    BY <1>8, MissRight, SearchFacts DEF Miss, makeVars
  <2>2. Left' = Left
    BY <2>1 DEF Left, Ahead, Offset, Pointer, SlotsOf
  <2>3. Abstract!Answer
    BY <2>1, <2>2 DEF Abstract!Answer, Abstract!NoMore, NoMore, NoReply, Abstract!NoReply
  <2> QED
    BY <2>3 DEF Abstract!Next
<1>9. CASE UNCHANGED vars
  <2>1. /\ phase' = phase /\ file' = file /\ reply' = reply
        /\ UNCHANGED <<hash, table, key, loop>>
    BY <1>9 DEF vars, makeVars, findVars
  <2>2. Left' = Left
    BY <2>1 DEF Left, Ahead, Offset, Pointer, SlotsOf
  <2> QED
    BY <2>1, <2>2 DEF Abstract!vars
<1> QED
  BY <1>2, <1>3, <1>4, <1>5, <1>6, <1>7, <1>8, <1>9 DEF Next

LEMMA RefinedInit == Init => Abstract!Init
<1> SUFFICES ASSUME Init PROVE Abstract!Init
  OBVIOUS
<1>1. Left = <<>>
  <2>1. CdbInv /\ key = NoKey
    BY InvInit DEF Init
  <2> QED
    BY <2>1, AheadFacts
<1>2. Len(file) = 0
  BY DEF Init
<1>3. [i \in 1 .. Len(file) |-> [key |-> file[i].key, data |-> file[i].data]] = <<>>
  BY <1>2
<1> QED
  BY <1>1, <1>3 DEF Init, Abstract!Init, NoReply, Abstract!NoReply

\* cdb_make.c, cdb.c: for every hash function, any number of tables and records
\* and any file, the constant database is a multimap: a search yields the records
\* of its key, each once, in the order they were added, and then says so.
THEOREM CdbRefinement == Spec => ImplementsMultiMap
<1>1. CdbInv /\ CdbInv' /\ [Next]_vars => [Abstract!Next]_Abstract!vars
  BY RefinedStep
<1> QED
  BY <1>1, RefinedInit, CdbInvariance, PTL DEF Spec, Abstract!Spec, ImplementsMultiMap

-----------------------------------------------------------------------------
(* Powers of two: the library has them as numbers of subsets.               *)

LEMMA Doubling ==
    ASSUME NEW n \in Nat
    PROVE  2 ^ n \in Nat \ {0} /\ 2 ^ (n + 1) = 2 * 2 ^ n
<1> DEFINE S == 1 .. n
           x == n + 1
           With == {B \cup {x} : B \in SUBSET S}
<1>1. IsFiniteSet(S) /\ Cardinality(S) = n /\ x \notin S
  BY FS_Interval
<1>2. IsFiniteSet(S \cup {x}) /\ Cardinality(S \cup {x}) = n + 1
  BY <1>1, FS_AddElement
<1> HIDE DEF S, x
<1>3. IsFiniteSet(SUBSET S) /\ Cardinality(SUBSET S) = 2 ^ n
  BY <1>1, FS_SUBSET
<1>4. IsFiniteSet(SUBSET (S \cup {x})) /\ Cardinality(SUBSET (S \cup {x})) = 2 ^ (n + 1)
  BY <1>2, FS_SUBSET
<1>5. ExistsBijection(SUBSET S, With)
  <2> DEFINE f == [B \in SUBSET S |-> B \cup {x}]
  <2>1. f \in [SUBSET S -> With]
    OBVIOUS
  <2>2. ASSUME NEW B \in SUBSET S, NEW C \in SUBSET S, f[B] = f[C] PROVE B = C
    <3>1. B \cup {x} = C \cup {x} /\ x \notin B /\ x \notin C
      BY <1>1, <2>2
    <3> QED
      BY <3>1
  <2>3. \A t \in With : \E s \in SUBSET S : f[s] = t
    OBVIOUS
  <2>4. f \in Bijection(SUBSET S, With)
    <3> HIDE DEF f, With
    <3> QED
      BY <2>1, <2>2, <2>3, Fun_IsBij
  <2> QED
    BY <2>4, Fun_ExistsBij
<1>6. IsFiniteSet(With) /\ Cardinality(With) = 2 ^ n
  <2> HIDE DEF With
  <2> QED
    BY <1>3, <1>5, FS_Bijection
<1>7. SUBSET (S \cup {x}) = (SUBSET S) \cup With
  <2>1. ASSUME NEW T \in SUBSET (S \cup {x}) PROVE T \in (SUBSET S) \cup With
    <3>1. CASE x \in T
      <4>1. T \ {x} \in SUBSET S /\ T = (T \ {x}) \cup {x}
        BY <3>1
      <4> QED
        BY <4>1
    <3>2. CASE x \notin T
      BY <3>2
    <3> QED
      BY <3>1, <3>2
  <2> QED
    BY <2>1
<1>8. (SUBSET S) \cap With = {}
  BY <1>1
<1>9. Cardinality({}) = 0
  BY FS_EmptySet
<1>10. 2 ^ n \in Nat
  BY <1>3, FS_CardinalityType
<1>11. 2 ^ (n + 1) = 2 ^ n + 2 ^ n
  <2> HIDE DEF With
  <2>1. Cardinality((SUBSET S) \cup With) = Cardinality(SUBSET S) + Cardinality(With) - Cardinality({})
    BY <1>3, <1>6, <1>8, FS_Union
  <2>2. 2 ^ (n + 1) = 2 ^ n + 2 ^ n - 0
    BY <1>3, <1>4, <1>6, <1>7, <1>9, <2>1, Zenon
  <2>3. \A a \in Nat : a + a - 0 = a + a
    OBVIOUS
  <2> QED
    BY <1>10, <2>2, <2>3
<1>12. 2 ^ n # 0
  <2>1. {} \in SUBSET S
    OBVIOUS
  <2>2. Cardinality(SUBSET S) # 0
    BY <1>3, <2>1, FS_EmptySet
  <2> QED
    BY <1>3, <2>2
<1> QED
  BY <1>10, <1>11, <1>12

\* A smaller power divides a larger one.
LEMMA Divides ==
    ASSUME NEW w \in Nat, NEW k \in 0 .. w
    PROVE  \E q \in Nat \ {0} : 2 ^ w = q * 2 ^ k
<1> DEFINE B == {n \in k .. w : \E q \in Nat \ {0} : 2 ^ n = q * 2 ^ k}
<1>1. k \in Nat /\ 2 ^ k \in Nat
  BY Doubling
<1>2. k \in B
  <2>1. 2 ^ k = 1 * 2 ^ k /\ k \in k .. w /\ 1 \in Nat \ {0}
    BY <1>1
  <2> QED
    BY <2>1
<1>3. ASSUME NEW n \in k + 1 .. w, n - 1 \in B PROVE n \in B
  <2>1. PICK q \in Nat \ {0} : 2 ^ (n - 1) = q * 2 ^ k
    BY <1>3
  <2>2. n - 1 \in Nat /\ (n - 1) + 1 = n /\ n \in k .. w
    BY <1>1
  <2>3. 2 ^ n = 2 * 2 ^ (n - 1)
    BY <2>2, Doubling
  <2>4. 2 * (q * 2 ^ k) = (2 * q) * 2 ^ k /\ 2 * q \in Nat \ {0}
    BY <1>1
  <2>5. 2 ^ n = (2 * q) * 2 ^ k
    BY <2>1, <2>3, <2>4
  <2> HIDE DEF B
  <2> QED
    BY <2>2, <2>4, <2>5 DEF B
<1>4. \A n \in k .. w : n \in B
  <2> HIDE DEF B
  <2> QED
    BY <1>1, <1>2, <1>3, Stepwise
<1>5. w \in k .. w
  OBVIOUS
<1> QED
  BY <1>4, <1>5

-----------------------------------------------------------------------------
(* The blocks of a range, whatever the number w of bits                      *)

DifferingIn(w, a, b) ==
    CHOOSE k \in 0 .. w :
        /\ a \div 2 ^ k = b \div 2 ^ k
        /\ \A j \in 0 .. k - 1 : a \div 2 ^ j # b \div 2 ^ j

\* After the common prefix of its ends a block has all 0s and all 1s.
AlignedIn(w, a, b) ==
    LET size == 2 ^ DifferingIn(w, a, b) IN a % size = 0 /\ (b + 1) % size = 0

MiddleIn(w, a, b) == b - (b % 2 ^ (DifferingIn(w, a, b) - 1))

\* Ranges of numbers of w bits, and how do_chunk cuts one when f cuts its halves
RangesIn(w) == {r \in (0 .. 2 ^ w - 1) \X (0 .. 2 ^ w - 1) : r[1] <= r[2]}

ChunksOf(w, f, r) ==
    IF AlignedIn(w, r[1], r[2])
    THEN <<[net |-> r[1], mask |-> 32 - DifferingIn(w, r[1], r[2])]>>
    ELSE f[<<r[1], MiddleIn(w, r[1], r[2]) - 1>>] \o f[<<MiddleIn(w, r[1], r[2]), r[2]>>]

CutIn(w) == CHOOSE f : f = [r \in RangesIn(w) |-> ChunksOf(w, f, r)]

\* The common prefix is well defined, for any two numbers.
LEMMA DifferingFacts ==
    ASSUME NEW w \in Nat, NEW a \in 0 .. 2 ^ w - 1, NEW b \in 0 .. 2 ^ w - 1
    PROVE  /\ DifferingIn(w, a, b) \in 0 .. w
           /\ a \div 2 ^ DifferingIn(w, a, b) = b \div 2 ^ DifferingIn(w, a, b)
           /\ \A j \in 0 .. DifferingIn(w, a, b) - 1 : a \div 2 ^ j # b \div 2 ^ j
<1> DEFINE same == {k \in 0 .. w : a \div 2 ^ k = b \div 2 ^ k}
<1>1. 2 ^ w \in Nat \ {0} /\ a \in Nat /\ b \in Nat /\ a < 2 ^ w /\ b < 2 ^ w
  BY Doubling
<1>2. w \in same
  <2>1. \A p \in Nat \ {0} : \A x \in 0 .. p - 1 : x \div p = 0
    OBVIOUS
  <2>2. a \div 2 ^ w = 0 /\ b \div 2 ^ w = 0
    BY <1>1, <2>1
  <2> QED
    BY <2>2
<1>3. IsFiniteSet(same) /\ same \in SUBSET Nat
  <2>1. IsFiniteSet(0 .. w) /\ same \in SUBSET (0 .. w)
    BY FS_Interval
  <2> QED
    BY <2>1, FS_Subset
<1>4. PICK k \in same : \A j \in same : k <= j
  <2> HIDE DEF same
  <2> QED
    BY <1>2, <1>3, Least
<1>5. k \in 0 .. w /\ a \div 2 ^ k = b \div 2 ^ k
  BY <1>4
<1>6. \A j \in 0 .. k - 1 : a \div 2 ^ j # b \div 2 ^ j
  <2> SUFFICES ASSUME NEW j \in 0 .. k - 1, a \div 2 ^ j = b \div 2 ^ j PROVE FALSE
    OBVIOUS
  <2>1. j \in 0 .. w /\ ~(k <= j)
    BY <1>5
  <2> QED
    BY <1>4, <2>1
<1> QED
  BY <1>5, <1>6 DEF DifferingIn

LEMMA Quotients ==
    \A p \in Nat \ {0}, a, b \in Nat :
        /\ a = p * (a \div p) + (a % p) /\ a \div p \in Nat /\ a % p \in 0 .. p - 1
        /\ a <= b => a \div p <= b \div p
OBVIOUS

LEMMA Times == \A p, x, y \in Nat : x + 1 <= y => p * x + p <= p * y
OBVIOUS

\* A range that is no block has a middle, where a block of half the size begins.
LEMMA Halved ==
    ASSUME NEW w \in Nat, NEW r \in RangesIn(w), ~AlignedIn(w, r[1], r[2])
    PROVE  LET m == MiddleIn(w, r[1], r[2])
               k == DifferingIn(w, r[1], r[2])
           IN  /\ k \in 1 .. w /\ m \in Nat
               /\ r[1] < m /\ m <= r[2]
               /\ m % 2 ^ (k - 1) = 0
<1> DEFINE a == r[1]
           b == r[2]
           k == DifferingIn(w, a, b)
           m == MiddleIn(w, a, b)
<1>1. a \in 0 .. 2 ^ w - 1 /\ b \in 0 .. 2 ^ w - 1 /\ a <= b
  BY DEF RangesIn
<1> HIDE DEF a, b
<1>2. k \in 0 .. w /\ \A j \in 0 .. k - 1 : a \div 2 ^ j # b \div 2 ^ j
  BY <1>1, DifferingFacts
<1>3. a \in Nat /\ b \in Nat
  BY <1>1, Doubling
<1> HIDE DEF k
<1>4. k # 0
  <2> SUFFICES ASSUME k = 0 PROVE FALSE
    OBVIOUS
  <2>1. 2 ^ 0 = 1
    OBVIOUS
  <2>2. a % 1 = 0 /\ (b + 1) % 1 = 0
    BY <1>3
  <2> QED
    BY <2>1, <2>2 DEF AlignedIn, a, b, k
<1>5. k \in 1 .. w /\ k - 1 \in Nat /\ k - 1 \in 0 .. k - 1
  BY <1>2, <1>4
<1>6. PICK p \in Nat \ {0} : p = 2 ^ (k - 1)
  BY <1>5, Doubling
<1>7. a \div p # b \div p /\ a \div p <= b \div p
  BY <1>1, <1>2, <1>3, <1>5, <1>6, Quotients
<1>8. PICK x \in Nat, y \in Nat : x = a \div p /\ y = b \div p /\ x + 1 <= y
  <2>1. a \div p \in Nat /\ b \div p \in Nat
    BY <1>3, <1>6, Quotients
  <2>2. \A x, y \in Nat : x # y /\ x <= y => x + 1 <= y
    OBVIOUS
  <2> QED
    BY <1>7, <2>1, <2>2
<1>9. b = p * y + (b % p) /\ b % p \in 0 .. p - 1 /\ a = p * x + (a % p) /\ a % p \in 0 .. p - 1
  BY <1>3, <1>6, <1>8, Quotients
<1>10. m = b - (b % p)
  BY <1>6 DEF MiddleIn, k
<1>11. PICK py \in Nat, px \in Nat : py = p * y /\ px = p * x
  BY <1>6, <1>8
<1>12. m = py
  BY <1>3, <1>9, <1>10, <1>11
<1>13. a < py
  <2>1. px + p <= py
    BY <1>6, <1>8, <1>11, Times
  <2> QED
    BY <1>9, <1>11, <2>1
<1>14. py <= b
  BY <1>9, <1>11
<1>15. py % p = 0
  <2>1. \A q \in Nat \ {0} : \A z \in Nat : (q * z) % q = 0
    OBVIOUS
  <2> QED
    BY <1>6, <1>8, <1>11, <2>1
<1> QED
  BY <1>5, <1>6, <1>11, <1>12, <1>13, <1>14, <1>15 DEF a, b, k

\* Both halves of a range are shorter ranges.
LEMMA HalvesAreRanges ==
    ASSUME NEW w \in Nat, NEW r \in RangesIn(w), ~AlignedIn(w, r[1], r[2])
    PROVE  LET m == MiddleIn(w, r[1], r[2])
           IN  /\ m \in Nat /\ m - 1 \in Nat /\ r[1] <= m - 1 /\ m <= r[2]
               /\ <<r[1], m - 1>> \in RangesIn(w) /\ <<m, r[2]>> \in RangesIn(w)
               /\ (m - 1) - r[1] < r[2] - r[1] /\ r[2] - m < r[2] - r[1]
<1> DEFINE m == MiddleIn(w, r[1], r[2])
<1>1. m \in Nat /\ r[1] < m /\ m <= r[2]
  BY Halved
<1>2. r[1] \in 0 .. 2 ^ w - 1 /\ r[2] \in 0 .. 2 ^ w - 1 /\ r[1] <= r[2] /\ 2 ^ w \in Nat
  BY Doubling DEF RangesIn
<1> HIDE DEF m
<1>3. m - 1 \in 0 .. 2 ^ w - 1 /\ m \in 0 .. 2 ^ w - 1 /\ r[1] <= m - 1
  BY <1>1, <1>2
<1>4. <<r[1], m - 1>> \in RangesIn(w) /\ <<m, r[2]>> \in RangesIn(w)
  BY <1>1, <1>2, <1>3 DEF RangesIn
<1>5. (m - 1) - r[1] < r[2] - r[1] /\ r[2] - m < r[2] - r[1] /\ m - 1 \in Nat
  BY <1>1, <1>2, <1>3
<1> QED
  BY <1>1, <1>3, <1>4, <1>5 DEF m

\* The recursion ends, so that there is such a function.
LEMMA CutExists ==
    ASSUME NEW w \in Nat
    PROVE  CutIn(w) = [r \in RangesIn(w) |-> ChunksOf(w, CutIn(w), r)]
<1> DEFINE Short(n) == {r \in RangesIn(w) : r[2] - r[1] < n}
           B == {n \in 0 .. 2 ^ w : \E f : f = [r \in Short(n) |-> ChunksOf(w, f, r)]}
<1>1. 2 ^ w \in Nat /\ 0 \in 0 .. 2 ^ w /\ 2 ^ w \in 0 .. 2 ^ w
  BY Doubling
<1>2. \A r \in RangesIn(w) : r[1] \in Nat /\ r[2] \in Nat /\ r[2] - r[1] < 2 ^ w /\ 0 <= r[2] - r[1]
  BY <1>1 DEF RangesIn
<1>3. 0 \in B
  <2>1. Short(0) = {}
    BY <1>2
  <2>2. \A f : [r \in {} |-> ChunksOf(w, f, r)] = <<>>
    OBVIOUS
  <2>3. <<>> = [r \in Short(0) |-> ChunksOf(w, <<>>, r)]
    BY <2>1, <2>2
  <2> QED
    BY <1>1, <2>3
<1>4. ASSUME NEW n \in 0 + 1 .. 2 ^ w, n - 1 \in B PROVE n \in B
  <2>1. PICK f : f = [r \in Short(n - 1) |-> ChunksOf(w, f, r)]
    BY <1>4
  <2> DEFINE h == [r \in Short(n) |-> ChunksOf(w, f, r)]
  <2>2. \A r \in Short(n - 1) : r \in Short(n) /\ h[r] = f[r]
    <3>1. \A r \in Short(n - 1) : r \in Short(n)
      BY <1>1, <1>2
    <3>2. \A r \in Short(n - 1) : f[r] = ChunksOf(w, f, r)
      BY <2>1
    <3>3. \A r \in Short(n) : h[r] = ChunksOf(w, f, r)
      OBVIOUS
    <3> HIDE DEF h, Short
    <3> QED
      BY <3>1, <3>2, <3>3
  <2>3. ASSUME NEW r \in Short(n) PROVE ChunksOf(w, h, r) = ChunksOf(w, f, r)
    <3>1. CASE AlignedIn(w, r[1], r[2])
      BY <3>1 DEF ChunksOf
    <3>2. CASE ~AlignedIn(w, r[1], r[2])
      <4> DEFINE m == MiddleIn(w, r[1], r[2])
      <4>1. /\ m \in Nat /\ <<r[1], m - 1>> \in RangesIn(w) /\ <<m, r[2]>> \in RangesIn(w)
            /\ (m - 1) - r[1] < r[2] - r[1] /\ r[2] - m < r[2] - r[1]
        BY <3>2, HalvesAreRanges
      <4> HIDE DEF m
      <4>2. <<r[1], m - 1>> \in Short(n - 1) /\ <<m, r[2]>> \in Short(n - 1)
        BY <1>1, <1>2, <4>1
      <4>3. h[<<r[1], m - 1>>] = f[<<r[1], m - 1>>] /\ h[<<m, r[2]>>] = f[<<m, r[2]>>]
        BY <2>2, <4>2
      <4> QED
        BY <4>3 DEF ChunksOf, m
    <3> QED
      BY <3>1, <3>2
  <2>4. h = [r \in Short(n) |-> ChunksOf(w, h, r)]
    <3>1. h = [r \in Short(n) |-> h[r]] /\ \A r \in Short(n) : h[r] = ChunksOf(w, f, r)
      OBVIOUS
    <3> HIDE DEF h, Short
    <3> QED
      BY <2>3, <3>1
  <2>5. n \in 0 .. 2 ^ w
    BY <1>1
  <2> HIDE DEF h
  <2> QED
    BY <2>4, <2>5
<1>5. 2 ^ w \in B
  <2> HIDE DEF B
  <2>1. \A n \in 0 .. 2 ^ w : n \in B
    BY <1>1, <1>3, <1>4, Stepwise
  <2> QED
    BY <1>1, <2>1
<1>6. Short(2 ^ w) = RangesIn(w)
  BY <1>2
<1>7. \E f : f = [r \in RangesIn(w) |-> ChunksOf(w, f, r)]
  BY <1>5, <1>6
<1> QED
  BY <1>7 DEF CutIn

\* What holds of blocks, and of a range when it does of its halves, does of all.
LEMMA Halving ==
    ASSUME NEW w \in Nat, NEW G,
           \A r \in RangesIn(w) : AlignedIn(w, r[1], r[2]) => r \in G,
           \A r \in RangesIn(w) :
             /\ ~AlignedIn(w, r[1], r[2])
             /\ <<r[1], MiddleIn(w, r[1], r[2]) - 1>> \in G
             /\ <<MiddleIn(w, r[1], r[2]), r[2]>> \in G
             => r \in G
    PROVE  RangesIn(w) \subseteq G
<1> DEFINE B == {n \in 0 .. 2 ^ w : \A r \in RangesIn(w) : r[2] - r[1] < n => r \in G}
<1>1. 2 ^ w \in Nat /\ 0 \in 0 .. 2 ^ w /\ 2 ^ w \in 0 .. 2 ^ w
  BY Doubling
<1>2. \A r \in RangesIn(w) : r[1] \in Nat /\ r[2] \in Nat /\ r[2] - r[1] < 2 ^ w /\ 0 <= r[2] - r[1]
  BY <1>1 DEF RangesIn
<1>3. 0 \in B
  BY <1>1, <1>2
<1>4. ASSUME NEW n \in 0 + 1 .. 2 ^ w, n - 1 \in B PROVE n \in B
  <2>1. n \in 0 .. 2 ^ w
    BY <1>1
  <2>2. ASSUME NEW r \in RangesIn(w), r[2] - r[1] < n PROVE r \in G
    <3>1. CASE AlignedIn(w, r[1], r[2])
      BY <3>1
    <3>2. CASE ~AlignedIn(w, r[1], r[2])
      <4> DEFINE m == MiddleIn(w, r[1], r[2])
      <4>1. /\ m \in Nat /\ <<r[1], m - 1>> \in RangesIn(w) /\ <<m, r[2]>> \in RangesIn(w)
            /\ (m - 1) - r[1] < r[2] - r[1] /\ r[2] - m < r[2] - r[1]
        BY <3>2, HalvesAreRanges
      <4> HIDE DEF m
      <4>2. (m - 1) - r[1] < n - 1 /\ r[2] - m < n - 1
        BY <1>1, <1>2, <2>2, <4>1
      <4>3. <<r[1], m - 1>> \in G /\ <<m, r[2]>> \in G
        BY <1>4, <4>1, <4>2
      <4> QED
        BY <3>2, <4>3 DEF m
    <3> QED
      BY <3>1, <3>2
  <2> QED
    BY <2>1, <2>2
<1>5. 2 ^ w \in B
  <2> HIDE DEF B
  <2>1. \A n \in 0 .. 2 ^ w : n \in B
    BY <1>1, <1>3, <1>4, Stepwise
  <2> QED
    BY <1>1, <2>1
<1> QED
  BY <1>2, <1>5

\* Blocks of numbers of w bits; the block an address is on
ChunkIn(w) == [net : 0 .. 2 ^ w - 1, mask : 32 - w .. 32]
OnChunk(c, a) == c.net = a - (a % 2 ^ (32 - c.mask))

\* The numbers that have the same multiple below them
LEMMA InOneBlock ==
    \A p \in Nat \ {0}, x \in Nat, a \in Nat :
        a \in p * x .. p * x + p - 1 <=> p * x = a - (a % p)
<1> SUFFICES ASSUME NEW p \in Nat \ {0}, NEW x \in Nat, NEW a \in Nat
             PROVE  a \in p * x .. p * x + p - 1 <=> p * x = a - (a % p)
  OBVIOUS
<1>1. PICK px \in Nat : px = p * x
  OBVIOUS
<1>2. a % p \in 0 .. p - 1
  BY Quotients
<1>3. ASSUME px = a - (a % p) PROVE a \in px .. px + p - 1
  BY <1>2, <1>3
<1>4. ASSUME a \in px .. px + p - 1 PROVE px = a - (a % p)
  <2>1. PICK r \in 0 .. p - 1 : a = p * x + r
    <3>1. a - px \in 0 .. p - 1 /\ a = px + (a - px)
      BY <1>4
    <3> QED
      BY <1>1, <3>1
  <2>2. \A q \in Nat \ {0}, y \in Nat : \A s \in 0 .. q - 1 : (q * y + s) % q = s
    OBVIOUS
  <2>3. a % p = r
    BY <2>1, <2>2
  <2> QED
    BY <1>1, <2>1, <2>3
<1> QED
  BY <1>1, <1>3, <1>4

\* A range that is a block begins where one of its size does, and is as long.
LEMMA AlignedFacts ==
    ASSUME NEW w \in Nat, NEW r \in RangesIn(w), AlignedIn(w, r[1], r[2])
    PROVE  /\ DifferingIn(w, r[1], r[2]) \in 0 .. w
           /\ \E x \in Nat :
                /\ r[1] = 2 ^ DifferingIn(w, r[1], r[2]) * x
                /\ r[2] = 2 ^ DifferingIn(w, r[1], r[2]) * x + 2 ^ DifferingIn(w, r[1], r[2]) - 1
<1> DEFINE a == r[1]
           b == r[2]
           k == DifferingIn(w, a, b)
<1>1. a \in 0 .. 2 ^ w - 1 /\ b \in 0 .. 2 ^ w - 1 /\ a <= b
  BY DEF RangesIn
<1> HIDE DEF a, b
<1>2. k \in 0 .. w /\ a \div 2 ^ k = b \div 2 ^ k
  BY <1>1, DifferingFacts
<1>3. a \in Nat /\ b \in Nat
  BY <1>1, Doubling
<1>4. a % 2 ^ k = 0 /\ (b + 1) % 2 ^ k = 0
  BY DEF AlignedIn, a, b
<1> HIDE DEF k
<1>5. PICK p \in Nat \ {0} : p = 2 ^ k
  BY <1>2, Doubling
<1>6. PICK x \in Nat : x = a \div p /\ x = b \div p
  BY <1>2, <1>3, <1>5, Quotients
<1>7. a = p * x
  <2>1. a = p * x + (a % p) /\ a % p = 0
    BY <1>3, <1>4, <1>5, <1>6, Quotients
  <2>2. PICK px \in Nat : px = p * x
    BY <1>5
  <2> QED
    BY <2>1, <2>2
<1>8. b = p * x + (b % p) /\ b % p \in 0 .. p - 1
  BY <1>3, <1>5, <1>6, Quotients
<1>9. PICK s \in 0 .. p - 1 : s = b % p
  BY <1>8
<1>10. s = p - 1
  <2> SUFFICES ASSUME s # p - 1 PROVE FALSE
    OBVIOUS
  <2>1. \A q \in Nat \ {0}, y \in Nat : \A t \in 0 .. q - 1 : (q * y + t) % q = t
    OBVIOUS
  <2>2. s + 1 \in 0 .. p - 1
    BY <1>9
  <2>3. (p * x + (s + 1)) % p = s + 1
    BY <2>1, <2>2
  <2>4. b + 1 = p * x + (s + 1)
    <3>1. PICK px \in Nat : px = p * x
      BY <1>5
    <3> QED
      BY <1>8, <1>9, <3>1
  <2> QED
    BY <1>4, <1>5, <2>2, <2>3, <2>4
<1>11. b = p * x + p - 1
  <2>1. PICK px \in Nat : px = p * x
    BY <1>5
  <2> QED
    BY <1>8, <1>9, <1>10, <2>1
<1> QED
  BY <1>2, <1>5, <1>7, <1>11 DEF a, b, k

\* ip4.pm: the chunks of a range are blocks, and cover it and nothing else.
CutRight(w, r) ==
    /\ CutIn(w)[r] \in Seq(ChunkIn(w))
    /\ \A i \in 1 .. Len(CutIn(w)[r]) : OnChunk(CutIn(w)[r][i], CutIn(w)[r][i].net)
    /\ \A a \in 0 .. 2 ^ w - 1 :
          a \in r[1] .. r[2] <=> \E i \in 1 .. Len(CutIn(w)[r]) : OnChunk(CutIn(w)[r][i], a)

\* The blocks of a range cover it.
LEMMA CutCovers ==
    ASSUME NEW w \in Nat, NEW r \in RangesIn(w)
    PROVE  CutRight(w, r)
<1> DEFINE G == {q \in RangesIn(w) : CutRight(w, q)}
<1>0. 2 ^ w \in Nat /\ 0 .. 2 ^ w - 1 \subseteq Nat
  BY Doubling
<1>1. ASSUME NEW q \in RangesIn(w), AlignedIn(w, q[1], q[2]) PROVE q \in G
  <2> DEFINE k == DifferingIn(w, q[1], q[2])
             c == [net |-> q[1], mask |-> 32 - k]
  <2>1. k \in 0 .. w /\ \E x \in Nat : q[1] = 2 ^ k * x /\ q[2] = 2 ^ k * x + 2 ^ k - 1
    BY <1>1, AlignedFacts
  <2>2. CutIn(w)[q] = <<c>>
    BY <1>1, CutExists DEF ChunksOf
  <2> HIDE DEF k
  <2>3. PICK p \in Nat \ {0} : p = 2 ^ k
    BY <2>1, Doubling
  <2>4. c.net = q[1] /\ 32 - c.mask = k
    BY <2>1
  <2>5. c \in ChunkIn(w)
    <3>1. 32 - k \in 32 - w .. 32
      BY <2>1
    <3> QED
      BY <3>1 DEF ChunkIn, RangesIn
  <2> HIDE DEF c
  <2>6. \A a \in 0 .. 2 ^ w - 1 : a \in q[1] .. q[2] <=> OnChunk(c, a)
    <3>1. PICK x \in Nat : q[1] = p * x /\ q[2] = p * x + p - 1
      BY <2>1, <2>3
    <3>2. \A a \in Nat : a \in p * x .. p * x + p - 1 <=> p * x = a - (a % p)
      BY InOneBlock
    <3> QED
      BY <1>0, <2>3, <2>4, <3>1, <3>2 DEF OnChunk
  <2>7. q[1] \in 0 .. 2 ^ w - 1 /\ q[1] \in q[1] .. q[2]
    BY <1>0 DEF RangesIn
  <2>8. OnChunk(c, c.net)
    BY <2>4, <2>6, <2>7
  <2>9. PICK one : one = <<c>> /\ Len(one) = 1 /\ one[1] = c /\ one \in Seq(ChunkIn(w))
    <3>1. Len(<<c>>) = 1 /\ <<c>>[1] = c /\ <<c>> \in Seq(ChunkIn(w))
      BY <2>5
    <3> QED
      BY <3>1, Zenon
  <2>10. \A i \in 1 .. Len(one) : one[i] = c
    BY <2>9
  <2>11. 1 \in 1 .. Len(one)
    BY <2>9
  <2>12. CutRight(w, q)
    BY <2>2, <2>6, <2>8, <2>9, <2>10, <2>11 DEF CutRight
  <2> QED
    BY <2>12
<1>2. ASSUME NEW q \in RangesIn(w), ~AlignedIn(w, q[1], q[2]),
             <<q[1], MiddleIn(w, q[1], q[2]) - 1>> \in G,
             <<MiddleIn(w, q[1], q[2]), q[2]>> \in G
      PROVE  q \in G
  <2> DEFINE m == MiddleIn(w, q[1], q[2])
             s == CutIn(w)[<<q[1], m - 1>>]
             t == CutIn(w)[<<m, q[2]>>]
  <2>1. m \in Nat /\ m - 1 \in Nat /\ q[1] <= m - 1 /\ m <= q[2]
    BY <1>2, HalvesAreRanges
  <2>2. CutIn(w)[q] = s \o t
    BY <1>2, CutExists DEF ChunksOf
  <2>3. /\ s \in Seq(ChunkIn(w)) /\ \A i \in 1 .. Len(s) : OnChunk(s[i], s[i].net)
        /\ \A a \in 0 .. 2 ^ w - 1 : a \in q[1] .. m - 1 <=> \E i \in 1 .. Len(s) : OnChunk(s[i], a)
    BY <1>2 DEF CutRight
  <2>4. /\ t \in Seq(ChunkIn(w)) /\ \A i \in 1 .. Len(t) : OnChunk(t[i], t[i].net)
        /\ \A a \in 0 .. 2 ^ w - 1 : a \in m .. q[2] <=> \E i \in 1 .. Len(t) : OnChunk(t[i], a)
    BY <1>2 DEF CutRight
  <2> HIDE DEF m, s, t
  <2>5. /\ s \o t \in Seq(ChunkIn(w)) /\ Len(s \o t) = Len(s) + Len(t)
        /\ Len(s) \in Nat /\ Len(t) \in Nat
        /\ \A i \in 1 .. Len(s) + Len(t) : (s \o t)[i] = IF i <= Len(s) THEN s[i] ELSE t[i - Len(s)]
    BY <2>3, <2>4, ConcatProperties
  <2> DEFINE u == s \o t
  <2>6. \A i \in 1 .. Len(u) : \/ i \in 1 .. Len(s) /\ u[i] = s[i]
                               \/ i - Len(s) \in 1 .. Len(t) /\ u[i] = t[i - Len(s)]
    BY <2>5
  <2>7. /\ \A i \in 1 .. Len(s) : i \in 1 .. Len(u) /\ u[i] = s[i]
        /\ \A i \in 1 .. Len(t) : i + Len(s) \in 1 .. Len(u) /\ u[i + Len(s)] = t[i]
    BY <2>5
  <2> HIDE DEF u
  <2>8. \A i \in 1 .. Len(u) : OnChunk(u[i], u[i].net)
    BY <2>3, <2>4, <2>6
  <2>9. ASSUME NEW a \in 0 .. 2 ^ w - 1
        PROVE  a \in q[1] .. q[2] <=> \E i \in 1 .. Len(u) : OnChunk(u[i], a)
    <3>1. a \in q[1] .. q[2] <=> a \in q[1] .. m - 1 \/ a \in m .. q[2]
      <4>1. q[1] \in Nat /\ q[2] \in Nat /\ a \in Nat
        BY <1>0 DEF RangesIn
      <4> QED
        BY <2>1, <4>1
    <3>2. (\E i \in 1 .. Len(u) : OnChunk(u[i], a)) <=>
             (\E i \in 1 .. Len(s) : OnChunk(s[i], a)) \/ (\E i \in 1 .. Len(t) : OnChunk(t[i], a))
      BY <2>6, <2>7
    <3> QED
      BY <2>3, <2>4, <3>1, <3>2
  <2> QED
    BY <2>2, <2>5, <2>8, <2>9 DEF CutRight, u
<1>3. RangesIn(w) \subseteq G
  <2> HIDE DEF G
  <2> QED
    BY <1>1, <1>2, Halving
<1> QED
  BY <1>3

\* Smaller powers of two divide larger ones.
LEMMA Larger ==
    ASSUME NEW w \in Nat, NEW k \in 0 .. w
    PROVE  2 ^ k <= 2 ^ w /\ (k # w => 2 * 2 ^ k <= 2 ^ w)
<1>1. \A q \in Nat \ {0}, p \in Nat : p <= q * p
  OBVIOUS
<1>2. k \in Nat /\ 2 ^ k \in Nat
  BY Doubling
<1>3. 2 ^ k <= 2 ^ w
  BY <1>1, <1>2, Divides
<1>4. ASSUME k # w PROVE 2 * 2 ^ k <= 2 ^ w
  <2>1. k + 1 \in 0 .. w /\ k + 1 \in Nat
    BY <1>4
  <2>2. 2 ^ (k + 1) = 2 * 2 ^ k /\ 2 ^ (k + 1) \in Nat
    BY <1>2, <2>1, Doubling
  <2> QED
    BY <1>1, <2>1, <2>2, Divides
<1> QED
  BY <1>3, <1>4

-----------------------------------------------------------------------------
(* The blocks that fit into a range                                         *)

BlockIn(c) == c.net .. c.net + 2 ^ (32 - c.mask) - 1
AroundOf(c) == [net |-> c.net - (c.net % 2 ^ (32 - (c.mask - 1))), mask |-> c.mask - 1]
FitsIn(w, r) == {c \in ChunkIn(w) : OnChunk(c, c.net) /\ BlockIn(c) \subseteq r[1] .. r[2]}
LargestIn(w, r) ==
    {c \in FitsIn(w, r) : c.mask = 32 - w \/ AroundOf(c) \notin FitsIn(w, r)}

\* A block begins at a multiple of its size.
LEMMA ChunkParts ==
    ASSUME NEW w \in Nat, NEW c \in ChunkIn(w), OnChunk(c, c.net)
    PROVE  /\ 32 - c.mask \in 0 .. w /\ 2 ^ (32 - c.mask) \in Nat \ {0} /\ c.net \in Nat
           /\ \E y \in Nat : c.net = 2 ^ (32 - c.mask) * y
           /\ c.net \in BlockIn(c)
           /\ c = [net |-> c.net, mask |-> c.mask]
<1>1. c.net \in 0 .. 2 ^ w - 1 /\ c.mask \in 32 - w .. 32 /\ c = [net |-> c.net, mask |-> c.mask]
  BY DEF ChunkIn
<1>2. 32 - c.mask \in 0 .. w /\ c.net \in Nat
  BY <1>1, Doubling
<1>3. PICK s \in Nat \ {0} : s = 2 ^ (32 - c.mask)
  BY <1>2, Doubling
<1>4. c.net = c.net - (c.net % s)
  BY <1>3 DEF OnChunk
<1>5. c.net % s = 0
  <2>1. PICK r \in 0 .. s - 1 : r = c.net % s
    BY <1>2, <1>3, Quotients
  <2>2. PICK n \in Nat : n = c.net
    BY <1>2
  <2>3. n = n - r
    BY <1>4, <2>1, <2>2
  <2>4. r = 0
    BY <2>2, <2>3
  <2> QED
    BY <2>1, <2>4
<1>6. PICK y \in Nat : y = c.net \div s
  BY <1>2, <1>3, Quotients
<1>7. c.net = s * y
  <2>1. c.net = s * y + (c.net % s)
    BY <1>2, <1>3, <1>6, Quotients
  <2>2. PICK sy \in Nat : sy = s * y
    BY <1>3
  <2> QED
    BY <1>5, <2>1, <2>2
<1>8. c.net \in BlockIn(c)
  BY <1>2, <1>3 DEF BlockIn
<1> QED
  BY <1>1, <1>2, <1>3, <1>7, <1>8

\* The block around a block is twice its size and holds it.
LEMMA AroundFacts ==
    ASSUME NEW w \in Nat, NEW c \in ChunkIn(w), OnChunk(c, c.net), c.mask # 32 - w
    PROVE  LET d == AroundOf(c) IN
           /\ d \in ChunkIn(w) /\ OnChunk(d, d.net) /\ c.net \in BlockIn(d)
           /\ 32 - c.mask \in 0 .. w - 1 /\ 32 - d.mask = (32 - c.mask) + 1
           /\ 2 ^ (32 - d.mask) = 2 * 2 ^ (32 - c.mask)
<1> DEFINE d == AroundOf(c)
           e == 32 - c.mask
<1>1. /\ e \in 0 .. w /\ c.net \in Nat /\ c.net \in 0 .. 2 ^ w - 1 /\ c.mask \in 32 - w .. 32
  BY ChunkParts DEF ChunkIn
<1>2. e \in 0 .. w - 1 /\ d.mask = c.mask - 1 /\ 32 - d.mask = e + 1 /\ d.mask \in 32 - w .. 32 /\ e \in Nat
  BY <1>1 DEF AroundOf
<1>3. 2 ^ (32 - d.mask) = 2 * 2 ^ e /\ 2 ^ (32 - d.mask) \in Nat \ {0}
  BY <1>2, Doubling
<1>4. d.net = c.net - (c.net % 2 ^ (32 - d.mask))
  BY <1>2 DEF AroundOf
<1>5. d = [net |-> d.net, mask |-> d.mask]
  BY DEF AroundOf
<1> HIDE DEF d, e
<1>6. PICK t \in Nat \ {0} : t = 2 ^ (32 - d.mask)
  BY <1>3
<1>7. PICK n \in Nat : n = c.net
  BY <1>1
<1>8. PICK y \in Nat, r \in 0 .. t - 1 : y = n \div t /\ r = n % t
  <2>1. n \div t \in Nat /\ n % t \in 0 .. t - 1
    BY <1>6, Quotients
  <2> QED
    BY <2>1
<1>9. n = t * y + r /\ d.net = n - r
  BY <1>4, <1>6, <1>7, <1>8, Quotients
<1>14. PICK ty \in Nat : ty = t * y
  BY <1>6
<1>15. d.net = t * y
  BY <1>9, <1>14
<1>10. d.net \in Nat /\ d.net <= c.net /\ c.net <= d.net + t - 1
  BY <1>7, <1>9, <1>14
<1>11. OnChunk(d, d.net)
  <2>1. \A q \in Nat \ {0}, z \in Nat : (q * z) % q = 0
    OBVIOUS
  <2>2. d.net % t = 0
    BY <1>6, <1>8, <1>15, <2>1
  <2> QED
    BY <1>6, <1>10, <2>2 DEF OnChunk
<1>12. d \in ChunkIn(w)
  <2>1. d.net \in 0 .. 2 ^ w - 1
    BY <1>1, <1>10, Doubling
  <2> QED
    BY <1>2, <1>5, <2>1 DEF ChunkIn
<1>13. c.net \in BlockIn(d)
  BY <1>1, <1>6, <1>10 DEF BlockIn
<1> QED
  BY <1>2, <1>3, <1>11, <1>12, <1>13 DEF d, e

\* A block within an interval is no longer than it.
LEMMA NoLonger ==
    ASSUME NEW n \in Nat, NEW s \in Nat \ {0}, NEW a \in Nat, NEW b \in Nat,
           n .. n + s - 1 \subseteq a .. b
    PROVE  a <= n /\ n + s - 1 <= b /\ a <= b
<1>1. n \in n .. n + s - 1 /\ n + s - 1 \in n .. n + s - 1
  OBVIOUS
<1>2. n \in a .. b /\ n + s - 1 \in a .. b
  BY <1>1
<1> QED
  BY <1>2

\* A block that fits into a block of its own size or more, and the one around it
LEMMA WithinBlock ==
    ASSUME NEW s \in Nat \ {0}, NEW q \in Nat \ {0}, NEW x \in Nat, NEW y \in Nat,
           (s * q) * x <= s * y, s * y + s - 1 <= (s * q) * x + s * q - 1
    PROVE  /\ q = 1 => y = x
           /\ q * x <= y /\ y + 1 <= q * (x + 1)
<1>1. (s * q) * x = s * (q * x) /\ s * y + s = s * (y + 1) /\ (s * q) * x + s * q = s * (q * (x + 1))
  OBVIOUS
<1>2. PICK u \in Nat, v \in Nat : u = q * x /\ v = q * (x + 1)
  <2>1. q * x \in Nat /\ q * (x + 1) \in Nat
    OBVIOUS
  <2> QED
    BY <2>1
<1>3. s * u <= s * y /\ s * (y + 1) <= s * v
  <2>1. PICK su \in Nat, sy \in Nat, sv \in Nat, sz \in Nat :
            su = s * u /\ sy = s * y /\ sv = s * v /\ sz = s * (y + 1)
    <3>1. s * u \in Nat /\ s * y \in Nat /\ s * v \in Nat /\ s * (y + 1) \in Nat
      OBVIOUS
    <3> QED
      BY <3>1
  <2>2. su <= sy
    BY <1>1, <1>2, <2>1
  <2>3. sz <= sv
    <3>1. (s * q) * x + s * q = sv /\ s * y + s = sz
      BY <1>1, <1>2, <2>1
    <3>2. PICK m \in Nat, n \in Nat : m = (s * q) * x /\ n = s * q
      <4>1. s * q \in Nat
        OBVIOUS
      <4>2. (s * q) * x \in Nat
        BY <4>1
      <4> QED
        BY <4>1, <4>2
    <3> QED
      BY <2>1, <3>1, <3>2
  <2> QED
    BY <2>1, <2>2, <2>3
<1>4. \A p \in Nat \ {0}, i, j \in Nat : p * i <= p * j => i <= j
  OBVIOUS
<1>5. u <= y /\ y + 1 <= v
  BY <1>3, <1>4
<1>6. q = 1 => u = x /\ v = x + 1
  BY <1>2
<1> QED
  BY <1>2, <1>5, <1>6

\* The block of size t around a number lies between multiples of t that do.
LEMMA Between ==
    ASSUME NEW t \in Nat \ {0}, NEW u \in Nat, NEW v \in Nat, NEW z \in Nat, NEW n \in Nat,
           t * u <= n, n < t * v, t * z <= n, n < t * z + t
    PROVE  t * u <= t * z /\ t * z + t <= t * v
<1>1. PICK tu \in Nat, tv \in Nat, tz \in Nat : tu = t * u /\ tv = t * v /\ tz = t * z
  <2>1. t * u \in Nat /\ t * v \in Nat /\ t * z \in Nat
    OBVIOUS
  <2> QED
    BY <2>1
<1>2. \A i, j \in Nat : i + 1 <= j => t * i + t <= t * j
  OBVIOUS
<1>3. u <= z
  <2> SUFFICES ASSUME ~(u <= z) PROVE FALSE
    OBVIOUS
  <2>1. z + 1 <= u
    OBVIOUS
  <2>2. tz + t <= tu
    BY <1>1, <1>2, <2>1
  <2> QED
    BY <1>1, <2>2
<1>4. z + 1 <= v
  <2> SUFFICES ASSUME ~(z + 1 <= v) PROVE FALSE
    OBVIOUS
  <2>1. v <= z
    OBVIOUS
  <2>2. t * v <= t * z
    BY <2>1
  <2>3. tv <= tz
    BY <1>1, <2>2
  <2> QED
    BY <1>1, <2>3
<1>5. t * u <= t * z
  BY <1>3
<1> QED
  BY <1>2, <1>4, <1>5

\* The longest that fit into a range that is a block are that block.
LEMMA LargestOfBlock ==
    ASSUME NEW w \in Nat, NEW r \in RangesIn(w), AlignedIn(w, r[1], r[2])
    PROVE  LargestIn(w, r) = {[net |-> r[1], mask |-> 32 - DifferingIn(w, r[1], r[2])]}
<1> DEFINE k == DifferingIn(w, r[1], r[2])
           c0 == [net |-> r[1], mask |-> 32 - k]
<1>1. k \in 0 .. w /\ \E x \in Nat : r[1] = 2 ^ k * x /\ r[2] = 2 ^ k * x + 2 ^ k - 1
  BY AlignedFacts
<1>0. r[1] \in 0 .. 2 ^ w - 1 /\ r[1] \in Nat /\ r[2] \in Nat /\ 2 ^ w \in Nat
  BY Doubling DEF RangesIn
<1> HIDE DEF k
<1>2. PICK p \in Nat \ {0} : p = 2 ^ k
  BY <1>1, Doubling
<1>3. PICK x \in Nat : r[1] = p * x /\ r[2] = p * x + p - 1
  BY <1>1, <1>2
<1>4. PICK px \in Nat : px = p * x
  BY <1>2
<1>5. /\ c0 \in ChunkIn(w) /\ c0.net = r[1] /\ 32 - c0.mask = k /\ c0.mask = 32 - k
      /\ OnChunk(c0, c0.net) /\ BlockIn(c0) = r[1] .. r[2]
  <2>1. 32 - k \in 32 - w .. 32 /\ 32 - (32 - k) = k
    BY <1>1
  <2>2. c0 \in ChunkIn(w)
    BY <1>0, <2>1 DEF ChunkIn
  <2>3. r[1] % p = 0
    <3>1. \A q \in Nat \ {0}, z \in Nat : (q * z) % q = 0
      OBVIOUS
    <3> QED
      BY <1>3, <3>1
  <2>4. OnChunk(c0, c0.net)
    BY <1>0, <1>2, <2>1, <2>3 DEF OnChunk
  <2>5. BlockIn(c0) = r[1] .. r[2]
    BY <1>2, <1>3, <1>4, <2>1 DEF BlockIn
  <2> QED
    BY <2>1, <2>2, <2>4, <2>5
<1>6. c0 \in FitsIn(w, r)
  BY <1>5 DEF FitsIn
<1>7. ASSUME c0.mask # 32 - w, AroundOf(c0) \in FitsIn(w, r) PROVE FALSE
  <2> DEFINE d == AroundOf(c0)
  <2>1. d \in ChunkIn(w) /\ OnChunk(d, d.net) /\ 2 ^ (32 - d.mask) = 2 * 2 ^ k
    <3> HIDE DEF c0
    <3> QED
      BY <1>5, <1>7, AroundFacts
  <2>2. BlockIn(d) \subseteq r[1] .. r[2] /\ d.net \in Nat
    BY <1>7, <2>1, ChunkParts DEF FitsIn
  <2> HIDE DEF d
  <2>3. d.net .. d.net + 2 * p - 1 \subseteq r[1] .. r[2]
    BY <1>2, <2>1, <2>2 DEF BlockIn
  <2>4. PICK n \in Nat, t \in Nat \ {0} : n = d.net /\ t = 2 * p
    BY <1>2, <2>2
  <2>5. r[1] <= n /\ n + t - 1 <= r[2]
    BY <1>0, <2>3, <2>4, NoLonger
  <2> QED
    BY <1>2, <1>3, <1>4, <2>4, <2>5
<1>8. c0 \in LargestIn(w, r)
  BY <1>6, <1>7 DEF LargestIn
<1>9. ASSUME NEW c \in LargestIn(w, r) PROVE c = c0
  <2> DEFINE e == 32 - c.mask
  <2>1. c \in ChunkIn(w) /\ OnChunk(c, c.net) /\ BlockIn(c) \subseteq r[1] .. r[2]
    BY <1>9 DEF LargestIn, FitsIn
  <2>2. /\ e \in 0 .. w /\ c.net \in Nat /\ c = [net |-> c.net, mask |-> c.mask]
        /\ \E y \in Nat : c.net = 2 ^ e * y
    BY <2>1, ChunkParts
  <2>3. PICK s \in Nat \ {0} : s = 2 ^ e
    BY <2>2, Doubling
  <2>4. PICK y \in Nat : c.net = s * y
    BY <2>2, <2>3
  <2>5. PICK n \in Nat : n = c.net
    BY <2>2
  <2>6. n .. n + s - 1 \subseteq r[1] .. r[2]
    BY <2>1, <2>3, <2>5 DEF BlockIn
  <2>7. r[1] <= n /\ n + s - 1 <= r[2]
    BY <1>0, <2>6, NoLonger
  <2> HIDE DEF e
  <2>8. e \in 0 .. k
    <3> SUFFICES ASSUME ~(e <= k) PROVE FALSE
      BY <1>1, <2>2
    <3>1. e \in Nat /\ k \in 0 .. e /\ k # e
      BY <1>1, <2>2
    <3>2. 2 * p <= s
      BY <1>2, <2>3, <3>1, Larger
    <3> QED
      BY <1>2, <1>3, <1>4, <2>7, <3>2
  <2>9. CASE e = k
    <3>1. s = p
      BY <1>2, <2>3, <2>9
    <3>2. (p * 1) * x <= p * y /\ p * y + p - 1 <= (p * 1) * x + p * 1 - 1
      <4>1. p * 1 = p
        OBVIOUS
      <4> QED
        BY <1>3, <2>4, <2>5, <2>7, <3>1, <4>1
    <3>3. y = x
      BY <3>2, WithinBlock
    <3>4. c.net = r[1] /\ c.mask = 32 - k
      BY <1>1, <1>3, <2>1, <2>4, <2>9, <3>1, <3>3 DEF e, ChunkIn
    <3> QED
      BY <2>2, <3>4
  <2>10. CASE e # k
    <3> DEFINE d == AroundOf(c)
    <3>1. c.mask # 32 - w
      BY <1>1, <2>8, <2>10 DEF e
    <3>2. d \in ChunkIn(w) /\ OnChunk(d, d.net) /\ c.net \in BlockIn(d) /\ 2 ^ (32 - d.mask) = 2 * s
      BY <2>1, <2>3, <3>1, AroundFacts DEF e
    <3>3. d.net \in Nat /\ \E z \in Nat : d.net = 2 ^ (32 - d.mask) * z
      BY <3>2, ChunkParts
    <3>4. d \notin FitsIn(w, r)
      BY <1>9, <3>1 DEF LargestIn
    <3> HIDE DEF d
    <3>5. PICK t \in Nat \ {0} : t = 2 * s
      BY <2>3
    <3>6. PICK z \in Nat : d.net = t * z
      BY <3>2, <3>3, <3>5
    <3>7. n \in d.net .. d.net + t - 1
      BY <2>5, <3>2, <3>5 DEF BlockIn
    <3>8. PICK q \in Nat \ {0} : p = q * t
      <4>1. k \in Nat /\ e + 1 \in 0 .. k /\ e \in Nat
        BY <1>1, <2>8, <2>10
      <4>2. 2 ^ (e + 1) = t
        BY <2>3, <3>5, <4>1, Doubling
      <4>3. \E q \in Nat \ {0} : 2 ^ k = q * 2 ^ (e + 1)
        BY <4>1, Divides
      <4> QED
        BY <1>2, <4>2, <4>3
    <3>9. PICK u \in Nat, v \in Nat : u = q * x /\ v = q * x + q
      <4>1. q * x \in Nat
        OBVIOUS
      <4> QED
        BY <4>1
    <3>10. px = t * u /\ px + p = t * v
      <4>1. (q * t) * x = t * (q * x) /\ (q * t) * x + q * t = t * (q * x + q)
        OBVIOUS
      <4> QED
        BY <1>4, <3>8, <3>9, <4>1
    <3>11. PICK tz \in Nat : tz = t * z
      BY <3>6
    <3>12. t * u <= n /\ n < t * v /\ t * z <= n /\ n < t * z + t
      BY <1>3, <1>4, <2>7, <3>6, <3>7, <3>10, <3>11
    <3>13. t * u <= t * z /\ t * z + t <= t * v
      BY <3>12, Between
    <3>14. r[1] <= d.net /\ d.net + t - 1 <= r[2]
      <4>1. px <= tz /\ tz + t <= px + p
        BY <3>10, <3>11, <3>13
      <4>2. r[1] = px /\ r[2] = px + p - 1 /\ d.net = tz
        BY <1>3, <1>4, <3>6, <3>11
      <4>3. tz + t - 1 <= px + p - 1
        BY <4>1
      <4> QED
        BY <4>1, <4>2, <4>3
    <3>15. BlockIn(d) \subseteq r[1] .. r[2]
      BY <1>0, <3>2, <3>3, <3>5, <3>14 DEF BlockIn
    <3>16. d \in FitsIn(w, r)
      BY <3>2, <3>15 DEF FitsIn
    <3> QED
      BY <3>4, <3>16
  <2> QED
    BY <2>9, <2>10
<1> QED
  BY <1>8, <1>9 DEF k

\* The longest that fit into another range are those of its halves.
LEMMA FitsHalves ==
    ASSUME NEW w \in Nat, NEW r \in RangesIn(w), ~AlignedIn(w, r[1], r[2]),
           NEW c \in FitsIn(w, r)
    PROVE  LET m == MiddleIn(w, r[1], r[2]) IN
           \/ c \in FitsIn(w, <<r[1], m - 1>>) /\ c.net < m
           \/ c \in FitsIn(w, <<m, r[2]>>) /\ m <= c.net
<1> DEFINE a == r[1]
           b == r[2]
           k == DifferingIn(w, a, b)
           m == MiddleIn(w, a, b)
           e == 32 - c.mask
<1>1. k \in 1 .. w /\ m \in Nat /\ a < m /\ m <= b /\ m % 2 ^ (k - 1) = 0
  BY Halved
<1>2. a \in 0 .. 2 ^ w - 1 /\ b \in 0 .. 2 ^ w - 1 /\ a <= b /\ ~AlignedIn(w, a, b)
  BY DEF RangesIn
<1>3. a \in Nat /\ b \in Nat
  BY <1>2, Doubling
<1>4. c \in ChunkIn(w) /\ OnChunk(c, c.net) /\ BlockIn(c) \subseteq a .. b
  BY DEF FitsIn
<1> HIDE DEF a, b
<1>5. a \div 2 ^ k = b \div 2 ^ k
  BY <1>2, DifferingFacts
<1>6. e \in 0 .. w /\ \E y \in Nat : c.net = 2 ^ e * y
  BY <1>4, ChunkParts
<1>7. PICK s \in Nat \ {0} : s = 2 ^ e
  BY <1>6, Doubling
<1>8. PICK y \in Nat : c.net = s * y
  BY <1>6, <1>7
<1>9. PICK n \in Nat : n = s * y
  BY <1>7
<1>10. BlockIn(c) = n .. n + s - 1
  BY <1>7, <1>8, <1>9 DEF BlockIn
<1>11. a <= n /\ n + s - 1 <= b
  BY <1>3, <1>4, <1>10, NoLonger
<1> HIDE DEF m, k
<1>12. PICK p \in Nat \ {0} : p = 2 ^ (k - 1) /\ 2 ^ k = 2 * p
  <2>1. k - 1 \in Nat /\ (k - 1) + 1 = k
    BY <1>1
  <2>2. 2 ^ (k - 1) \in Nat \ {0} /\ 2 ^ ((k - 1) + 1) = 2 * 2 ^ (k - 1)
    BY <2>1, Doubling
  <2> QED
    BY <2>1, <2>2
<1> HIDE DEF e
<1>13. e \in 0 .. k - 1
  <2> SUFFICES ASSUME ~(e <= k - 1) PROVE FALSE
    BY <1>1, <1>6
  <2>1. e \in Nat /\ k \in 0 .. e
    BY <1>1, <1>6
  <2>2. PICK t \in Nat \ {0} : t = 2 ^ k /\ t <= s
    <3>1. 2 ^ k \in Nat \ {0} /\ 2 ^ k <= 2 ^ e
      BY <1>1, <2>1, Doubling, Larger
    <3> QED
      BY <1>7, <3>1
  <2>3. PICK x \in Nat : x = a \div t /\ x = b \div t
    BY <1>3, <1>5, <2>2, Quotients
  <2>4. PICK i \in 0 .. t - 1, j \in 0 .. t - 1 :
            i = a % t /\ j = b % t /\ a = t * x + i /\ b = t * x + j
    <3>1. a = t * x + (a % t) /\ b = t * x + (b % t) /\ a % t \in 0 .. t - 1 /\ b % t \in 0 .. t - 1
      BY <1>3, <2>2, <2>3, Quotients
    <3> QED
      BY <3>1
  <2>5. PICK tx \in Nat : tx = t * x
    BY <2>2
  <2>6. i = 0 /\ j = t - 1
    <3>1. i \in Nat /\ j \in Nat /\ i <= t - 1 /\ j <= t - 1
      OBVIOUS
    <3>2. a = tx + i /\ b = tx + j
      BY <2>4, <2>5
    <3>3. \A aa, bb \in Nat : (aa <= n /\ n + s - 1 <= bb /\ aa = tx + i /\ bb = tx + j /\ t <= s)
                               => i = 0 /\ j = t - 1
      BY <3>1
    <3> QED
      BY <1>3, <1>11, <2>2, <3>2, <3>3
  <2>7. a % t = 0 /\ (b + 1) % t = 0
    <3>1. b + 1 = t * (x + 1)
      <4>1. t * (x + 1) = t * x + t
        OBVIOUS
      <4> QED
        BY <2>4, <2>5, <2>6, <4>1
    <3>2. \A q \in Nat \ {0}, z \in Nat : (q * z) % q = 0
      OBVIOUS
    <3>3. x + 1 \in Nat
      OBVIOUS
    <3>4. (t * (x + 1)) % t = 0
      BY <3>2, <3>3
    <3> QED
      BY <2>4, <2>6, <3>1, <3>4
  <2> QED
    BY <1>2, <2>2, <2>7 DEF AlignedIn, k
<1>14. PICK q \in Nat \ {0} : p = q * s
  <2>1. k - 1 \in Nat
    BY <1>1
  <2>2. \E q \in Nat \ {0} : 2 ^ (k - 1) = q * 2 ^ e
    BY <1>13, <2>1, Divides
  <2> QED
    BY <1>7, <1>12, <2>2
<1>15. PICK z \in Nat : m = s * z
  <2>1. PICK x \in Nat : x = m \div p /\ m = p * x + (m % p)
    BY <1>1, <1>12, Quotients
  <2>2. PICK h \in Nat : h = p * x
    BY <1>12
  <2>3. m % p = 0
    BY <1>1, <1>12
  <2>4. m = p * x
    BY <2>1, <2>2, <2>3
  <2>5. (q * s) * x = s * (q * x) /\ q * x \in Nat
    OBVIOUS
  <2> QED
    BY <1>14, <2>4, <2>5
<1>16. CASE y < z
  <2>1. s * y + s <= s * z
    <3>1. y + 1 <= z
      BY <1>16
    <3> QED
      BY <3>1, Times
  <2>2. n + s <= m
    BY <1>9, <1>15, <2>1
  <2>3. n < m /\ n + s - 1 <= m - 1
    BY <1>1, <2>2
  <2>4. BlockIn(c) \subseteq a .. m - 1
    BY <1>1, <1>3, <1>10, <1>11, <2>3
  <2>5. c.net < m
    BY <1>8, <1>9, <2>3
  <2> QED
    BY <1>4, <2>4, <2>5 DEF FitsIn, a, b, m
<1>17. CASE ~(y < z)
  <2>1. s * z <= s * y
    <3>1. z <= y
      BY <1>17
    <3> QED
      BY <3>1
  <2>2. m <= n
    BY <1>9, <1>15, <2>1
  <2>3. BlockIn(c) \subseteq m .. b
    BY <1>1, <1>3, <1>10, <1>11, <2>2
  <2>4. m <= c.net
    BY <1>8, <1>9, <2>2
  <2> QED
    BY <1>4, <2>3, <2>4 DEF FitsIn, a, b, m
<1> QED
  BY <1>16, <1>17

\* The largest blocks of a range are those of its halves.
LEMMA LargestOfHalves ==
    ASSUME NEW w \in Nat, NEW r \in RangesIn(w), ~AlignedIn(w, r[1], r[2])
    PROVE  LET m == MiddleIn(w, r[1], r[2]) IN
           /\ LargestIn(w, r) = LargestIn(w, <<r[1], m - 1>>) \cup LargestIn(w, <<m, r[2]>>)
           /\ LargestIn(w, <<r[1], m - 1>>) \cap LargestIn(w, <<m, r[2]>>) = {}
<1> DEFINE m == MiddleIn(w, r[1], r[2])
           left == <<r[1], m - 1>>
           right == <<m, r[2]>>
<1>1. m \in Nat /\ r[1] <= m - 1 /\ m <= r[2] /\ m - 1 \in Nat /\ r[1] \in Nat /\ r[2] \in Nat
  <2>1. r[1] \in 0 .. 2 ^ w - 1 /\ r[2] \in 0 .. 2 ^ w - 1
    BY DEF RangesIn
  <2>2. m \in Nat /\ m - 1 \in Nat /\ r[1] <= m - 1 /\ m <= r[2]
    BY HalvesAreRanges
  <2> QED
    BY <2>1, <2>2, Doubling
<1>2. \A c \in FitsIn(w, r) : \/ c \in FitsIn(w, left) /\ c.net < m
                              \/ c \in FitsIn(w, right) /\ m <= c.net
  BY FitsHalves
<1> HIDE DEF m
<1>3. left[1] = r[1] /\ left[2] = m - 1 /\ right[1] = m /\ right[2] = r[2]
  OBVIOUS
<1>4. FitsIn(w, left) \subseteq FitsIn(w, r) /\ FitsIn(w, right) \subseteq FitsIn(w, r)
  <2>1. left[1] .. left[2] \subseteq r[1] .. r[2] /\ right[1] .. right[2] \subseteq r[1] .. r[2]
    BY <1>1, <1>3
  <2> HIDE DEF left, right
  <2> QED
    BY <2>1 DEF FitsIn
<1> HIDE DEF left, right
<1>5. \A d \in FitsIn(w, left) : \A n \in BlockIn(d) : n < m
  <2>1. \A d \in FitsIn(w, left) : \A n \in BlockIn(d) : n \in r[1] .. m - 1
    BY <1>3 DEF FitsIn
  <2> QED
    BY <1>1, <2>1
<1>6. \A d \in FitsIn(w, right) : \A n \in BlockIn(d) : m <= n
  <2>1. \A d \in FitsIn(w, right) : \A n \in BlockIn(d) : n \in m .. r[2]
    BY <1>3 DEF FitsIn
  <2> QED
    BY <1>1, <2>1
<1>7. ASSUME NEW c \in FitsIn(w, r)
      PROVE  c.net \in Nat /\ c.net \in BlockIn(c) /\ (c.mask # 32 - w => c.net \in BlockIn(AroundOf(c)))
  BY <1>7, ChunkParts, AroundFacts DEF FitsIn
<1>8. ASSUME NEW c \in FitsIn(w, left), c.mask # 32 - w
      PROVE  AroundOf(c) \in FitsIn(w, r) => AroundOf(c) \in FitsIn(w, left)
  <2>1. c.net \in Nat /\ c.net < m /\ c.net \in BlockIn(AroundOf(c))
    BY <1>4, <1>5, <1>7, <1>8
  <2> SUFFICES ASSUME AroundOf(c) \in FitsIn(w, right) PROVE FALSE
    BY <1>2
  <2>2. m <= c.net
    BY <1>6, <2>1
  <2> QED
    BY <1>1, <2>1, <2>2
<1>9. ASSUME NEW c \in FitsIn(w, right), c.mask # 32 - w
      PROVE  AroundOf(c) \in FitsIn(w, r) => AroundOf(c) \in FitsIn(w, right)
  <2>1. c.net \in Nat /\ m <= c.net /\ c.net \in BlockIn(AroundOf(c))
    BY <1>4, <1>6, <1>7, <1>9
  <2> SUFFICES ASSUME AroundOf(c) \in FitsIn(w, left) PROVE FALSE
    BY <1>2
  <2>2. c.net < m
    BY <1>5, <2>1
  <2> QED
    BY <1>1, <2>1, <2>2
<1>10. LargestIn(w, r) \subseteq LargestIn(w, left) \cup LargestIn(w, right)
  BY <1>2, <1>4 DEF LargestIn
<1>11. LargestIn(w, left) \subseteq LargestIn(w, r)
  BY <1>4, <1>8 DEF LargestIn
<1>12. LargestIn(w, right) \subseteq LargestIn(w, r)
  BY <1>4, <1>9 DEF LargestIn
<1>13. FitsIn(w, left) \cap FitsIn(w, right) = {}
  <2> SUFFICES ASSUME NEW c \in FitsIn(w, left), c \in FitsIn(w, right) PROVE FALSE
    OBVIOUS
  <2>1. c.net \in Nat /\ c.net < m /\ m <= c.net
    BY <1>4, <1>5, <1>6, <1>7
  <2> QED
    BY <1>1, <2>1
<1>14. LargestIn(w, left) \cap LargestIn(w, right) = {}
  BY <1>13 DEF LargestIn
<1> QED
  BY <1>10, <1>11, <1>12, <1>14 DEF left, right, m

\* ip4.pm: the chunks of a range are the longest blocks that fit into it, each once.
THEOREM CutFewest ==
    ASSUME NEW w \in Nat, NEW r \in RangesIn(w)
    PROVE  ToSet(CutIn(w)[r]) = LargestIn(w, r) /\ IsInjective(CutIn(w)[r])
<1> DEFINE G == {q \in RangesIn(w) : ToSet(CutIn(w)[q]) = LargestIn(w, q) /\ IsInjective(CutIn(w)[q])}
<1>1. ASSUME NEW q \in RangesIn(w), AlignedIn(w, q[1], q[2]) PROVE q \in G
  <2> DEFINE c == [net |-> q[1], mask |-> 32 - DifferingIn(w, q[1], q[2])]
  <2>1. CutIn(w)[q] = <<c>>
    BY <1>1, CutExists DEF ChunksOf
  <2>2. LargestIn(w, q) = {c}
    BY <1>1, LargestOfBlock
  <2> HIDE DEF c
  <2>3. ToSet(<<c>>) = {c}
    BY DEF ToSet
  <2>4. IsInjective(<<c>>)
    BY DEF IsInjective
  <2> QED
    BY <2>1, <2>2, <2>3, <2>4
<1>2. ASSUME NEW q \in RangesIn(w), ~AlignedIn(w, q[1], q[2]),
             <<q[1], MiddleIn(w, q[1], q[2]) - 1>> \in G,
             <<MiddleIn(w, q[1], q[2]), q[2]>> \in G
      PROVE  q \in G
  <2> DEFINE m == MiddleIn(w, q[1], q[2])
             left == <<q[1], m - 1>>
             right == <<m, q[2]>>
             s == CutIn(w)[left]
             t == CutIn(w)[right]
  <2>1. CutIn(w)[q] = s \o t
    BY <1>2, CutExists DEF ChunksOf
  <2>2. /\ LargestIn(w, q) = LargestIn(w, left) \cup LargestIn(w, right)
        /\ LargestIn(w, left) \cap LargestIn(w, right) = {}
    BY <1>2, LargestOfHalves
  <2>3. /\ ToSet(s) = LargestIn(w, left) /\ IsInjective(s)
        /\ ToSet(t) = LargestIn(w, right) /\ IsInjective(t)
    BY <1>2
  <2>4. s \in Seq(ChunkIn(w)) /\ t \in Seq(ChunkIn(w))
    BY <1>2, CutCovers DEF CutRight
  <2> HIDE DEF m, left, right, s, t
  <2>5. Listed(s) /\ Listed(t)
    BY <2>4, ListedFacts
  <2>6. /\ ToSet(s \o t) = ToSet(s) \cup ToSet(t) /\ Len(s \o t) = Len(s) + Len(t)
        /\ \A i \in 1 .. Len(s) : (s \o t)[i] = s[i]
        /\ \A i \in Len(s) + 1 .. Len(s) + Len(t) :
             i - Len(s) \in 1 .. Len(t) /\ (s \o t)[i] = t[i - Len(s)]
    BY <2>5, Joined
  <2> DEFINE u == s \o t
  <2>7. IsInjective(u)
    <3>1. Len(s) \in Nat /\ Len(t) \in Nat /\ DOMAIN s = 1 .. Len(s) /\ DOMAIN t = 1 .. Len(t)
          /\ u \in Seq(ChunkIn(w)) /\ DOMAIN u = 1 .. Len(u)
      BY <2>4, ConcatProperties
    <3>2. \A i \in DOMAIN s : s[i] \in ToSet(s)
      BY DEF ToSet
    <3>3. \A i \in DOMAIN t : t[i] \in ToSet(t)
      BY DEF ToSet
    <3>4. \A i \in 1 .. Len(u) : i \in 1 .. Len(s) \/ i \in Len(s) + 1 .. Len(s) + Len(t)
      BY <2>6, <3>1
    <3> HIDE DEF u
    <3> SUFFICES ASSUME NEW i \in 1 .. Len(u), NEW j \in 1 .. Len(u), u[i] = u[j] PROVE i = j
      BY <3>1 DEF IsInjective
    <3>5. CASE i \in 1 .. Len(s) /\ j \in 1 .. Len(s)
      BY <2>3, <2>6, <3>1, <3>5 DEF IsInjective, u
    <3>6. CASE i \in Len(s) + 1 .. Len(s) + Len(t) /\ j \in Len(s) + 1 .. Len(s) + Len(t)
      <4>1. t[i - Len(s)] = t[j - Len(s)] /\ i - Len(s) \in DOMAIN t /\ j - Len(s) \in DOMAIN t
        BY <2>6, <3>1, <3>6 DEF u
      <4>2. i - Len(s) = j - Len(s)
        BY <2>3, <4>1 DEF IsInjective
      <4> QED
        BY <3>1, <4>2
    <3>7. CASE i \in 1 .. Len(s) /\ j \in Len(s) + 1 .. Len(s) + Len(t)
      BY <2>2, <2>3, <2>6, <3>1, <3>2, <3>3, <3>7 DEF u
    <3>8. CASE j \in 1 .. Len(s) /\ i \in Len(s) + 1 .. Len(s) + Len(t)
      BY <2>2, <2>3, <2>6, <3>1, <3>2, <3>3, <3>8 DEF u
    <3> QED
      BY <3>4, <3>5, <3>6, <3>7, <3>8
  <2> QED
    BY <2>1, <2>2, <2>3, <2>6, <2>7
<1>3. RangesIn(w) \subseteq G
  <2> HIDE DEF G
  <2> QED
    BY <1>1, <1>2, Halving
<1> QED
  BY <1>3

-----------------------------------------------------------------------------
(* The blocks of the maps                                                   *)

LEMMA Bits == W \in Nat /\ W <= 31 /\ 4 \in Nat
  BY IpDbConstants DEF Maps!IpDbConstants

\* The maps' ToCidr is CutIn.
LEMMA MapsCut == Maps!ToCidr = CutIn(W)
  BY DEF Maps!ToCidr, CutIn, Maps!IsBlock, Maps!Differing, ChunksOf, AlignedIn, MiddleIn,
         DifferingIn, RangesIn, Maps!Interval, Maps!Address

LEMMA WideCut == Wide!ToCidr = CutIn(4)
  BY DEF Wide!ToCidr, CutIn, Wide!IsBlock, Wide!Differing, ChunksOf, AlignedIn, MiddleIn,
         DifferingIn, RangesIn, Wide!Interval, Wide!Address

\* Single ranges, for any number of bits
EntryIn(w) ==
    {e \in [lo : 0 .. 2 ^ w - 1, hi : 0 .. 2 ^ w - 1, to : Place, of : Country \cup {Block}] :
        e.lo <= e.hi}

\* ip4.pm, do_chunk: the blocks of a range are the fewest there are.
LEMMA WideFewest ==
    ASSUME rs \in Seq(EntryIn(4))
    PROVE  Wide!FewestBlocks
<1> SUFFICES ASSUME NEW i \in 1 .. Len(rs)
             PROVE  LET range == rs[i].lo .. rs[i].hi
                        blocks == [net : Wide!Address, mask : Wide!Mask]
                        fits == {c \in blocks : c.net = Wide!Net(c.net, c.mask)
                                                /\ Wide!BlockOf(c) \subseteq range}
                        around(c) == [net |-> Wide!Net(c.net, c.mask - 1), mask |-> c.mask - 1]
                        chunks == Wide!ToCidr[<<rs[i].lo, rs[i].hi>>]
                    IN  /\ Wide!ToSet(chunks) = {c \in fits : c.mask = 32 - 4 \/ around(c) \notin fits}
                        /\ Wide!IsInjective(chunks)
  BY DEF Wide!FewestBlocks
<1> DEFINE r == <<rs[i].lo, rs[i].hi>>
<1>1. rs[i] \in EntryIn(4)
  OBVIOUS
<1>2. rs[i].lo \in 0 .. 2 ^ 4 - 1 /\ rs[i].hi \in 0 .. 2 ^ 4 - 1 /\ rs[i].lo <= rs[i].hi
  BY <1>1 DEF EntryIn
<1>3. r \in RangesIn(4) /\ r[1] = rs[i].lo /\ r[2] = rs[i].hi
  BY <1>2 DEF RangesIn
<1>4. ToSet(CutIn(4)[r]) = LargestIn(4, r) /\ IsInjective(CutIn(4)[r])
  BY <1>3, CutFewest
<1>5. FitsIn(4, r) = {c \in [net : Wide!Address, mask : Wide!Mask] :
                        c.net = Wide!Net(c.net, c.mask)
                        /\ Wide!BlockOf(c) \subseteq rs[i].lo .. rs[i].hi}
  BY <1>3 DEF FitsIn, ChunkIn, OnChunk, BlockIn, Wide!Address, Wide!Mask, Wide!Net, Wide!Size,
              Wide!BlockOf
<1> DEFINE around(c) == [net |-> Wide!Net(c.net, c.mask - 1), mask |-> c.mask - 1]
<1>6. LargestIn(4, r) = {c \in FitsIn(4, r) : c.mask = 32 - 4 \/ around(c) \notin FitsIn(4, r)}
  BY DEF LargestIn, AroundOf, Wide!Net, Wide!Size
<1> QED
  BY <1>4, <1>5, <1>6, WideCut DEF Wide!ToSet, Wide!IsInjective, ToSet, IsInjective

\* Where a sequence has elements of P, and when there is one such place
Among(s, P) == {i \in 1 .. Len(s) : s[i] \in P}
One(S) == \E i \in S : S = {i}

\* What elements a joined sequence has of P
LEMMA AmongJoined ==
    ASSUME NEW A, NEW s \in Seq(A), NEW t \in Seq(A), NEW P
    PROVE  /\ Among(s \o t, P) = Among(s, P) \cup {Len(s) + i : i \in Among(t, P)}
           /\ Len(s) \in Nat /\ Len(t) \in Nat /\ s \o t \in Seq(A)
<1>1. /\ Len(s) \in Nat /\ Len(t) \in Nat /\ s \o t \in Seq(A) /\ Len(s \o t) = Len(s) + Len(t)
      /\ \A i \in 1 .. Len(s) + Len(t) : (s \o t)[i] = IF i <= Len(s) THEN s[i] ELSE t[i - Len(s)]
  BY ConcatProperties
<1> DEFINE u == s \o t
           m == Len(s)
           n == Len(t)
<1>2. m \in Nat /\ n \in Nat /\ Len(u) = m + n
  BY <1>1
<1>3. \A i \in 1 .. m + n : u[i] = IF i <= m THEN s[i] ELSE t[i - m]
  BY <1>1
<1> HIDE DEF u, m, n
<1>4. \A i \in 1 .. m : i \in 1 .. m + n /\ u[i] = s[i]
  <2>1. \A i \in 1 .. m : i \in 1 .. m + n /\ i <= m
    BY <1>2
  <2> QED
    BY <1>3, <2>1
<1>5. \A i \in 1 .. n : m + i \in 1 .. m + n /\ u[m + i] = t[i]
  <2>1. \A i \in 1 .. n : m + i \in 1 .. m + n /\ ~(m + i <= m) /\ (m + i) - m = i
    BY <1>2
  <2> QED
    BY <1>3, <2>1
<1>6. \A i \in 1 .. m + n : i \in 1 .. m \/ \E j \in 1 .. n : i = m + j
  <2> TAKE i \in 1 .. m + n
  <2>1. i \in 1 .. m \/ (i - m \in 1 .. n /\ i = m + (i - m))
    BY <1>2
  <2> QED
    BY <2>1
<1>7. Among(u, P) \subseteq Among(s, P) \cup {m + i : i \in Among(t, P)}
  <2> SUFFICES ASSUME NEW i \in Among(u, P)
               PROVE  i \in Among(s, P) \cup {m + j : j \in Among(t, P)}
    OBVIOUS
  <2>1. i \in 1 .. m + n /\ u[i] \in P
    BY <1>2 DEF Among
  <2>2. CASE i \in 1 .. m
    BY <1>4, <2>1, <2>2 DEF Among, m
  <2>3. ASSUME NEW j \in 1 .. n, i = m + j PROVE i \in {m + k : k \in Among(t, P)}
    BY <1>5, <2>1, <2>3 DEF Among, n
  <2> QED
    BY <1>6, <2>1, <2>2, <2>3
<1>8. Among(s, P) \subseteq Among(u, P)
  BY <1>2, <1>4 DEF Among, m
<1>9. {m + i : i \in Among(t, P)} \subseteq Among(u, P)
  BY <1>2, <1>5 DEF Among, n
<1> QED
  BY <1>1, <1>7, <1>8, <1>9 DEF u, m, n

\* Flattening keeps what is in the sequences.
LEMMA FlattenedAmong ==
    ASSUME NEW A, NEW seqs \in Seq(Seq(A)), NEW P
    PROVE  /\ Among(FlattenSeq(seqs), P) = {} <=> \A j \in 1 .. Len(seqs) : Among(seqs[j], P) = {}
           /\ \A j \in 1 .. Len(seqs) :
                One(Among(seqs[j], P)) /\ (\A k \in 1 .. Len(seqs) : k # j => Among(seqs[k], P) = {})
                => One(Among(FlattenSeq(seqs), P))
<1> DEFINE n == Len(seqs)
<1>0. n \in Nat /\ \A j \in 1 .. n : seqs[j] \in Seq(A)
  OBVIOUS
<1>1. CASE n = 0
  <2>1. FlattenSeq(seqs) = <<>> /\ Among(<<>>, P) = {}
    <3>1. seqs = <<>> /\ Len(<<>>) = 0
      BY <1>1
    <3> QED
      BY <3>1, NothingToFlatten DEF Among
  <2> QED
    BY <1>1, <2>1
<1>2. CASE n # 0
  <2>1. PICK g \in [1 .. n -> Seq(A)] : Joins(g, seqs) /\ FlattenSeq(seqs) = g[n]
    BY <1>2, JoinedUp
  <2>2. 1 \in 1 .. n /\ n \in 1 .. n
    BY <1>0, <1>2
  <2>3. g[1] = seqs[1] /\ \A i \in 2 .. n : g[i] = g[i - 1] \o seqs[i]
    BY <2>1 DEF Joins
  <2> HIDE DEF n
  <2>4. ASSUME NEW i \in 2 .. n
        PROVE  /\ i - 1 \in 1 .. n /\ i \in 1 .. n
               /\ Among(g[i], P) = {} <=> Among(g[i - 1], P) = {} /\ Among(seqs[i], P) = {}
               /\ Among(seqs[i], P) = {} => Among(g[i], P) = Among(g[i - 1], P)
               /\ Among(g[i - 1], P) = {} /\ One(Among(seqs[i], P)) => One(Among(g[i], P))
    <3>1. i - 1 \in 1 .. n /\ i \in 1 .. n
      BY <1>0
    <3> DEFINE X == Among(g[i - 1], P)
               Y == Among(seqs[i], P)
               m == Len(g[i - 1])
    <3>2. g[i - 1] \in Seq(A) /\ seqs[i] \in Seq(A) /\ g[i] = g[i - 1] \o seqs[i]
      BY <1>0, <2>1, <2>3, <3>1
    <3>3. Among(g[i], P) = X \cup {m + k : k \in Y}
      BY <3>2, AmongJoined
    <3> HIDE DEF X, Y, m
    <3>4. One(Y) => One({m + k : k \in Y})
      BY DEF One
    <3>5. {m + k : k \in Y} = {} <=> Y = {}
      OBVIOUS
    <3> QED
      BY <3>1, <3>3, <3>4, <3>5 DEF X, Y
  <2>5. Among(g[n], P) = {} <=> \A j \in 1 .. n : Among(seqs[j], P) = {}
    <3> DEFINE B == {i \in 1 .. n : Among(g[i], P) = {} <=> \A j \in 1 .. i : Among(seqs[j], P) = {}}
    <3>1. 1 \in B
      <4>1. 1 .. 1 = {1}
        OBVIOUS
      <4> QED
        BY <2>2, <2>3, <4>1
    <3>2. ASSUME NEW i \in 1 + 1 .. n, i - 1 \in B PROVE i \in B
      <4>1. i \in 2 .. n /\ 1 .. i = (1 .. i - 1) \cup {i}
        BY <1>0
      <4>2. Among(g[i - 1], P) = {} <=> \A k \in 1 .. i - 1 : Among(seqs[k], P) = {}
        BY <3>2
      <4>3. i \in 1 .. n /\ (Among(g[i], P) = {} <=> Among(g[i - 1], P) = {} /\ Among(seqs[i], P) = {})
        BY <2>4, <4>1
      <4> QED
        BY <4>1, <4>2, <4>3
    <3> HIDE DEF B
    <3>3. \A i \in 1 .. n : i \in B
      BY <1>0, <3>1, <3>2, Stepwise
    <3> QED
      BY <2>2, <3>3 DEF B
  <2>6. ASSUME NEW j \in 1 .. n, One(Among(seqs[j], P)),
               \A k \in 1 .. n : k # j => Among(seqs[k], P) = {}
        PROVE  One(Among(g[n], P))
    <3> DEFINE B == {i \in 1 .. n : IF i < j THEN Among(g[i], P) = {} ELSE One(Among(g[i], P))}
    <3>0. j \in Nat /\ 1 <= j /\ j <= n
      BY <1>0
    <3>1. 1 \in B
      <4>1. j = 1 \/ (1 < j /\ j # 1)
        BY <3>0
      <4>2. j = 1 => ~(1 < j)
        OBVIOUS
      <4> QED
        BY <2>2, <2>3, <2>6, <4>1, <4>2
    <3>2. ASSUME NEW i \in 1 + 1 .. n, i - 1 \in B PROVE i \in B
      <4>1. i \in 2 .. n /\ i \in Nat
        BY <1>0
      <4>0. IF i - 1 < j THEN Among(g[i - 1], P) = {} ELSE One(Among(g[i - 1], P))
        BY <3>2
      <4> DEFINE X == Among(g[i - 1], P)
                 Y == Among(seqs[i], P)
                 Z == Among(g[i], P)
      <4>5. /\ i - 1 \in 1 .. n /\ i \in 1 .. n
            /\ (Z = {} <=> X = {} /\ Y = {}) /\ (Y = {} => Z = X)
            /\ (X = {} /\ One(Y) => One(Z))
        BY <2>4, <4>1
      <4>6. i # j => Y = {}
        BY <2>6, <4>5
      <4>7. i \in B <=> IF i < j THEN Z = {} ELSE One(Z)
        BY <4>5
      <4> HIDE DEF X, Y, Z, B
      <4>2. CASE i < j
        <5>1. i - 1 < j /\ i # j
          BY <3>0, <4>1, <4>2
        <5> QED
          BY <4>0, <4>2, <4>5, <4>6, <4>7, <5>1 DEF X
      <4>3. CASE i = j
        <5>1. i - 1 < j /\ ~(i < j)
          BY <3>0, <4>1, <4>3
        <5> QED
          BY <2>6, <4>0, <4>3, <4>5, <4>7, <5>1 DEF X, Y
      <4>4. CASE i > j
        <5>1. ~(i - 1 < j) /\ ~(i < j) /\ i # j
          BY <3>0, <4>1, <4>4
        <5> QED
          BY <4>0, <4>5, <4>6, <4>7, <5>1 DEF X
      <4> QED
        BY <3>0, <4>1, <4>2, <4>3, <4>4
    <3> HIDE DEF B
    <3>3. \A i \in 1 .. n : i \in B
      BY <1>0, <3>1, <3>2, Stepwise
    <3> QED
      BY <2>2, <3>0, <3>3 DEF B
  <2> QED
    BY <2>1, <2>5, <2>6 DEF n
<1> QED
  BY <1>1, <1>2

\* The elements of a sequence backwards
LEMMA Backwards ==
    ASSUME NEW A, NEW s \in Seq(A)
    PROVE  /\ Reverse(s) \in Seq(A) /\ Len(Reverse(s)) = Len(s)
           /\ \A i \in 1 .. Len(s) : Len(s) - i + 1 \in 1 .. Len(s)
                                     /\ Reverse(s)[i] = s[Len(s) - i + 1]
                                     /\ Reverse(s)[Len(s) - i + 1] = s[i]
<1> DEFINE n == Len(s)
<1>1. n \in Nat /\ \A i \in 1 .. n : s[i] \in A
  OBVIOUS
<1>2. Reverse(s) = [i \in 1 .. n |-> s[(n - i) + 1]]
  BY DEF Reverse
<1> HIDE DEF n
<1>3. \A i \in 1 .. n : (n - i) + 1 \in 1 .. n /\ (n - ((n - i) + 1)) + 1 = i
  BY <1>1
<1>4. Reverse(s) \in [1 .. n -> A]
  BY <1>1, <1>2, <1>3
<1>5. Reverse(s) \in Seq(A) /\ Len(Reverse(s)) = n
  BY <1>1, <1>4
<1> QED
  BY <1>2, <1>3, <1>5 DEF n

\* The networks of addresses
LEMMA NetFacts ==
    ASSUME NEW w \in Nat, NEW a \in 0 .. 2 ^ w - 1, NEW m \in 32 - w .. 32
    PROVE  /\ Maps!Net(a, m) \in 0 .. 2 ^ w - 1
           /\ Maps!Net(a, m) + Maps!Size(m) - 1 \in 0 .. 2 ^ w - 1
           /\ Maps!Net(a, m) <= Maps!Net(a, m) + Maps!Size(m) - 1
           /\ Maps!Net(Maps!Net(a, m), m) = Maps!Net(a, m)
<1>1. PICK k \in 0 .. w : k = 32 - m
  OBVIOUS
<1>2. PICK s \in Nat \ {0}, q \in Nat \ {0} : s = 2 ^ k /\ 2 ^ w = q * s
  <2>1. k \in Nat /\ 2 ^ k \in Nat \ {0}
    BY <1>1, Doubling
  <2>2. \E q \in Nat \ {0} : 2 ^ w = q * 2 ^ k
    BY <1>1, Divides
  <2> QED
    BY <2>1, <2>2
<1>3. PICK x \in Nat : a = s * x + (a % s) /\ a % s \in 0 .. s - 1
  <2>1. a \in Nat
    BY <1>2
  <2> QED
    BY <1>2, <2>1, Quotients
<1>4. PICK n \in Nat : n = s * x
  BY <1>2
<1>5. PICK t \in Nat : t = 2 ^ w
  BY <1>2
<1>6. a \in 0 .. t - 1
  BY <1>5
<1>7. Maps!Net(a, m) = n /\ Maps!Size(m) = s
  <2>1. Maps!Size(m) = s
    BY <1>1, <1>2 DEF Maps!Size
  <2>2. a - (a % s) = n
    BY <1>3, <1>4, <1>6
  <2> QED
    BY <2>1, <2>2 DEF Maps!Net
<1>8. n + s <= t
  <2>1. x + 1 <= q
    <3> SUFFICES ASSUME q <= x PROVE FALSE
      BY <1>2, <1>3
    <3>1. s * q <= s * x
      BY <1>2
    <3>2. t = s * q
      BY <1>2, <1>5
    <3>3. t <= n /\ n <= a
      BY <1>3, <1>4, <1>6, <3>1, <3>2
    <3> QED
      BY <1>4, <1>5, <1>6, <3>3
  <2>2. s * x + s <= s * q
    BY <1>2, <2>1, Times
  <2> QED
    BY <1>2, <1>4, <1>5, <2>2
<1>9. n % s = 0
  <2>1. (s * x) % s = 0
    OBVIOUS
  <2> QED
    BY <1>4, <2>1
<1>10. Maps!Net(n, m) = n
  BY <1>4, <1>7, <1>9 DEF Maps!Net
<1>11. n \in 0 .. t - 1 /\ n + s - 1 \in 0 .. t - 1 /\ n <= n + s - 1
  BY <1>2, <1>4, <1>5, <1>8
<1> QED
  BY <1>5, <1>7, <1>10, <1>11

\* A sequence of two
LEMMA TwoJoined ==
    ASSUME NEW A, NEW x \in A, NEW y \in A
    PROVE  /\ <<x>> \o <<y>> \in Seq(A) /\ Len(<<x>> \o <<y>>) = 2
           /\ (<<x>> \o <<y>>)[1] = x /\ (<<x>> \o <<y>>)[2] = y
<1>1. <<x>> \in Seq(A) /\ <<y>> \in Seq(A) /\ Len(<<x>>) = 1 /\ Len(<<y>>) = 1
      /\ <<x>>[1] = x /\ <<y>>[1] = y
  OBVIOUS
<1>2. <<x>> \o <<y>> \in Seq(A) /\ Len(<<x>> \o <<y>>) = 1 + 1
      /\ \A i \in 1 .. 1 + 1 : (<<x>> \o <<y>>)[i] = IF i <= 1 THEN <<x>>[i] ELSE <<y>>[i - 1]
  BY <1>1, ConcatProperties
<1> HIDE <1>1
<1>3. 1 + 1 = 2 /\ 2 - 1 = 1 /\ 1 <= 1 /\ ~(2 <= 1) /\ 1 \in 1 .. 1 + 1 /\ 2 \in 1 .. 1 + 1
  OBVIOUS
<1> QED
  BY <1>1, <1>2, <1>3

\* An entry made of a range
LEMMA MadeEntry ==
    ASSUME NEW w \in Nat, NEW lo \in 0 .. 2 ^ w - 1, NEW hi \in 0 .. 2 ^ w - 1, lo <= hi,
           NEW to \in Place, NEW of \in Country \cup {Block}
    PROVE  /\ Maps!Entry(lo, hi, to, of) \in EntryIn(w)
           /\ Maps!Entry(lo, hi, to, of).lo = lo /\ Maps!Entry(lo, hi, to, of).hi = hi
           /\ Maps!Entry(lo, hi, to, of).to = to /\ Maps!Entry(lo, hi, to, of).of = of
  BY DEF Maps!Entry, EntryIn

\* What an entry is made of
LEMMA EntryFacts ==
    ASSUME NEW w \in Nat, NEW t \in EntryIn(w)
    PROVE  /\ t.lo \in 0 .. 2 ^ w - 1 /\ t.hi \in 0 .. 2 ^ w - 1 /\ t.lo <= t.hi
           /\ t.lo \in Nat /\ t.hi \in Nat
           /\ t.to \in Place /\ t.of \in Country \cup {Block}
<1>1. t.lo \in 0 .. 2 ^ w - 1 /\ t.hi \in 0 .. 2 ^ w - 1 /\ t.lo <= t.hi
      /\ t.to \in Place /\ t.of \in Country \cup {Block}
  BY DEF EntryIn
<1> QED
  BY <1>1, Doubling

\* The entries over an address
Over(w, a) == {t \in EntryIn(w) : a \in t.lo .. t.hi}

\* chk_except_match: what is left of a range beside an exception
LEMMA PiecesFacts ==
    ASSUME NEW w \in Nat, NEW t \in EntryIn(w), NEW e \in EntryIn(w)
    PROVE  /\ Maps!Pieces(t, e) \in Seq(EntryIn(w))
           /\ \A i \in 1 .. Len(Maps!Pieces(t, e)) :
                LET p == Maps!Pieces(t, e)[i]
                IN  p.to = t.to /\ p.lo .. p.hi \subseteq t.lo .. t.hi /\ (p = t \/ p.of = Block)
           /\ \A a \in e.lo .. e.hi : Among(Maps!Pieces(t, e), Over(w, a)) = {}
           /\ \A a \in (t.lo .. t.hi) \ (e.lo .. e.hi) :
                    One(Among(Maps!Pieces(t, e), Over(w, a)))
<1> DEFINE left == Maps!Entry(t.lo, e.lo - 1, t.to, Block)
           right == Maps!Entry(e.hi + 1, t.hi, t.to, Block)
           ps == Maps!Pieces(t, e)
<1>1. PICK c \in Nat, d \in Nat, g \in Nat, h \in Nat, z \in Nat :
        /\ c = t.lo /\ d = t.hi /\ g = e.lo /\ h = e.hi /\ z = 2 ^ w
        /\ c <= d /\ g <= h /\ d < z /\ h < z
  <2>1. 2 ^ w \in Nat
    BY Doubling
  <2> QED
    BY <2>1, EntryFacts
<1>2. CASE d < g \/ h < c
  <2>1. ps = <<t>>
    BY <1>1, <1>2 DEF Maps!Pieces
  <2>2. Len(<<t>>) = 1 /\ <<t>>[1] = t
    OBVIOUS
  <2>3. \A a \in g .. h : a \notin c .. d
    BY <1>1, <1>2
  <2>4. \A a : Among(<<t>>, Over(w, a)) = IF a \in c .. d THEN {1} ELSE {}
    BY <1>1, <2>2 DEF Among, Over
  <2>5. One({1})
    BY DEF One
  <2> HIDE DEF ps
  <2> QED
    BY <1>1, <2>1, <2>2, <2>3, <2>4, <2>5 DEF ps
<1>3. CASE ~(d < g \/ h < c)
  <2>1. ps = (IF c < g THEN <<left>> ELSE <<>>) \o (IF h < d THEN <<right>> ELSE <<>>)
    BY <1>1, <1>3 DEF Maps!Pieces
  <2>2. c < g => /\ left \in EntryIn(w) /\ left.lo = c /\ left.hi = g - 1 /\ left.to = t.to
                 /\ left.of = Block
    <3>1. SUFFICES ASSUME c < g PROVE g - 1 \in 0 .. 2 ^ w - 1 /\ c <= g - 1
      BY <1>1, EntryFacts, MadeEntry
    <3> QED
      BY <1>1, <3>1
  <2>3. h < d => /\ right \in EntryIn(w) /\ right.lo = h + 1 /\ right.hi = d /\ right.to = t.to
                 /\ right.of = Block
    <3>1. SUFFICES ASSUME h < d PROVE h + 1 \in 0 .. 2 ^ w - 1 /\ h + 1 <= d
      BY <1>1, EntryFacts, MadeEntry
    <3> QED
      BY <1>1, <3>1
  <2> HIDE DEF left, right, ps
  <2>4. CASE c < g /\ h < d
    <3>1. ps = <<left>> \o <<right>>
      BY <2>1, <2>4
    <3>2. ps \in Seq(EntryIn(w)) /\ Len(ps) = 2 /\ ps[1] = left /\ ps[2] = right
      BY <2>2, <2>3, <2>4, <3>1, TwoJoined
    <3>3. 1 .. 2 = {1, 2}
      OBVIOUS
    <3>4. ASSUME NEW a
          PROVE Among(ps, Over(w, a)) = {i \in {1, 2} : (i = 1 /\ a \in c .. g - 1)
                                                       \/ (i = 2 /\ a \in h + 1 .. d)}
      BY <2>2, <2>3, <2>4, <3>2, <3>3 DEF Among, Over
    <3>5. \A a \in g .. h : a \notin c .. g - 1 /\ a \notin h + 1 .. d
      BY <1>1
    <3>6. \A a \in (c .. d) \ (g .. h) : \/ (a \in c .. g - 1 /\ a \notin h + 1 .. d)
                                        \/ (a \notin c .. g - 1 /\ a \in h + 1 .. d)
      BY <1>1
    <3>7. \A a \in (c .. d) \ (g .. h) : One(Among(ps, Over(w, a)))
      BY <3>4, <3>6 DEF One
    <3>8. c .. g - 1 \subseteq c .. d /\ h + 1 .. d \subseteq c .. d
      BY <1>1, <1>3
    <3> QED
      BY <1>1, <2>2, <2>3, <2>4, <3>2, <3>3, <3>4, <3>5, <3>7, <3>8 DEF ps
  <2>5. CASE c < g /\ ~(h < d)
    <3>1. ps = <<left>> /\ Len(<<left>>) = 1 /\ <<left>>[1] = left
      BY <2>1, <2>5
    <3>4. ASSUME NEW a
          PROVE Among(ps, Over(w, a)) = IF a \in c .. g - 1 THEN {1} ELSE {}
      BY <2>2, <2>5, <3>1 DEF Among, Over
    <3>5. \A a \in g .. h : a \notin c .. g - 1
      BY <1>1
    <3>6. \A a \in (c .. d) \ (g .. h) : a \in c .. g - 1
      BY <1>1, <2>5
    <3>7. \A a \in (c .. d) \ (g .. h) : One(Among(ps, Over(w, a)))
      BY <3>4, <3>6 DEF One
    <3>8. c .. g - 1 \subseteq c .. d
      BY <1>1, <1>3
    <3> QED
      BY <1>1, <2>2, <2>5, <3>1, <3>4, <3>5, <3>7, <3>8 DEF ps
  <2>6. CASE ~(c < g) /\ h < d
    <3>1. ps = <<right>> /\ Len(<<right>>) = 1 /\ <<right>>[1] = right
      BY <2>1, <2>6
    <3>4. ASSUME NEW a
          PROVE Among(ps, Over(w, a)) = IF a \in h + 1 .. d THEN {1} ELSE {}
      BY <2>3, <2>6, <3>1 DEF Among, Over
    <3>5. \A a \in g .. h : a \notin h + 1 .. d
      BY <1>1
    <3>6. \A a \in (c .. d) \ (g .. h) : a \in h + 1 .. d
      BY <1>1, <2>6
    <3>7. \A a \in (c .. d) \ (g .. h) : One(Among(ps, Over(w, a)))
      BY <3>4, <3>6 DEF One
    <3>8. h + 1 .. d \subseteq c .. d
      BY <1>1, <1>3
    <3> QED
      BY <1>1, <2>3, <2>6, <3>1, <3>4, <3>5, <3>7, <3>8 DEF ps
  <2>7. CASE ~(c < g) /\ ~(h < d)
    <3>1. ps = <<>> /\ Len(<<>>) = 0
      BY <2>1, <2>7
    <3>4. \A P : Among(ps, P) = {}
      BY <3>1 DEF Among
    <3>6. (c .. d) \ (g .. h) = {}
      BY <1>1, <2>7
    <3> QED
      BY <1>1, <3>1, <3>4, <3>6 DEF ps
  <2> QED
    BY <2>4, <2>5, <2>6, <2>7
<1> QED
  BY <1>2, <1>3

\* The maps speak of their own copies of these.
LEMMA SameHelpers ==
    /\ \A s : Maps!FlattenSeq(s) = FlattenSeq(s) /\ Wide!FlattenSeq(s) = FlattenSeq(s)
    /\ \A s : Maps!Reverse(s) = Reverse(s) /\ Wide!Reverse(s) = Reverse(s)
<1>1. \A s : Maps!FlattenSeq(s) = FlattenSeq(s)
  BY DEF Maps!FlattenSeq, FlattenSeq
<1>2. \A s : Wide!FlattenSeq(s) = FlattenSeq(s)
  BY DEF Wide!FlattenSeq, FlattenSeq
<1>3. \A s : Maps!Reverse(s) = Reverse(s) /\ Wide!Reverse(s) = Reverse(s)
  BY DEF Maps!Reverse, Wide!Reverse, Reverse
<1> QED
  BY <1>1, <1>2, <1>3

\* Something is made of every element of a sequence, the last one first, and joined.
LEMMA MadeBackwards ==
    ASSUME NEW A, NEW s \in Seq(A), NEW B, NEW f \in [A -> Seq(B)]
    PROVE  LET made == FlattenSeq([i \in 1 .. Len(s) |-> f[Reverse(s)[i]]]) IN
           /\ made \in Seq(B)
           /\ \A P : Among(made, P) = {} <=> \A i \in 1 .. Len(s) : Among(f[s[i]], P) = {}
           /\ \A P : \A i \in 1 .. Len(s) :
                /\ One(Among(f[s[i]], P))
                /\ \A j \in 1 .. Len(s) : j # i => Among(f[s[j]], P) = {}
                => One(Among(made, P))
<1> DEFINE n == Len(s)
           turn(i) == n - i + 1
           seqs == [i \in 1 .. n |-> f[Reverse(s)[i]]]
           made == FlattenSeq(seqs)
<1>1. n \in Nat /\ \A i \in 1 .. n : s[i] \in A
  OBVIOUS
<1>2. \A i \in 1 .. n : turn(i) \in 1 .. n /\ Reverse(s)[i] = s[turn(i)]
                        /\ Reverse(s)[turn(i)] = s[i]
  BY Backwards
<1>3. \A i, j \in 1 .. n : turn(turn(i)) = i /\ (turn(i) = turn(j) => i = j)
  BY <1>1
<1> HIDE DEF turn, n
<1>4. \A i \in 1 .. n : seqs[i] = f[s[turn(i)]] /\ seqs[turn(i)] = f[s[i]]
  BY <1>2
<1>5. \A i \in 1 .. n : seqs[i] \in Seq(B)
  BY <1>1, <1>2, <1>4
<1>6. seqs \in [1 .. n -> Seq(B)]
  <2>1. \A i \in 1 .. n : f[Reverse(s)[i]] \in Seq(B)
    BY <1>5
  <2> QED
    BY <2>1
<1>7. seqs \in Seq(Seq(B)) /\ Len(seqs) = n
  BY <1>1, <1>6
<1> HIDE DEF seqs
<1>8. made \in Seq(B)
  BY <1>7, Flattened
<1>9. ASSUME NEW P
      PROVE  Among(made, P) = {} <=> \A i \in 1 .. n : Among(f[s[i]], P) = {}
  <2>1. Among(made, P) = {} <=> \A i \in 1 .. n : Among(seqs[i], P) = {}
    BY <1>7, FlattenedAmong
  <2> HIDE DEF made
  <2> QED
    BY <1>2, <1>4, <2>1
<1>10. ASSUME NEW P, NEW i \in 1 .. n, One(Among(f[s[i]], P)),
              \A j \in 1 .. n : j # i => Among(f[s[j]], P) = {}
       PROVE  One(Among(made, P))
  <2>1. turn(i) \in 1 .. n /\ One(Among(seqs[turn(i)], P))
    BY <1>2, <1>4, <1>10
  <2>2. ASSUME NEW k \in 1 .. n, k # turn(i) PROVE Among(seqs[k], P) = {}
    <3>1. turn(k) \in 1 .. n /\ turn(k) # i /\ seqs[k] = f[s[turn(k)]]
      BY <1>2, <1>3, <1>4, <2>2
    <3> QED
      BY <1>10, <3>1
  <2> QED
    BY <1>7, <2>1, <2>2, FlattenedAmong
<1> QED
  BY <1>8, <1>9, <1>10 DEF n, seqs

\* chk_except_match: no range is left over an address of the exception, and as
\* many as there were over any other.
LEMMA ExceptFacts ==
    ASSUME NEW w \in Nat, NEW s \in Seq(EntryIn(w)), NEW e \in EntryIn(w)
    PROVE  LET cut == Maps!ChkExceptMatch(s, e) IN
           /\ cut \in Seq(EntryIn(w))
           /\ \A a \in e.lo .. e.hi : Among(cut, Over(w, a)) = {}
           /\ \A a : a \notin e.lo .. e.hi =>
                /\ Among(s, Over(w, a)) # {} => Among(cut, Over(w, a)) # {}
                /\ One(Among(s, Over(w, a))) => One(Among(cut, Over(w, a)))
           /\ \A P : /\ \A t \in EntryIn(w) \ P : Among(Maps!Pieces(t, e), P) = {}
                     /\ Among(s, P) = {}
                     => Among(cut, P) = {}
<1> DEFINE A == EntryIn(w)
           f == [t \in A |-> Maps!Pieces(t, e)]
           made == FlattenSeq([i \in 1 .. Len(s) |-> f[Reverse(s)[i]]])
           cut == Maps!ChkExceptMatch(s, e)
<1>1. Len(s) \in Nat /\ (\A i \in 1 .. Len(s) : s[i] \in A)
      /\ \A i \in 1 .. Len(s) : Reverse(s)[i] \in A
  BY Backwards
<1>2. cut = made
  <2>1. [i \in 1 .. Len(s) |-> Maps!Pieces(Reverse(s)[i], e)]
        = [i \in 1 .. Len(s) |-> f[Reverse(s)[i]]]
    BY <1>1
  <2> QED
    BY <2>1, SameHelpers DEF Maps!ChkExceptMatch
<1>3. f \in [A -> Seq(A)] /\ \A i \in 1 .. Len(s) : f[s[i]] = Maps!Pieces(s[i], e)
  BY <1>1, PiecesFacts
<1> HIDE DEF f, cut
<1>4. /\ made \in Seq(A)
      /\ \A P : Among(made, P) = {} <=> \A i \in 1 .. Len(s) : Among(f[s[i]], P) = {}
      /\ \A P : \A i \in 1 .. Len(s) :
                /\ One(Among(f[s[i]], P))
                /\ \A j \in 1 .. Len(s) : j # i => Among(f[s[j]], P) = {}
                => One(Among(made, P))
  BY <1>3, MadeBackwards
<1> HIDE DEF made
<1>5. \A a \in e.lo .. e.hi : Among(cut, Over(w, a)) = {}
  BY <1>1, <1>2, <1>3, <1>4, PiecesFacts
<1>6. ASSUME NEW P, \A t \in A \ P : Among(Maps!Pieces(t, e), P) = {}, Among(s, P) = {}
      PROVE  Among(cut, P) = {}
  <2>1. \A i \in 1 .. Len(s) : s[i] \in A \ P
    BY <1>1, <1>6 DEF Among
  <2> QED
    BY <1>2, <1>3, <1>4, <1>6, <2>1
<1>7. ASSUME NEW a, a \notin e.lo .. e.hi, NEW i \in Among(s, Over(w, a))
      PROVE  i \in 1 .. Len(s) /\ One(Among(f[s[i]], Over(w, a)))
  <2>1. i \in 1 .. Len(s) /\ a \in s[i].lo .. s[i].hi
    BY DEF Among, Over
  <2>2. s[i] \in A /\ a \in (s[i].lo .. s[i].hi) \ (e.lo .. e.hi)
    BY <1>1, <1>7, <2>1
  <2>3. One(Among(Maps!Pieces(s[i], e), Over(w, a)))
    BY <2>2, PiecesFacts
  <2> QED
    BY <1>3, <2>1, <2>3
<1>8. ASSUME NEW a, a \notin e.lo .. e.hi, Among(s, Over(w, a)) # {}
      PROVE  Among(cut, Over(w, a)) # {}
  <2>1. PICK i \in Among(s, Over(w, a)) : TRUE
    BY <1>8
  <2>2. i \in 1 .. Len(s) /\ Among(f[s[i]], Over(w, a)) # {}
    BY <1>7, <1>8 DEF One
  <2> QED
    BY <1>2, <1>4, <2>2
<1>9. ASSUME NEW a, a \notin e.lo .. e.hi, One(Among(s, Over(w, a)))
      PROVE  One(Among(cut, Over(w, a)))
  <2>1. PICK i \in Among(s, Over(w, a)) : Among(s, Over(w, a)) = {i}
    BY <1>9 DEF One
  <2>2. i \in 1 .. Len(s) /\ One(Among(f[s[i]], Over(w, a)))
    BY <1>7, <1>9
  <2>3. ASSUME NEW j \in 1 .. Len(s), j # i PROVE Among(f[s[j]], Over(w, a)) = {}
    <3>1. s[j] \notin Over(w, a)
      BY <2>1, <2>3 DEF Among
    <3>2. a \notin s[j].lo .. s[j].hi
      BY <1>1, <3>1 DEF Over
    <3>3. /\ Maps!Pieces(s[j], e) \in Seq(A)
          /\ \A k \in 1 .. Len(Maps!Pieces(s[j], e)) :
                Maps!Pieces(s[j], e)[k].lo .. Maps!Pieces(s[j], e)[k].hi \subseteq s[j].lo .. s[j].hi
      BY <1>1, PiecesFacts
    <3> QED
      BY <1>3, <3>2, <3>3 DEF Among, Over
  <2> QED
    BY <1>2, <1>4, <2>2, <2>3
<1> QED
  BY <1>2, <1>4, <1>5, <1>6, <1>8, <1>9 DEF cut

\* Lines of the database, for any number of bits; those for an address in a map
AnyLineIn(w, M) == [key : [map : M, net : 0 .. 2 ^ w - 1, mask : 32 - w .. 32], to : Place]
LineIn(w, M) ==
    {l \in AnyLineIn(w, M) :
        l.key.net = Maps!Net(l.key.net, l.key.mask)}
LineFor(w, M, m, a) ==
    {l \in LineIn(w, M) : l.key.map = m /\ l.key.net = Maps!Net(a, l.key.mask)}

\* The lines written for a range
LinesIn(w, t) ==
    [i \in 1 .. Len(CutIn(w)[<<t.lo, t.hi>>]) |-> Maps!Line(CutIn(w)[<<t.lo, t.hi>>][i], t.to)]

LEMMA LinesOfMaps == \A t : Maps!LinesOf(t) = LinesIn(W, t)
  BY MapsCut DEF Maps!LinesOf, LinesIn

LEMMA LinesOfWide == \A t : Wide!LinesOf(t) = LinesIn(4, t)
  BY WideCut DEF Wide!LinesOf, LinesIn, Wide!Line, Maps!Line

\* A range is written as lines for its addresses.
LEMMA LinesFacts ==
    ASSUME NEW w \in Nat, NEW M, current \in M, NEW t \in EntryIn(w)
    PROVE  /\ LinesIn(w, t) \in Seq(LineIn(w, M))
           /\ \A i \in 1 .. Len(LinesIn(w, t)) :
                LinesIn(w, t)[i].to = t.to /\ LinesIn(w, t)[i].key.map = current
           /\ \A a \in 0 .. 2 ^ w - 1 :
                a \in t.lo .. t.hi <=> Among(LinesIn(w, t), LineFor(w, M, current, a)) # {}
<1> DEFINE r == <<t.lo, t.hi>>
           cs == CutIn(w)[r]
           ls == LinesIn(w, t)
<1>1. r \in RangesIn(w) /\ r[1] = t.lo /\ r[2] = t.hi /\ t.to \in Place
  BY EntryFacts DEF RangesIn
<1>2. /\ cs \in Seq(ChunkIn(w))
      /\ \A i \in 1 .. Len(cs) : OnChunk(cs[i], cs[i].net)
      /\ \A a \in 0 .. 2 ^ w - 1 :
            a \in t.lo .. t.hi <=> \E i \in 1 .. Len(cs) : OnChunk(cs[i], a)
  BY <1>1, CutCovers DEF CutRight
<1>3. ls = [i \in 1 .. Len(cs) |-> Maps!Line(cs[i], t.to)]
  BY DEF LinesIn
<1> HIDE DEF r, cs, ls
<1>4. Len(cs) \in Nat /\ \A i \in 1 .. Len(cs) : cs[i] \in ChunkIn(w)
  BY <1>2
<1>5. ASSUME NEW c \in ChunkIn(w), NEW a
      PROVE  /\ Maps!Line(c, t.to).key = [map |-> current, net |-> c.net, mask |-> c.mask]
             /\ Maps!Line(c, t.to).key.map = current /\ Maps!Line(c, t.to).to = t.to
             /\ OnChunk(c, a) <=> Maps!Line(c, t.to).key.net = Maps!Net(a, Maps!Line(c, t.to).key.mask)
             /\ OnChunk(c, c.net) => Maps!Line(c, t.to) \in LineIn(w, M)
  <2>1. c.net \in 0 .. 2 ^ w - 1 /\ c.mask \in 32 - w .. 32
    BY DEF ChunkIn
  <2>2. OnChunk(c, a) <=> c.net = Maps!Net(a, c.mask)
    BY DEF OnChunk, Maps!Net, Maps!Size
  <2>3. OnChunk(c, c.net) <=> c.net = Maps!Net(c.net, c.mask)
    BY DEF OnChunk, Maps!Net, Maps!Size
  <2> DEFINE k == [map |-> current, net |-> c.net, mask |-> c.mask]
             l == [key |-> k, to |-> t.to]
  <2>4. Maps!Line(c, t.to) = l
    BY DEF Maps!Line
  <2>5. k \in [map : M, net : 0 .. 2 ^ w - 1, mask : 32 - w .. 32] /\ k.map = current
        /\ k.net = c.net /\ k.mask = c.mask
    BY <2>1
  <2> HIDE DEF k
  <2>6. l.key = k /\ l.to = t.to
    OBVIOUS
  <2>7. l \in [key : [map : M, net : 0 .. 2 ^ w - 1, mask : 32 - w .. 32], to : Place]
    BY <1>1, <2>5
  <2> HIDE DEF l
  <2>8. OnChunk(c, c.net) => l \in LineIn(w, M)
    BY <2>3, <2>5, <2>6, <2>7 DEF LineIn, AnyLineIn
  <2> QED
    BY <2>2, <2>4, <2>5, <2>6, <2>8 DEF k
<1>6. \A i \in 1 .. Len(cs) : Maps!Line(cs[i], t.to) \in LineIn(w, M)
  BY <1>2, <1>4, <1>5
<1>7. ls \in Seq(LineIn(w, M)) /\ Len(ls) = Len(cs) /\ \A i \in 1 .. Len(cs) : ls[i] = Maps!Line(cs[i], t.to)
  BY <1>3, <1>4, <1>6
<1>8. \A i \in 1 .. Len(cs) : ls[i].to = t.to /\ ls[i].key.map = current
  <2> TAKE i \in 1 .. Len(cs)
  <2>1. cs[i] \in ChunkIn(w) /\ ls[i] = Maps!Line(cs[i], t.to)
    BY <1>4, <1>7
  <2>2. Maps!Line(cs[i], t.to).to = t.to /\ Maps!Line(cs[i], t.to).key.map = current
    BY <1>5, <2>1
  <2> QED
    BY <2>1, <2>2
<1>9. ASSUME NEW a \in 0 .. 2 ^ w - 1
      PROVE  a \in t.lo .. t.hi <=> Among(ls, LineFor(w, M, current, a)) # {}
  <2>1. \A i \in 1 .. Len(cs) : OnChunk(cs[i], a) <=> ls[i] \in LineFor(w, M, current, a)
    <3> TAKE i \in 1 .. Len(cs)
    <3>1. cs[i] \in ChunkIn(w) /\ ls[i] = Maps!Line(cs[i], t.to) /\ ls[i] \in LineIn(w, M)
      BY <1>4, <1>6, <1>7
    <3>2. /\ Maps!Line(cs[i], t.to).key.map = current
          /\ OnChunk(cs[i], a) <=>
                Maps!Line(cs[i], t.to).key.net = Maps!Net(a, Maps!Line(cs[i], t.to).key.mask)
      BY <1>5, <3>1
    <3> QED
      BY <3>1, <3>2 DEF LineFor
  <2> QED
    BY <1>2, <1>7, <2>1 DEF Among
<1> QED
  BY <1>7, <1>8, <1>9 DEF ls

\* A map is written as lines for the addresses of its ranges.
LEMMA LinesWritten ==
    ASSUME NEW w \in Nat, NEW M, current \in M, NEW s \in Seq(EntryIn(w))
    PROVE  LET new == FlattenSeq([i \in 1 .. Len(s) |-> LinesIn(w, Reverse(s)[i])]) IN
           /\ new \in Seq(LineIn(w, M))
           /\ \A i \in 1 .. Len(new) : new[i].key.map = current
           /\ \A a \in 0 .. 2 ^ w - 1 :
                /\ Among(new, LineFor(w, M, current, a)) = {} <=> Among(s, Over(w, a)) = {}
                /\ \A T : (\A i \in Among(s, Over(w, a)) : s[i].to \in T)
                          => \A i \in Among(new, LineFor(w, M, current, a)) : new[i].to \in T
<1> DEFINE A == EntryIn(w)
           B == LineIn(w, M)
           f == [t \in A |-> LinesIn(w, t)]
           made == FlattenSeq([i \in 1 .. Len(s) |-> f[Reverse(s)[i]]])
           new == FlattenSeq([i \in 1 .. Len(s) |-> LinesIn(w, Reverse(s)[i])])
<1>1. Len(s) \in Nat /\ (\A i \in 1 .. Len(s) : s[i] \in A)
      /\ \A i \in 1 .. Len(s) : Reverse(s)[i] \in A
  BY Backwards
<1>2. new = made
  <2>1. [i \in 1 .. Len(s) |-> LinesIn(w, Reverse(s)[i])] = [i \in 1 .. Len(s) |-> f[Reverse(s)[i]]]
    BY <1>1
  <2> QED
    BY <2>1
<1>3. f \in [A -> Seq(B)] /\ \A i \in 1 .. Len(s) : f[s[i]] = LinesIn(w, s[i])
  BY <1>1, LinesFacts
<1> HIDE DEF f, new
<1>4. /\ made \in Seq(B)
      /\ \A P : Among(made, P) = {} <=> \A i \in 1 .. Len(s) : Among(f[s[i]], P) = {}
      /\ \A P : \A i \in 1 .. Len(s) :
                /\ One(Among(f[s[i]], P))
                /\ \A j \in 1 .. Len(s) : j # i => Among(f[s[j]], P) = {}
                => One(Among(made, P))
  BY <1>3, MadeBackwards
<1> HIDE DEF made
<1>5. ASSUME NEW i \in 1 .. Len(s)
      PROVE  /\ f[s[i]] \in Seq(B)
             /\ \A k \in 1 .. Len(f[s[i]]) : f[s[i]][k].to = s[i].to /\ f[s[i]][k].key.map = current
             /\ \A a \in 0 .. 2 ^ w - 1 :
                  s[i] \in Over(w, a) <=> Among(f[s[i]], LineFor(w, M, current, a)) # {}
  <2>1. s[i] \in A /\ f[s[i]] = LinesIn(w, s[i])
    BY <1>1, <1>3
  <2>2. /\ LinesIn(w, s[i]) \in Seq(B)
        /\ \A k \in 1 .. Len(LinesIn(w, s[i])) :
              LinesIn(w, s[i])[k].to = s[i].to /\ LinesIn(w, s[i])[k].key.map = current
        /\ \A a \in 0 .. 2 ^ w - 1 :
              a \in s[i].lo .. s[i].hi <=> Among(LinesIn(w, s[i]), LineFor(w, M, current, a)) # {}
    BY <2>1, LinesFacts
  <2>3. \A a : s[i] \in Over(w, a) <=> a \in s[i].lo .. s[i].hi
    BY <2>1 DEF Over
  <2> QED
    BY <2>1, <2>2, <2>3
<1>6. \A i \in 1 .. Len(new) : new[i].key.map = current
  <2> DEFINE P == {l \in B : l.key.map # current}
  <2>1. \A i \in 1 .. Len(s) : Among(f[s[i]], P) = {}
    BY <1>5 DEF Among
  <2>2. Among(new, P) = {}
    BY <1>2, <1>4, <2>1
  <2>3. \A i \in 1 .. Len(new) : new[i] \in B
    BY <1>2, <1>4
  <2> QED
    BY <2>2, <2>3 DEF Among
<1>7. ASSUME NEW a \in 0 .. 2 ^ w - 1
      PROVE  Among(new, LineFor(w, M, current, a)) = {} <=> Among(s, Over(w, a)) = {}
  <2>1. Among(new, LineFor(w, M, current, a)) = {} <=>
            \A i \in 1 .. Len(s) : Among(f[s[i]], LineFor(w, M, current, a)) = {}
    BY <1>2, <1>4
  <2>2. \A i \in 1 .. Len(s) :
            Among(f[s[i]], LineFor(w, M, current, a)) = {} <=> s[i] \notin Over(w, a)
    BY <1>5
  <2> QED
    BY <2>1, <2>2 DEF Among
<1>8. ASSUME NEW a \in 0 .. 2 ^ w - 1, NEW T, \A i \in Among(s, Over(w, a)) : s[i].to \in T,
             NEW j \in Among(new, LineFor(w, M, current, a))
      PROVE  new[j].to \in T
  <2> DEFINE P == {l \in LineFor(w, M, current, a) : l.to \notin T}
  <2>1. ASSUME NEW i \in 1 .. Len(s) PROVE Among(f[s[i]], P) = {}
    <3>1. CASE s[i] \in Over(w, a)
      <4>1. s[i].to \in T
        BY <1>8, <3>1 DEF Among
      <4> QED
        BY <1>5, <4>1 DEF Among
    <3>2. CASE s[i] \notin Over(w, a)
      <4>1. Among(f[s[i]], LineFor(w, M, current, a)) = {}
        BY <1>5, <3>2
      <4> QED
        BY <4>1 DEF Among
    <3> QED
      BY <3>1, <3>2
  <2>2. Among(new, P) = {}
    BY <1>2, <1>4, <2>1
  <2> QED
    BY <2>2 DEF Among
<1> QED
  BY <1>2, <1>4, <1>6, <1>7, <1>8 DEF new

-----------------------------------------------------------------------------
(* The types, for any number of bits                                        *)

LEMMA SomeOf ==
    ASSUME NEW A, NEW B, A \subseteq B, NEW s
    PROVE  s \in Seq(A) <=> s \in Seq(B) /\ \A i \in 1 .. Len(s) : s[i] \in A
<1>1. ASSUME s \in Seq(A) PROVE s \in Seq(B) /\ \A i \in 1 .. Len(s) : s[i] \in A
  BY <1>1, SeqMonotonic
<1>2. ASSUME s \in Seq(B), \A i \in 1 .. Len(s) : s[i] \in A PROVE s \in Seq(A)
  BY <1>2
<1> QED
  BY <1>1, <1>2

\* The types of IpDb, with the conditions on elements moved into the sets
LEMMA EntriesTyped ==
    ASSUME NEW w \in Nat, NEW s
    PROVE  s \in Seq(EntryIn(w)) <=>
             /\ s \in Seq([lo : 0 .. 2 ^ w - 1, hi : 0 .. 2 ^ w - 1, to : Place,
                           of : Country \cup {Block}])
             /\ \A i \in 1 .. Len(s) : s[i].lo <= s[i].hi
<1> DEFINE B == [lo : 0 .. 2 ^ w - 1, hi : 0 .. 2 ^ w - 1, to : Place, of : Country \cup {Block}]
<1>1. EntryIn(w) \subseteq B /\ \A t \in B : t \in EntryIn(w) <=> t.lo <= t.hi
  BY DEF EntryIn
<1> HIDE DEF B
<1>2. s \in Seq(EntryIn(w)) <=> s \in Seq(B) /\ \A i \in 1 .. Len(s) : s[i] \in EntryIn(w)
  BY <1>1, SomeOf
<1>3. s \in Seq(B) => \A i \in 1 .. Len(s) : s[i] \in B
  OBVIOUS
<1> QED
  BY <1>1, <1>2, <1>3 DEF B

LEMMA LinesTyped ==
    ASSUME NEW w \in Nat, NEW M, NEW s
    PROVE  s \in Seq(LineIn(w, M)) <=>
             /\ s \in Seq(AnyLineIn(w, M))
             /\ \A i \in 1 .. Len(s) : s[i].key.net = Maps!Net(s[i].key.net, s[i].key.mask)
<1> DEFINE B == AnyLineIn(w, M)
<1>1. /\ LineIn(w, M) \subseteq B
      /\ \A l \in B : l \in LineIn(w, M) <=> l.key.net = Maps!Net(l.key.net, l.key.mask)
  BY DEF LineIn
<1> HIDE DEF B
<1>2. s \in Seq(LineIn(w, M)) <=> s \in Seq(B) /\ \A i \in 1 .. Len(s) : s[i] \in LineIn(w, M)
  BY <1>1, SomeOf
<1>3. s \in Seq(B) => \A i \in 1 .. Len(s) : s[i] \in B
  OBVIOUS
<1> QED
  BY <1>1, <1>2, <1>3 DEF B

\* TypeOK in these terms, for each instance, before and after a step
LEMMA MapsTypes ==
    Maps!TypeOK <=>
        /\ current \in MapName \cup {"none"}
        /\ part \in {"mapits", "exception", "exceptions", "died"}
        /\ compiled \subseteq MapName
        /\ rs \in Seq(EntryIn(W))
        /\ lines \in Seq(LineIn(W, MapName))
        /\ stage \in {"compile", "serve"}
<1>1. rs \in Seq(EntryIn(W)) <=>
        /\ rs \in Seq([lo : 0 .. 2 ^ W - 1, hi : 0 .. 2 ^ W - 1, to : Place,
                      of : Country \cup {Block}])
        /\ \A i \in 1 .. Len(rs) : rs[i].lo <= rs[i].hi
  BY Bits, EntriesTyped
<1>2. lines \in Seq(LineIn(W, MapName)) <=>
        /\ lines \in Seq(AnyLineIn(W, MapName))
        /\ \A i \in 1 .. Len(lines) : lines[i].key.net = Maps!Net(lines[i].key.net, lines[i].key.mask)
  BY Bits, LinesTyped
<1> QED
  BY <1>1, <1>2 DEF Maps!TypeOK, Maps!DbKey, Maps!Address, Maps!Mask, AnyLineIn

LEMMA WideTypes ==
    Wide!TypeOK <=>
        /\ current \in {m1} \cup {"none"}
        /\ part \in {"mapits", "exception", "exceptions", "died"}
        /\ compiled \subseteq {m1}
        /\ rs \in Seq(EntryIn(4))
        /\ lines \in Seq(LineIn(4, {m1}))
        /\ stage \in {"compile", "serve"}
<1>1. \A a, m : Wide!Net(a, m) = Maps!Net(a, m)
  BY DEF Wide!Net, Wide!Size, Maps!Net, Maps!Size
<1>2. rs \in Seq(EntryIn(4)) <=>
        /\ rs \in Seq([lo : 0 .. 2 ^ 4 - 1, hi : 0 .. 2 ^ 4 - 1, to : Place,
                      of : Country \cup {Block}])
        /\ \A i \in 1 .. Len(rs) : rs[i].lo <= rs[i].hi
  BY Bits, EntriesTyped
<1>3. lines \in Seq(LineIn(4, {m1})) <=>
        /\ lines \in Seq(AnyLineIn(4, {m1}))
        /\ \A i \in 1 .. Len(lines) : lines[i].key.net = Maps!Net(lines[i].key.net, lines[i].key.mask)
  BY Bits, LinesTyped
<1> QED
  BY <1>1, <1>2, <1>3 DEF Wide!TypeOK, Wide!DbKey, Wide!Address, Wide!Mask, AnyLineIn

LEMMA MapsTypesNext ==
    Maps!TypeOK' <=>
        /\ current' \in MapName \cup {"none"}
        /\ part' \in {"mapits", "exception", "exceptions", "died"}
        /\ compiled' \subseteq MapName
        /\ rs' \in Seq(EntryIn(W))
        /\ lines' \in Seq(LineIn(W, MapName))
        /\ stage' \in {"compile", "serve"}
<1>1. rs' \in Seq(EntryIn(W)) <=>
        /\ rs' \in Seq([lo : 0 .. 2 ^ W - 1, hi : 0 .. 2 ^ W - 1, to : Place,
                      of : Country \cup {Block}])
        /\ \A i \in 1 .. Len(rs') : rs'[i].lo <= rs'[i].hi
  BY Bits, EntriesTyped
<1>2. lines' \in Seq(LineIn(W, MapName)) <=>
        /\ lines' \in Seq(AnyLineIn(W, MapName))
        /\ \A i \in 1 .. Len(lines') : lines'[i].key.net = Maps!Net(lines'[i].key.net, lines'[i].key.mask)
  BY Bits, LinesTyped
<1> QED
  BY <1>1, <1>2 DEF Maps!TypeOK, Maps!DbKey, Maps!Address, Maps!Mask, AnyLineIn

LEMMA WideTypesNext ==
    Wide!TypeOK' <=>
        /\ current' \in {m1} \cup {"none"}
        /\ part' \in {"mapits", "exception", "exceptions", "died"}
        /\ compiled' \subseteq {m1}
        /\ rs' \in Seq(EntryIn(4))
        /\ lines' \in Seq(LineIn(4, {m1}))
        /\ stage' \in {"compile", "serve"}
<1>1. \A a, m : Wide!Net(a, m) = Maps!Net(a, m)
  BY DEF Wide!Net, Wide!Size, Maps!Net, Maps!Size
<1>2. rs' \in Seq(EntryIn(4)) <=>
        /\ rs' \in Seq([lo : 0 .. 2 ^ 4 - 1, hi : 0 .. 2 ^ 4 - 1, to : Place,
                      of : Country \cup {Block}])
        /\ \A i \in 1 .. Len(rs') : rs'[i].lo <= rs'[i].hi
  BY Bits, EntriesTyped
<1>3. lines' \in Seq(LineIn(4, {m1})) <=>
        /\ lines' \in Seq(AnyLineIn(4, {m1}))
        /\ \A i \in 1 .. Len(lines') : lines'[i].key.net = Maps!Net(lines'[i].key.net, lines'[i].key.mask)
  BY Bits, LinesTyped
<1> QED
  BY <1>1, <1>2, <1>3 DEF Wide!TypeOK, Wide!DbKey, Wide!Address, Wide!Mask, AnyLineIn

\* A country: its earlier entries move, its ranges are added.
Moved(s, c, p) == [i \in 1 .. Len(s) |-> IF s[i].of = c THEN [s[i] EXCEPT !.to = p] ELSE s[i]]
Named(g, c, p) == [i \in 1 .. Len(g) |-> Maps!Entry(g[i][1], g[i][2], p, c)]

\* Entries moved keep their ranges.
LEMMA MovedFacts ==
    ASSUME NEW w \in Nat, NEW s \in Seq(EntryIn(w)), NEW c \in Country, NEW p \in Place
    PROVE  /\ Moved(s, c, p) \in Seq(EntryIn(w)) /\ Len(Moved(s, c, p)) = Len(s)
           /\ \A i \in 1 .. Len(s) :
                /\ Moved(s, c, p)[i].lo = s[i].lo /\ Moved(s, c, p)[i].hi = s[i].hi
                /\ Moved(s, c, p)[i].of = s[i].of
                /\ Moved(s, c, p)[i].to = IF s[i].of = c THEN p ELSE s[i].to
<1>1. Len(s) \in Nat /\ \A i \in 1 .. Len(s) : s[i] \in EntryIn(w)
  OBVIOUS
<1>2. ASSUME NEW t \in EntryIn(w)
      PROVE  /\ [t EXCEPT !.to = p] \in EntryIn(w) /\ [t EXCEPT !.to = p].lo = t.lo
             /\ [t EXCEPT !.to = p].hi = t.hi /\ [t EXCEPT !.to = p].of = t.of
             /\ [t EXCEPT !.to = p].to = p
  BY DEF EntryIn
<1>3. \A i \in 1 .. Len(s) : (IF s[i].of = c THEN [s[i] EXCEPT !.to = p] ELSE s[i]) \in EntryIn(w)
  BY <1>1, <1>2
<1>4. Moved(s, c, p) \in Seq(EntryIn(w)) /\ Len(Moved(s, c, p)) = Len(s)
  BY <1>1, <1>3 DEF Moved
<1>5. \A i \in 1 .. Len(s) :
        Moved(s, c, p)[i] = IF s[i].of = c THEN [s[i] EXCEPT !.to = p] ELSE s[i]
  BY DEF Moved
<1>6. \A i \in 1 .. Len(s) :
        /\ Moved(s, c, p)[i].lo = s[i].lo /\ Moved(s, c, p)[i].hi = s[i].hi
        /\ Moved(s, c, p)[i].of = s[i].of
        /\ Moved(s, c, p)[i].to = IF s[i].of = c THEN p ELSE s[i].to
  <2> TAKE i \in 1 .. Len(s)
  <2>1. s[i] \in EntryIn(w) /\ Moved(s, c, p)[i] = IF s[i].of = c THEN [s[i] EXCEPT !.to = p] ELSE s[i]
    BY <1>1, <1>5
  <2>2. CASE s[i].of = c
    BY <1>2, <2>1, <2>2
  <2>3. CASE s[i].of # c
    BY <2>1, <2>3
  <2> QED
    BY <2>2, <2>3
<1> QED
  BY <1>4, <1>6

\* Entries of a country have its ranges.
LEMMA NamedFacts ==
    ASSUME NEW w \in Nat, NEW c \in Country, NEW p \in Place,
           NEW g \in Seq(RangesIn(w))
    PROVE  /\ Named(g, c, p) \in Seq(EntryIn(w)) /\ Len(Named(g, c, p)) = Len(g)
           /\ \A i \in 1 .. Len(g) :
                /\ Named(g, c, p)[i].lo = g[i][1] /\ Named(g, c, p)[i].hi = g[i][2]
                /\ Named(g, c, p)[i].of = c /\ Named(g, c, p)[i].to = p
<1>1. Len(g) \in Nat /\ \A i \in 1 .. Len(g) :
        g[i][1] \in 0 .. 2 ^ w - 1 /\ g[i][2] \in 0 .. 2 ^ w - 1 /\ g[i][1] <= g[i][2]
  <2>1. Len(g) \in Nat /\ \A i \in 1 .. Len(g) : g[i] \in RangesIn(w)
    OBVIOUS
  <2> QED
    BY <2>1 DEF RangesIn
<1>2. ASSUME NEW i \in 1 .. Len(g)
      PROVE  LET t == Maps!Entry(g[i][1], g[i][2], p, c)
             IN  t \in EntryIn(w) /\ t.lo = g[i][1] /\ t.hi = g[i][2] /\ t.of = c /\ t.to = p
  <2>1. PICK lo, hi : lo = g[i][1] /\ hi = g[i][2]
    OBVIOUS
  <2>2. lo \in 0 .. 2 ^ w - 1 /\ hi \in 0 .. 2 ^ w - 1 /\ lo <= hi
    BY <1>1, <2>1
  <2>3. c \in Country \cup {Block}
    OBVIOUS
  <2>4. /\ Maps!Entry(lo, hi, p, c) \in EntryIn(w)
        /\ Maps!Entry(lo, hi, p, c).lo = lo /\ Maps!Entry(lo, hi, p, c).hi = hi
        /\ Maps!Entry(lo, hi, p, c).to = p /\ Maps!Entry(lo, hi, p, c).of = c
    BY <2>2, <2>3, MadeEntry
  <2> QED
    BY <2>1, <2>4
<1>3. Named(g, c, p) \in Seq(EntryIn(w)) /\ Len(Named(g, c, p)) = Len(g)
  BY <1>1, <1>2 DEF Named
<1>4. \A i \in 1 .. Len(g) : Named(g, c, p)[i] = Maps!Entry(g[i][1], g[i][2], p, c)
  BY DEF Named
<1> QED
  BY <1>2, <1>3, <1>4

-----------------------------------------------------------------------------
(* What is wanted                                                           *)

LEMMA WantedAfter ==
    ASSUME asked \in Seq(Maps!Promise!Request), NEW q \in Maps!Promise!Request,
           asked' = Append(asked, q), NEW m, NEW a
    PROVE  /\ q.map # m \/ a \notin q.range =>
                /\ Maps!Promise!Wanted(m, a)' = Maps!Promise!Wanted(m, a)
                /\ Maps!Promise!Covers("except", m, a)' = Maps!Promise!Covers("except", m, a)
           /\ q.kind = "except" /\ q.map = m /\ a \in q.range =>
                Maps!Promise!Wanted(m, a)' = {q.to}
           /\ q.kind = "mapit" =>
                Maps!Promise!Covers("except", m, a)' = Maps!Promise!Covers("except", m, a)
           /\ /\ q.kind = "mapit" /\ q.map = m /\ a \in q.range
              /\ Maps!Promise!Covers("except", m, a) = {}
              => /\ q.to \in Maps!Promise!Wanted(m, a)'
                 /\ Maps!Promise!Wanted(m, a) \ {NoMatch} \subseteq Maps!Promise!Wanted(m, a)'
<1> DEFINE n == Len(asked)
           C(k) == Maps!Promise!Covers(k, m, a)
           D(k) == Maps!Promise!Covers(k, m, a)'
<1>1. /\ n \in Nat /\ Len(asked') = n + 1 /\ asked'[n + 1] = q
      /\ \A i \in 1 .. n : asked'[i] = asked[i]
  OBVIOUS
<1>2. 1 .. n + 1 = (1 .. n) \cup {n + 1} /\ n + 1 \notin 1 .. n /\ \A i \in 1 .. n : i < n + 1
  BY <1>1
<1>3. \A k : C(k) = {i \in 1 .. n : asked[i].kind = k /\ asked[i].map = m /\ a \in asked[i].range}
  BY DEF Maps!Promise!Covers
<1>4. \A k : D(k) = {i \in 1 .. n + 1 : asked'[i].kind = k /\ asked'[i].map = m /\ a \in asked'[i].range}
  BY <1>1 DEF Maps!Promise!Covers
<1> HIDE DEF n
<1>5. \A k : D(k) = C(k) \cup {i \in {n + 1} : q.kind = k /\ q.map = m /\ a \in q.range}
  BY <1>1, <1>2, <1>3, <1>4
<1>6. \A k : C(k) \subseteq 1 .. n
  BY <1>3
<1> DEFINE last == {i \in C("except") : \A j \in C("except") : j <= i}
           last2 == {i \in D("except") : \A j \in D("except") : j <= i}
<1>7. Maps!Promise!Wanted(m, a) =
        IF last # {} THEN {asked[i].to : i \in last}
        ELSE IF C("mapit") # {} THEN {asked[i].to : i \in C("mapit")}
        ELSE {NoMatch}
  BY DEF Maps!Promise!Wanted
<1>8. Maps!Promise!Wanted(m, a)' =
        IF last2 # {} THEN {asked'[i].to : i \in last2}
        ELSE IF D("mapit") # {} THEN {asked'[i].to : i \in D("mapit")}
        ELSE {NoMatch}
  BY DEF Maps!Promise!Wanted
<1> HIDE DEF C, D
<1>9. ASSUME q.map # m \/ a \notin q.range
      PROVE  /\ Maps!Promise!Wanted(m, a)' = Maps!Promise!Wanted(m, a)
             /\ D("except") = C("except")
  <2>1. D("except") = C("except") /\ D("mapit") = C("mapit")
    BY <1>5, <1>9
  <2>2. last2 = last /\ last \subseteq 1 .. n
    BY <1>6, <2>1
  <2> HIDE DEF last, last2
  <2>3. /\ {asked'[i].to : i \in last} = {asked[i].to : i \in last}
        /\ {asked'[i].to : i \in C("mapit")} = {asked[i].to : i \in C("mapit")}
    BY <1>1, <1>6, <2>2
  <2> QED
    BY <1>7, <1>8, <2>1, <2>2, <2>3
<1>10. ASSUME q.kind = "except", q.map = m, a \in q.range
       PROVE  Maps!Promise!Wanted(m, a)' = {q.to}
  <2>1. D("except") = C("except") \cup {n + 1}
    BY <1>5, <1>10
  <2>2. last2 = {n + 1}
    BY <1>1, <1>2, <1>6, <2>1
  <2> HIDE DEF last2
  <2> QED
    BY <1>1, <1>8, <2>2
<1>11. q.kind = "mapit" => D("except") = C("except")
  BY <1>5
<1>12. ASSUME q.kind = "mapit", q.map = m, a \in q.range, C("except") = {}
       PROVE  /\ q.to \in Maps!Promise!Wanted(m, a)'
              /\ Maps!Promise!Wanted(m, a) \ {NoMatch} \subseteq Maps!Promise!Wanted(m, a)'
  <2>1. last = {} /\ last2 = {} /\ D("mapit") = C("mapit") \cup {n + 1}
    BY <1>5, <1>11, <1>12
  <2> HIDE DEF last, last2
  <2>2. Maps!Promise!Wanted(m, a)' = {asked'[i].to : i \in D("mapit")}
    BY <1>8, <2>1
  <2>3. q.to \in {asked'[i].to : i \in D("mapit")}
    BY <1>1, <2>1
  <2>4. {asked[i].to : i \in C("mapit")} \subseteq {asked'[i].to : i \in D("mapit")}
    BY <1>1, <1>6, <2>1
  <2> QED
    BY <1>7, <2>1, <2>2, <2>3, <2>4
<1> QED
  BY <1>9, <1>10, <1>11, <1>12 DEF C, D

-----------------------------------------------------------------------------
(* The steps of the compilation                                             *)

LEMMA UnderForm ==
    ASSUME NEW w \in Nat, NEW s \in Seq(EntryIn(w)), NEW a
    PROVE  {i \in 1 .. Len(s) : a \in s[i].lo .. s[i].hi} = Among(s, Over(w, a))
<1>1. \A i \in 1 .. Len(s) : s[i] \in EntryIn(w)
  OBVIOUS
<1> QED
  BY <1>1 DEF Among, Over

\* The lines for an address, as elements of a set
LEMMA LinesForm ==
    ASSUME NEW w \in Nat, NEW M, NEW s \in Seq(LineIn(w, M)), NEW m, NEW a
    PROVE  {i \in 1 .. Len(s) : s[i].key.map = m /\ s[i].key.net = Maps!Net(a, s[i].key.mask)}
           = Among(s, LineFor(w, M, m, a))
<1>1. \A i \in 1 .. Len(s) : s[i] \in LineIn(w, M)
  OBVIOUS
<1> QED
  BY <1>1 DEF Among, LineFor

\* Ranges and lines before a step, and after it
LEMMA MapsNow ==
    ASSUME Maps!TypeOK
    PROVE  /\ W \in Nat /\ rs \in Seq(EntryIn(W)) /\ lines \in Seq(LineIn(W, MapName))
           /\ \A a : Maps!Under(a) = Among(rs, Over(W, a))
           /\ \A m, a : Maps!LinesFor(m, a) = Among(lines, LineFor(W, MapName, m, a))
<1>1. W \in Nat /\ rs \in Seq(EntryIn(W)) /\ lines \in Seq(LineIn(W, MapName))
  BY Bits, MapsTypes
<1>2. \A a : Maps!Under(a) = Among(rs, Over(W, a))
  BY <1>1, UnderForm DEF Maps!Under
<1>3. \A m, a : Maps!LinesFor(m, a) = Among(lines, LineFor(W, MapName, m, a))
  BY <1>1, LinesForm DEF Maps!LinesFor
<1> QED
  BY <1>1, <1>2, <1>3

LEMMA MapsThen ==
    ASSUME Maps!TypeOK'
    PROVE  /\ rs' \in Seq(EntryIn(W)) /\ lines' \in Seq(LineIn(W, MapName))
           /\ \A a : Maps!Under(a)' = Among(rs', Over(W, a))
           /\ \A m, a : Maps!LinesFor(m, a)' = Among(lines', LineFor(W, MapName, m, a))
<1>1. W \in Nat /\ rs' \in Seq(EntryIn(W)) /\ lines' \in Seq(LineIn(W, MapName))
  BY Bits, MapsTypesNext
<1>2. \A a : Maps!Under(a)' = Among(rs', Over(W, a))
  <2> TAKE a
  <2>1. {i \in 1 .. Len(rs') : a \in rs'[i].lo .. rs'[i].hi} = Among(rs', Over(W, a))
    BY <1>1, UnderForm
  <2> QED
    BY <2>1 DEF Maps!Under
<1>3. \A m, a : Maps!LinesFor(m, a)' = Among(lines', LineFor(W, MapName, m, a))
  <2> TAKE m, a
  <2>1. {i \in 1 .. Len(lines') : lines'[i].key.map = m
                                  /\ lines'[i].key.net = Maps!Net(a, lines'[i].key.mask)}
        = Among(lines', LineFor(W, MapName, m, a))
    BY <1>1, LinesForm
  <2> QED
    BY <2>1 DEF Maps!LinesFor, Maps!Net, Maps!Size
<1> QED
  BY <1>1, <1>2, <1>3

\* Nothing is wanted of a map that nothing was asked for.
LEMMA NothingAsked ==
    ASSUME NEW m, NEW a, \A i \in 1 .. Len(asked) : asked[i].map # m
    PROVE  Maps!Promise!Wanted(m, a) = {NoMatch} /\ Maps!Promise!Covers("except", m, a) = {}
<1>1. \A k : Maps!Promise!Covers(k, m, a) = {}
  BY DEF Maps!Promise!Covers
<1> QED
  BY <1>1 DEF Maps!Promise!Wanted

\* What lines give depends on nothing else.
LEMMA SameLines ==
    ASSUME lines' = lines
    PROVE  \A m, a : Maps!LinePlaces(m, a)' = Maps!LinePlaces(m, a)
<1>1. \A m, a : Maps!LinesFor(m, a)' = Maps!LinesFor(m, a)
  BY DEF Maps!LinesFor, Maps!Net, Maps!Size
<1> QED
  BY <1>1 DEF Maps!LinePlaces

\* NextMap: nothing was asked of the new map yet, and no range is there.
LEMMA NextMapStep ==
    ASSUME Maps!GeoIInv, NEW m \in MapName, Maps!NextMap(m)
    PROVE  Maps!GeoIInv'
<1> USE DEF Maps!GeoIInv
<1>1. /\ stage = "compile" /\ current = "none" /\ m \notin compiled /\ current' = m
      /\ part' = "mapits" /\ compiled' = compiled /\ rs' = rs /\ lines' = lines
      /\ stage' = stage /\ asked' = asked /\ answer' = answer
  BY DEF Maps!NextMap
<1>2. m # "none" /\ "none" \notin MapName
  BY IpDbConstants DEF Maps!IpDbConstants
<1>3. Maps!TypeOK'
  BY <1>1, MapsTypes, MapsTypesNext
<1>4. /\ rs = <<>> /\ asked \in Seq(Maps!Promise!Request)
      /\ \A i \in 1 .. Len(asked) : asked[i].map \in compiled /\ asked[i].map # m
  <2>1. rs = <<>> /\ asked \in Seq(Maps!Promise!Request)
        /\ \A i \in 1 .. Len(asked) : asked[i].map \in compiled \cup {"none"}
    BY <1>1 DEF Maps!InTurn
  <2>2. \A i \in 1 .. Len(asked) : asked[i] \in Maps!Promise!Request
    BY <2>1
  <2>3. \A i \in 1 .. Len(asked) : asked[i].map \in MapName
    BY <2>2 DEF Maps!Promise!Request
  <2> QED
    BY <1>1, <1>2, <2>1, <2>3
<1>5. Maps!InTurn'
  BY <1>1, <1>2, <1>4 DEF Maps!InTurn, Maps!Promise!Request, Maps!Promise!Kind, Maps!Address
<1>6. Maps!OfCountry'
  BY <1>1 DEF Maps!OfCountry
<1>7. \A x, a : Maps!Promise!Wanted(x, a)' = Maps!Promise!Wanted(x, a)
                /\ Maps!Promise!Covers("except", x, a)' = Maps!Promise!Covers("except", x, a)
  BY <1>1 DEF Maps!Promise!Wanted, Maps!Promise!Covers
<1>8. \A a : Maps!Promise!Wanted(m, a) = {NoMatch} /\ Maps!Promise!Covers("except", m, a) = {}
  BY <1>4, NothingAsked
<1>9. Maps!RangesRight'
  <2>1. \A a : Maps!Under(a)' = {}
    <3>1. rs' = <<>> /\ Len(<<>>) = 0
      BY <1>1, <1>4
    <3> QED
      BY <3>1 DEF Maps!Under
  <2> SUFFICES ASSUME NEW a \in Maps!Address
               PROVE Maps!MeantFor(Maps!RangePlaces(a), m, a)'
    BY <1>1 DEF Maps!RangesRight, Maps!Address
  <2>2. Maps!RangePlaces(a)' = {}
    BY <2>1 DEF Maps!RangePlaces
  <2> QED
    BY <1>7, <1>8, <2>2 DEF Maps!MeantFor
<1>10. Maps!LinesRight'
  BY <1>1, <1>2, <1>7, SameLines DEF Maps!LinesRight, Maps!MeantFor, Maps!Address
<1>11. Maps!ExceptionsApart'
  BY <1>1, <1>7, <1>8 DEF Maps!ExceptionsApart
<1> QED
  BY <1>3, <1>5, <1>6, <1>9, <1>10, <1>11

\* A request for the current map leaves the order of the maps, and the others alone.
LEMMA AskedNow ==
    ASSUME Maps!GeoIInv, current # "none", NEW q \in Maps!Promise!Request, q.map = current,
           asked' = Append(asked, q), current' = current, compiled' = compiled, stage' = stage,
           lines' = lines,
           part' \in {"exception", "exceptions"} \/ (part' = part /\ q.kind = "mapit")
    PROVE  Maps!InTurn' /\ Maps!LinesRight'
<1> USE DEF Maps!GeoIInv
<1>1. asked \in Seq(Maps!Promise!Request)
  BY DEF Maps!InTurn
<1> DEFINE n == Len(asked)
<1>2. /\ n \in Nat /\ Len(asked') = n + 1 /\ asked'[n + 1] = q
      /\ \A i \in 1 .. n : asked'[i] = asked[i]
      /\ asked' \in Seq(Maps!Promise!Request)
  BY <1>1
<1>3. \A i \in 1 .. n + 1 : i \in 1 .. n \/ i = n + 1
  BY <1>2
<1> HIDE DEF n
<1>4. \A i \in 1 .. n : /\ asked[i].map \in compiled \cup {current}
                        /\ asked[i].map = current /\ part = "mapits" => asked[i].kind = "mapit"
  BY DEF Maps!InTurn, n
<1>5. \A i \in 1 .. n + 1 : /\ asked'[i].map \in compiled \cup {current}
                            /\ asked'[i].map = current /\ part' = "mapits" => asked'[i].kind = "mapit"
  <2> TAKE i \in 1 .. n + 1
  <2>1. CASE i \in 1 .. n
    BY <1>2, <1>4, <2>1
  <2>2. CASE i = n + 1
    BY <1>2, <2>2
  <2> QED
    BY <1>3, <2>1, <2>2
<1>6. asked' \in Seq(Maps!Promise!Request')
  <2>1. Maps!Promise!Request' = Maps!Promise!Request
    BY DEF Maps!Promise!Request, Maps!Promise!Kind, Maps!Address
  <2> QED
    BY <1>2, <2>1
<1>7. /\ current' \notin compiled'
      /\ stage' = "serve" => current' = "none"
      /\ current' = "none" => rs' = <<>>
  BY DEF Maps!InTurn
<1>8. Maps!InTurn'
  BY <1>2, <1>5, <1>6, <1>7 DEF Maps!InTurn
<1>9. \A m, a : m # current => Maps!Promise!Wanted(m, a)' = Maps!Promise!Wanted(m, a)
  BY <1>1, WantedAfter
<1>10. Maps!LinesRight'
  BY <1>9, SameLines DEF Maps!LinesRight, Maps!MeantFor, Maps!Address
<1> QED
  BY <1>8, <1>10

\* A mapping, of a country or of an ip class
LEMMA MapitStep ==
    ASSUME Maps!GeoIInv, current # "none", part = "mapits", NEW R \in SUBSET Maps!Address,
           NEW p \in Place, Maps!TypeOK', Maps!OfCountry', Maps!Asked("mapit", R, p),
           current' = current, compiled' = compiled, stage' = stage, lines' = lines, part' = part,
           \A a \in Maps!Address :
              /\ Maps!RangePlaces(a)' \subseteq Maps!RangePlaces(a) \cup {x \in {p} : a \in R}
              /\ Maps!RangePlaces(a)' = {} => Maps!RangePlaces(a) = {} /\ a \notin R
    PROVE  Maps!GeoIInv'
<1> USE DEF Maps!GeoIInv
<1> DEFINE q == [kind |-> "mapit", map |-> current, range |-> R, to |-> p]
<1>1. current \in MapName
  BY MapsTypes
<1>2. q \in Maps!Promise!Request
  BY <1>1 DEF Maps!Promise!Request, Maps!Promise!Kind
<1>3. q.kind = "mapit" /\ q.map = current /\ q.range = R /\ q.to = p /\ asked' = Append(asked, q)
  BY DEF Maps!Asked
<1> HIDE DEF q
<1>4. Maps!InTurn' /\ Maps!LinesRight'
  BY <1>2, <1>3, AskedNow
<1>5. asked \in Seq(Maps!Promise!Request)
  BY DEF Maps!InTurn
<1>6. PICK m : m = current
  OBVIOUS
<1>7. \A a : Maps!Promise!Covers("except", m, a) = {}
  BY <1>6 DEF Maps!InTurn, Maps!Promise!Covers
<1>8. \A a :
        /\ a \notin R => Maps!Promise!Wanted(m, a)' = Maps!Promise!Wanted(m, a)
        /\ Maps!Promise!Covers("except", m, a)' = {}
        /\ a \in R => /\ p \in Maps!Promise!Wanted(m, a)'
                      /\ Maps!Promise!Wanted(m, a) \ {NoMatch} \subseteq Maps!Promise!Wanted(m, a)'
  BY <1>2, <1>3, <1>5, <1>6, <1>7, WantedAfter
<1>9. \A a : Maps!RangePlaces(a) \subseteq Place /\ NoMatch \notin Place
  <2>1. NoMatch \notin Place
    BY IpDbConstants DEF Maps!IpDbConstants
  <2>2. \A i \in 1 .. Len(rs) : rs[i].to \in Place
    BY MapsNow, EntryFacts
  <2> QED
    BY <2>1, <2>2 DEF Maps!RangePlaces, Maps!Under
<1>10. ASSUME NEW a \in Maps!Address
       PROVE  Maps!MeantFor(Maps!RangePlaces(a), m, a)'
  <2>1. Maps!MeantFor(Maps!RangePlaces(a), m, a)
    BY <1>6, <1>10 DEF Maps!RangesRight
  <2>2. /\ Maps!RangePlaces(a)' \subseteq Maps!RangePlaces(a) \cup {x \in {p} : a \in R}
        /\ Maps!RangePlaces(a)' = {} => Maps!RangePlaces(a) = {} /\ a \notin R
    BY <1>10
  <2> QED
    BY <1>8, <1>9, <2>1, <2>2 DEF Maps!MeantFor
<1>11. Maps!RangesRight'
  BY <1>6, <1>10 DEF Maps!RangesRight, Maps!Address
<1>12. Maps!ExceptionsApart'
  BY <1>6, <1>8 DEF Maps!ExceptionsApart
<1> QED
  BY <1>4, <1>11, <1>12

\* u has the elements of s and t.
MadeOf(u, s, t) ==
    /\ \A i \in 1 .. Len(u) : (\E j \in 1 .. Len(s) : u[i] = s[j])
                               \/ (\E j \in 1 .. Len(t) : u[i] = t[j])
    /\ \A j \in 1 .. Len(s) : \E i \in 1 .. Len(u) : u[i] = s[j]
    /\ \A j \in 1 .. Len(t) : \E i \in 1 .. Len(u) : u[i] = t[j]

LEMMA ElementsJoined ==
    ASSUME NEW A, NEW s \in Seq(A), NEW t \in Seq(A)
    PROVE  MadeOf(s \o t, s, t)
<1>1. Listed(s) /\ Listed(t) /\ s \o t \in Seq(A)
  BY ListedFacts
<1>2. ToSet(s \o t) = ToSet(s) \cup ToSet(t)
  BY <1>1, Joined
<1>3. \A u \in Seq(A) : /\ \A i \in 1 .. Len(u) : u[i] \in ToSet(u)
                        /\ \A x \in ToSet(u) : \E i \in 1 .. Len(u) : x = u[i]
  BY ListedFacts
<1>4. PICK u \in Seq(A) : u = s \o t
  BY <1>1
<1>5. ToSet(u) = ToSet(s) \cup ToSet(t)
  BY <1>2, <1>4
<1>6. \A i \in 1 .. Len(u) : (\E j \in 1 .. Len(s) : u[i] = s[j])
                             \/ (\E j \in 1 .. Len(t) : u[i] = t[j])
  <2> TAKE i \in 1 .. Len(u)
  <2>1. u[i] \in ToSet(s) \/ u[i] \in ToSet(t)
    BY <1>3, <1>5
  <2> QED
    BY <1>3, <2>1
<1>7. \A j \in 1 .. Len(s) : \E i \in 1 .. Len(u) : u[i] = s[j]
  <2> TAKE j \in 1 .. Len(s)
  <2>1. s[j] \in ToSet(u)
    BY <1>3, <1>5
  <2> QED
    BY <1>3, <2>1
<1>8. \A j \in 1 .. Len(t) : \E i \in 1 .. Len(u) : u[i] = t[j]
  <2> TAKE j \in 1 .. Len(t)
  <2>1. t[j] \in ToSet(u)
    BY <1>3, <1>5
  <2> QED
    BY <1>3, <2>1
<1>9. MadeOf(u, s, t)
  BY <1>6, <1>7, <1>8 DEF MadeOf
<1> QED
  BY <1>4, <1>9

\* The ranges of the countries, in both instances
LEMMA RangesTyped ==
    ASSUME NEW c \in Country
    PROVE  Geo[c] \in Seq(RangesIn(W)) /\ GeoWide[c] \in Seq(RangesIn(4))
<1>1. ASSUME NEW w, NEW g \in Seq((0 .. 2 ^ w - 1) \X (0 .. 2 ^ w - 1)),
             \A i \in 1 .. Len(g) : g[i][1] <= g[i][2]
      PROVE  g \in Seq(RangesIn(w))
  <2>1. \A i \in 1 .. Len(g) : g[i] \in RangesIn(w)
    BY <1>1 DEF RangesIn
  <2>2. RangesIn(w) \subseteq (0 .. 2 ^ w - 1) \X (0 .. 2 ^ w - 1)
    BY DEF RangesIn
  <2> QED
    BY <1>1, <2>1, <2>2, SomeOf
<1>2. /\ Geo[c] \in Seq((0 .. 2 ^ W - 1) \X (0 .. 2 ^ W - 1))
      /\ \A i \in 1 .. Len(Geo[c]) : Geo[c][i][1] <= Geo[c][i][2]
  BY GeoRanges DEF Maps!GeoRanges, Maps!Address
<1>3. /\ GeoWide[c] \in Seq((0 .. 2 ^ 4 - 1) \X (0 .. 2 ^ 4 - 1))
      /\ \A i \in 1 .. Len(GeoWide[c]) : GeoWide[c][i][1] <= GeoWide[c][i][2]
  BY GeoRanges DEF Wide!GeoRanges, Wide!Address
<1> QED
  BY <1>1, <1>2, <1>3

\* What a country covers
LEMMA CountryRange ==
    ASSUME NEW c \in Country
    PROVE  UNION {Geo[c][i][1] .. Geo[c][i][2] : i \in 1 .. Len(Geo[c])} \in SUBSET Maps!Address
<1>1. Geo[c] \in Seq((0 .. 2 ^ W - 1) \X (0 .. 2 ^ W - 1))
  BY GeoRanges DEF Maps!GeoRanges, Maps!Address
<1>2. \A i \in 1 .. Len(Geo[c]) : Geo[c][i][1] \in 0 .. 2 ^ W - 1 /\ Geo[c][i][2] \in 0 .. 2 ^ W - 1
  BY <1>1
<1>3. W \in Nat /\ 2 ^ W \in Nat
  BY Bits, Doubling
<1>4. \A i \in 1 .. Len(Geo[c]) : Geo[c][i][1] .. Geo[c][i][2] \subseteq 0 .. 2 ^ W - 1
  BY <1>2, <1>3
<1> QED
  BY <1>4 DEF Maps!Address

\* MapCountry: the entries named before in this map move to the new place, where
\* the request wants them too, since they are ranges of the country.
LEMMA MapCountryStep ==
    ASSUME Maps!GeoIInv, NEW c \in Country, NEW p \in Place, Maps!MapCountry(c, p)
    PROVE  Maps!GeoIInv'
<1> USE DEF Maps!GeoIInv
<1> DEFINE g == Geo[c]
           R == UNION {g[i][1] .. g[i][2] : i \in 1 .. Len(g)}
           moved == Moved(rs, c, p)
           named == Named(g, c, p)
<1>1. /\ current # "none" /\ part = "mapits" /\ Maps!Asked("mapit", R, p)
      /\ rs' = moved \o named
      /\ current' = current /\ part' = part /\ compiled' = compiled /\ lines' = lines
      /\ stage' = stage /\ answer' = answer
  BY DEF Maps!MapCountry, Moved, Named
<1>2. W \in Nat /\ rs \in Seq(EntryIn(W)) /\ Len(rs) \in Nat
  BY MapsNow
<1>3. g \in Seq((0 .. 2 ^ W - 1) \X (0 .. 2 ^ W - 1)) /\ \A i \in 1 .. Len(g) : g[i][1] <= g[i][2]
  BY GeoRanges DEF Maps!GeoRanges, Maps!Address
<1>13. g \in Seq(RangesIn(W))
  BY RangesTyped
<1>4. R \in SUBSET Maps!Address
  BY CountryRange
<1> HIDE DEF g
<1>5. /\ moved \in Seq(EntryIn(W)) /\ Len(moved) = Len(rs)
      /\ \A i \in 1 .. Len(rs) :
            /\ moved[i].lo = rs[i].lo /\ moved[i].hi = rs[i].hi /\ moved[i].of = rs[i].of
            /\ moved[i].to = IF rs[i].of = c THEN p ELSE rs[i].to
  BY <1>2, MovedFacts
<1>12. /\ named \in Seq(EntryIn(W)) /\ Len(named) = Len(g)
       /\ \A i \in 1 .. Len(g) :
            named[i].lo = g[i][1] /\ named[i].hi = g[i][2] /\ named[i].of = c /\ named[i].to = p
  BY <1>2, <1>13, NamedFacts
<1> HIDE DEF moved, named
<1>6. /\ rs' \in Seq(EntryIn(W))
      /\ \A i \in 1 .. Len(rs') : \/ \E j \in 1 .. Len(rs) : rs'[i] = moved[j]
                                  \/ \E j \in 1 .. Len(g) : rs'[i] = named[j]
      /\ \A j \in 1 .. Len(rs) : \E i \in 1 .. Len(rs') : rs'[i] = moved[j]
      /\ \A j \in 1 .. Len(g) : \E i \in 1 .. Len(rs') : rs'[i] = named[j]
  <2> DEFINE u == moved \o named
  <2>1. u \in Seq(EntryIn(W))
    BY <1>5, <1>12
  <2>2. MadeOf(u, moved, named)
    BY <1>5, <1>12, ElementsJoined
  <2>3. rs' = u /\ Len(moved) = Len(rs) /\ Len(named) = Len(g)
    BY <1>1, <1>5, <1>12
  <2> HIDE DEF u
  <2> QED
    BY <2>1, <2>2, <2>3 DEF MadeOf
<1>7. Maps!TypeOK'
  BY <1>1, <1>6, MapsTypes, MapsTypesNext
<1>8. c # Block
  BY IpDbConstants DEF Maps!IpDbConstants
<1>9. \A i \in 1 .. Len(g) : g[i] = <<g[i][1], g[i][2]>>
  BY <1>3
<1>10. Maps!OfCountry'
  <2> SUFFICES ASSUME NEW i \in 1 .. Len(rs'), rs'[i].of # Block
               PROVE  \E k \in 1 .. Len(Geo[rs'[i].of]) : Geo[rs'[i].of][k] = <<rs'[i].lo, rs'[i].hi>>
    BY DEF Maps!OfCountry
  <2>1. CASE \E j \in 1 .. Len(rs) : rs'[i] = moved[j]
    <3>1. PICK j \in 1 .. Len(rs) : rs'[i] = moved[j]
      BY <2>1
    <3>2. rs'[i].of = rs[j].of /\ rs'[i].lo = rs[j].lo /\ rs'[i].hi = rs[j].hi
      BY <1>5, <1>12, <3>1
    <3> QED
      BY <3>2 DEF Maps!OfCountry
  <2>2. CASE \E j \in 1 .. Len(g) : rs'[i] = named[j]
    BY <1>5, <1>12, <1>9, <2>2 DEF g
  <2> QED
    BY <1>6, <2>1, <2>2
<1>11. ASSUME NEW a \in Maps!Address
       PROVE  /\ Maps!RangePlaces(a)' \subseteq Maps!RangePlaces(a) \cup {x \in {p} : a \in R}
              /\ Maps!RangePlaces(a)' = {} => Maps!RangePlaces(a) = {} /\ a \notin R
  <2>1. \A i \in Maps!Under(a)' : rs'[i].to \in Maps!RangePlaces(a)'
    BY DEF Maps!RangePlaces
  <2>2. \A j \in Maps!Under(a) : rs[j].to \in Maps!RangePlaces(a)
    BY DEF Maps!RangePlaces
  <2>3. ASSUME NEW i \in Maps!Under(a)'
        PROVE  rs'[i].to \in Maps!RangePlaces(a) \cup {x \in {p} : a \in R}
    <3>1. i \in 1 .. Len(rs') /\ a \in rs'[i].lo .. rs'[i].hi
      BY DEF Maps!Under
    <3>2. ASSUME NEW j \in 1 .. Len(rs), rs'[i] = moved[j]
          PROVE  rs'[i].to \in Maps!RangePlaces(a) \cup {x \in {p} : a \in R}
      <4>1. a \in rs[j].lo .. rs[j].hi /\ j \in Maps!Under(a)
        BY <1>5, <1>12, <3>1, <3>2 DEF Maps!Under
      <4>2. CASE rs[j].of # c
        BY <1>5, <1>12, <2>2, <3>2, <4>1, <4>2
      <4>3. CASE rs[j].of = c
        <5>1. PICK k \in 1 .. Len(g) : g[k] = <<rs[j].lo, rs[j].hi>>
          BY <1>8, <4>3 DEF Maps!OfCountry, g
        <5>2. a \in g[k][1] .. g[k][2]
          BY <4>1, <5>1
        <5> QED
          BY <1>5, <1>12, <3>2, <4>3, <5>2
      <4> QED
        BY <4>2, <4>3
    <3>3. ASSUME NEW j \in 1 .. Len(g), rs'[i] = named[j]
          PROVE  rs'[i].to \in {x \in {p} : a \in R}
      BY <1>5, <1>12, <3>1, <3>3
    <3> QED
      BY <1>6, <3>1, <3>2, <3>3
  <2>4. Maps!RangePlaces(a)' \subseteq Maps!RangePlaces(a) \cup {x \in {p} : a \in R}
    BY <2>3 DEF Maps!RangePlaces
  <2>5. ASSUME NEW j \in Maps!Under(a) PROVE Maps!RangePlaces(a)' # {}
    <3>1. j \in 1 .. Len(rs) /\ a \in moved[j].lo .. moved[j].hi
      BY <1>5, <1>12 DEF Maps!Under
    <3>2. PICK i \in 1 .. Len(rs') : rs'[i] = moved[j]
      BY <1>6, <3>1
    <3>3. i \in Maps!Under(a)'
      BY <3>1, <3>2 DEF Maps!Under
    <3> QED
      BY <2>1, <3>3
  <2>6. ASSUME a \in R PROVE Maps!RangePlaces(a)' # {}
    <3>1. PICK j \in 1 .. Len(g) : a \in g[j][1] .. g[j][2]
      BY <2>6
    <3>2. PICK i \in 1 .. Len(rs') : rs'[i] = named[j]
      BY <1>6
    <3>3. i \in Maps!Under(a)'
      BY <1>5, <1>12, <3>1, <3>2 DEF Maps!Under
    <3> QED
      BY <2>1, <3>3
  <2>7. Maps!RangePlaces(a) # {} => Maps!Under(a) # {}
    BY DEF Maps!RangePlaces
  <2> QED
    BY <2>4, <2>5, <2>6, <2>7
<1> HIDE DEF R
<1> QED
  BY <1>1, <1>4, <1>7, <1>10, <1>11, MapitStep

\* The range of an ip class
RangeOf(a, m) == Maps!Net(a, m) .. Maps!Net(a, m) + Maps!Size(m) - 1
Class(a, m, p) == Maps!Entry(Maps!Net(a, m), Maps!Net(a, m) + Maps!Size(m) - 1, p, Block)
ClassesIn(w) == (0 .. 2 ^ w - 1) \X (32 - w .. 32)

\* A class has its addresses.
LEMMA ClassFacts ==
    ASSUME NEW w \in Nat, NEW a, NEW m, <<a, m>> \in ClassesIn(w), NEW p \in Place
    PROVE  /\ Class(a, m, p) \in EntryIn(w) /\ Class(a, m, p).to = p /\ Class(a, m, p).of = Block
           /\ Class(a, m, p).lo .. Class(a, m, p).hi = RangeOf(a, m)
           /\ RangeOf(a, m) \subseteq 0 .. 2 ^ w - 1
<1> DEFINE lo == Maps!Net(a, m)
           hi == Maps!Net(a, m) + Maps!Size(m) - 1
           e == Maps!Entry(lo, hi, p, Block)
<1>1. lo \in 0 .. 2 ^ w - 1 /\ hi \in 0 .. 2 ^ w - 1 /\ lo <= hi
  <2>1. a \in 0 .. 2 ^ w - 1 /\ m \in 32 - w .. 32
    BY DEF ClassesIn
  <2> QED
    BY <2>1, NetFacts
<1> HIDE DEF lo, hi
<1>2. e \in EntryIn(w) /\ e.lo = lo /\ e.hi = hi /\ e.to = p /\ e.of = Block
  BY <1>1, MadeEntry
<1>3. PICK t \in Nat : t = 2 ^ w
  BY Doubling
<1>4. lo .. hi \subseteq 0 .. 2 ^ w - 1
  BY <1>1, <1>3
<1> QED
  BY <1>2, <1>4 DEF lo, hi, Class, RangeOf

\* MapIp: one more range under the addresses of the class
LEMMA MapIpStep ==
    ASSUME Maps!GeoIInv, NEW b \in Maps!Address, NEW m \in Maps!Mask, NEW p \in Place,
           Maps!MapIp(b, m, p)
    PROVE  Maps!GeoIInv'
<1> USE DEF Maps!GeoIInv
<1> DEFINE e == Class(b, m, p)
           R == RangeOf(b, m)
<1>1. /\ current # "none" /\ part = "mapits" /\ Maps!Asked("mapit", R, p)
      /\ rs' = Append(rs, e)
      /\ current' = current /\ part' = part /\ compiled' = compiled /\ lines' = lines
      /\ stage' = stage /\ answer' = answer
  BY DEF Maps!MapIp, Class, RangeOf
<1>2. W \in Nat /\ rs \in Seq(EntryIn(W)) /\ Len(rs) \in Nat
  BY MapsNow
<1>3. e \in EntryIn(W) /\ e.to = p /\ e.of = Block /\ e.lo .. e.hi = R /\ R \subseteq 0 .. 2 ^ W - 1
  <2>1. <<b, m>> \in ClassesIn(W)
    BY DEF Maps!Address, Maps!Mask, ClassesIn
  <2> QED
    BY <1>2, <2>1, ClassFacts
<1> HIDE DEF e, R
<1> DEFINE n == Len(rs)
<1>4. /\ rs' \in Seq(EntryIn(W)) /\ n \in Nat /\ Len(rs') = n + 1 /\ rs'[n + 1] = e
      /\ \A i \in 1 .. n : rs'[i] = rs[i]
  BY <1>1, <1>2, <1>3
<1>5. 1 .. n + 1 = (1 .. n) \cup {n + 1}
  BY <1>4
<1>6. Maps!TypeOK'
  BY <1>1, <1>4, MapsTypes, MapsTypesNext
<1>7. Maps!OfCountry'
  BY <1>3, <1>4, <1>5 DEF Maps!OfCountry
<1>8. ASSUME NEW a \in Maps!Address
      PROVE  /\ Maps!RangePlaces(a)' \subseteq Maps!RangePlaces(a) \cup {x \in {p} : a \in R}
             /\ Maps!RangePlaces(a)' = {} => Maps!RangePlaces(a) = {} /\ a \notin R
  <2>1. Maps!Under(a)' = {i \in 1 .. n + 1 : a \in rs'[i].lo .. rs'[i].hi}
    BY <1>4 DEF Maps!Under
  <2>2. Maps!Under(a) = {i \in 1 .. n : a \in rs[i].lo .. rs[i].hi}
    BY DEF Maps!Under
  <2> HIDE DEF n
  <2>3. Maps!Under(a)' = Maps!Under(a) \cup {i \in {n + 1} : a \in R}
    BY <1>3, <1>4, <1>5, <2>1, <2>2
  <2>4. Maps!RangePlaces(a)' = Maps!RangePlaces(a) \cup {x \in {p} : a \in R}
    BY <1>3, <1>4, <2>2, <2>3 DEF Maps!RangePlaces
  <2> QED
    BY <2>4
<1> QED
  BY <1>1, <1>3, <1>6, <1>7, <1>8, MapitStep DEF Maps!Address

\* One element more
LEMMA OneMore ==
    ASSUME NEW A, NEW s \in Seq(A), NEW x \in A
    PROVE  /\ Append(s, x) \in Seq(A) /\ Len(s) \in Nat /\ Len(Append(s, x)) = Len(s) + 1
           /\ \A i \in 1 .. Len(s) : Append(s, x)[i] = s[i]
           /\ Append(s, x)[Len(s) + 1] = x
           /\ \A P : Among(Append(s, x), P) = Among(s, P) \cup {i \in {Len(s) + 1} : x \in P}
<1>1. /\ Append(s, x) \in Seq(A) /\ Len(s) \in Nat /\ Len(Append(s, x)) = Len(s) + 1
      /\ \A i \in 1 .. Len(s) : Append(s, x)[i] = s[i]
      /\ Append(s, x)[Len(s) + 1] = x
  OBVIOUS
<1>2. PICK n \in Nat : n = Len(s)
  BY <1>1
<1>3. 1 .. n + 1 = (1 .. n) \cup {n + 1}
  BY <1>2
<1>4. PICK u : u = Append(s, x)
  OBVIOUS
<1>5. \A P : Among(u, P) = Among(s, P) \cup {i \in {n + 1} : x \in P}
  BY <1>1, <1>2, <1>3, <1>4 DEF Among
<1> QED
  BY <1>1, <1>2, <1>4, <1>5

\* An entry of a country is one of its ranges.
Ranged(t) == t.of # Block => \E j \in 1 .. Len(Geo[t.of]) : Geo[t.of][j] = <<t.lo, t.hi>>

\* What an exception e makes of the ranges s: those under e lose e's addresses, the
\* others keep as many ranges and no other places, and countries keep their ranges.
ExceptIn(s, e) == Append(Maps!ChkExceptMatch(s, e), e)

ExceptMade(w, s, e, u) ==
    /\ u \in Seq(EntryIn(w))
    /\ \E n \in 1 .. Len(u) : /\ u[n] = e
                              /\ \A a \in e.lo .. e.hi : Among(u, Over(w, a)) = {n}
    /\ \A a : a \notin e.lo .. e.hi =>
            /\ Among(s, Over(w, a)) # {} => Among(u, Over(w, a)) # {}
            /\ One(Among(s, Over(w, a))) => One(Among(u, Over(w, a)))
            /\ \A T : (\A i \in Among(s, Over(w, a)) : s[i].to \in T)
                      => \A i \in Among(u, Over(w, a)) : u[i].to \in T
    /\ (\A i \in 1 .. Len(s) : Ranged(s[i])) => \A i \in 1 .. Len(u) : Ranged(u[i])

\* chk_except_match and the push after it
LEMMA ExceptAdds ==
    ASSUME NEW w \in Nat, NEW s \in Seq(EntryIn(w)), NEW e \in EntryIn(w), e.of = Block
    PROVE  ExceptMade(w, s, e, ExceptIn(s, e))
<1>1. PICK cut : cut = Maps!ChkExceptMatch(s, e)
  OBVIOUS
<1>2. /\ cut \in Seq(EntryIn(w))
      /\ \A a \in e.lo .. e.hi : Among(cut, Over(w, a)) = {}
      /\ \A a : a \notin e.lo .. e.hi =>
            /\ Among(s, Over(w, a)) # {} => Among(cut, Over(w, a)) # {}
            /\ One(Among(s, Over(w, a))) => One(Among(cut, Over(w, a)))
      /\ \A P : /\ \A t \in EntryIn(w) \ P : Among(Maps!Pieces(t, e), P) = {}
                /\ Among(s, P) = {}
                => Among(cut, P) = {}
  <2>1. LET c == Maps!ChkExceptMatch(s, e) IN
        /\ c \in Seq(EntryIn(w))
        /\ \A a \in e.lo .. e.hi : Among(c, Over(w, a)) = {}
        /\ \A a : a \notin e.lo .. e.hi =>
              /\ Among(s, Over(w, a)) # {} => Among(c, Over(w, a)) # {}
              /\ One(Among(s, Over(w, a))) => One(Among(c, Over(w, a)))
        /\ \A P : /\ \A t \in EntryIn(w) \ P : Among(Maps!Pieces(t, e), P) = {}
                  /\ Among(s, P) = {}
                  => Among(c, P) = {}
    BY ExceptFacts
  <2> QED
    BY <1>1, <2>1
<1>3. PICK u : u = ExceptIn(s, e)
  OBVIOUS
<1>4. PICK n : n = Len(cut) + 1
  OBVIOUS
<1>5. /\ u \in Seq(EntryIn(w)) /\ Len(cut) \in Nat /\ Len(u) = n /\ u[n] = e
      /\ \A i \in 1 .. Len(cut) : u[i] = cut[i]
      /\ \A P : Among(u, P) = Among(cut, P) \cup {i \in {n} : e \in P}
  BY <1>1, <1>2, <1>3, <1>4, OneMore DEF ExceptIn
<1>6. n \in 1 .. Len(u) /\ \A i \in 1 .. Len(u) : i \in 1 .. Len(cut) \/ i = n
  BY <1>4, <1>5
<1>7. \A a : e \in Over(w, a) <=> a \in e.lo .. e.hi
  BY DEF Over
<1>8. \A a \in e.lo .. e.hi : Among(u, Over(w, a)) = {n}
  BY <1>2, <1>5, <1>7
<1>9. \A a : a \notin e.lo .. e.hi => Among(u, Over(w, a)) = Among(cut, Over(w, a))
  BY <1>5, <1>7
<1>10. ASSUME NEW a, a \notin e.lo .. e.hi, NEW T, \A i \in Among(s, Over(w, a)) : s[i].to \in T
       PROVE  \A i \in Among(u, Over(w, a)) : u[i].to \in T
  <2> DEFINE P == {t \in Over(w, a) : t.to \notin T}
  <2>1. Among(s, P) = {}
    BY <1>10 DEF Among
  <2>2. ASSUME NEW t \in EntryIn(w) \ P PROVE Among(Maps!Pieces(t, e), P) = {}
    <3>1. ASSUME NEW i \in Among(Maps!Pieces(t, e), P) PROVE FALSE
      <4>1. PICK x : x = Maps!Pieces(t, e)[i]
        OBVIOUS
      <4>2. i \in 1 .. Len(Maps!Pieces(t, e)) /\ x \in P
        BY <4>1 DEF Among
      <4>3. x.to = t.to /\ x.lo .. x.hi \subseteq t.lo .. t.hi
        BY <4>1, <4>2, PiecesFacts
      <4> QED
        BY <4>2, <4>3 DEF Over
    <3> QED
      BY <3>1
  <2>3. Among(cut, P) = {}
    BY <1>2, <2>1, <2>2
  <2>4. \A i \in Among(cut, Over(w, a)) : cut[i].to \in T
    BY <2>3 DEF Among
  <2> QED
    BY <1>5, <1>9, <1>10, <2>4 DEF Among
<1>11. ASSUME \A i \in 1 .. Len(s) : Ranged(s[i])
       PROVE  \A i \in 1 .. Len(u) : Ranged(u[i])
  <2> DEFINE P == {t \in EntryIn(w) : ~Ranged(t)}
  <2>1. Among(s, P) = {}
    BY <1>11 DEF Among
  <2>2. ASSUME NEW t \in EntryIn(w) \ P PROVE Among(Maps!Pieces(t, e), P) = {}
    <3>1. ASSUME NEW i \in Among(Maps!Pieces(t, e), P) PROVE FALSE
      <4>1. PICK x : x = Maps!Pieces(t, e)[i]
        OBVIOUS
      <4>2. i \in 1 .. Len(Maps!Pieces(t, e)) /\ x \in P
        BY <4>1 DEF Among
      <4>3. x = t \/ x.of = Block
        BY <4>1, <4>2, PiecesFacts
      <4>4. Ranged(x)
        BY <4>3 DEF Ranged
      <4> QED
        BY <4>2, <4>4
    <3> QED
      BY <3>1
  <2>3. Among(cut, P) = {}
    BY <1>2, <2>1, <2>2
  <2>4. \A i \in 1 .. Len(cut) : cut[i] \in EntryIn(w)
    BY <1>2
  <2>5. \A i \in 1 .. Len(cut) : Ranged(cut[i])
    BY <2>3, <2>4 DEF Among
  <2>6. Ranged(e)
    BY DEF Ranged
  <2> QED
    BY <1>5, <1>6, <2>5, <2>6
<1> HIDE <1>1
<1>12. \E k \in 1 .. Len(u) : /\ u[k] = e
                              /\ \A a \in e.lo .. e.hi : Among(u, Over(w, a)) = {k}
  BY <1>5, <1>6, <1>8
<1>13. \A a : a \notin e.lo .. e.hi =>
            /\ Among(s, Over(w, a)) # {} => Among(u, Over(w, a)) # {}
            /\ One(Among(s, Over(w, a))) => One(Among(u, Over(w, a)))
  BY <1>2, <1>9
<1>14. ExceptMade(w, s, e, u)
  BY <1>5, <1>10, <1>11, <1>12, <1>13 DEF ExceptMade
<1> QED
  BY <1>3, <1>14

\* Except: the addresses of the class are in one range only, the exception's.
LEMMA ExceptStep ==
    ASSUME Maps!GeoIInv, NEW b \in Maps!Address, NEW m \in Maps!Mask, NEW p \in Place,
           Maps!Except(b, m, p)
    PROVE  Maps!GeoIInv'
<1> USE DEF Maps!GeoIInv
<1>a. PICK e : e = Class(b, m, p)
  OBVIOUS
<1>b. PICK R : R = RangeOf(b, m)
  OBVIOUS
<1> DEFINE q == [kind |-> "except", map |-> current, range |-> R, to |-> p]
<1>1. /\ current # "none" /\ asked' = Append(asked, q)
      /\ rs' = ExceptIn(rs, e) /\ part' \in {"exception", "exceptions"}
      /\ current' = current /\ compiled' = compiled /\ lines' = lines
      /\ stage' = stage /\ answer' = answer
  BY <1>a, <1>b DEF Maps!Except, Maps!NextExcept, Maps!Asked, Class, RangeOf, ExceptIn
<1>2. W \in Nat /\ rs \in Seq(EntryIn(W)) /\ \A a : Maps!Under(a) = Among(rs, Over(W, a))
  BY MapsNow
<1>3. e \in EntryIn(W) /\ e.to = p /\ e.of = Block /\ e.lo .. e.hi = R /\ R \subseteq 0 .. 2 ^ W - 1
  <2>1. <<b, m>> \in ClassesIn(W)
    BY DEF Maps!Address, Maps!Mask, ClassesIn
  <2> QED
    BY <1>2, <1>a, <1>b, <2>1, ClassFacts
<1>4. /\ rs' \in Seq(EntryIn(W))
      /\ \E n \in 1 .. Len(rs') : rs'[n] = e /\ \A a \in R : Among(rs', Over(W, a)) = {n}
      /\ \A a : a \notin R =>
            /\ Among(rs, Over(W, a)) # {} => Among(rs', Over(W, a)) # {}
            /\ One(Among(rs, Over(W, a))) => One(Among(rs', Over(W, a)))
            /\ \A T : (\A i \in Among(rs, Over(W, a)) : rs[i].to \in T)
                      => \A i \in Among(rs', Over(W, a)) : rs'[i].to \in T
      /\ (\A i \in 1 .. Len(rs) : Ranged(rs[i])) => \A i \in 1 .. Len(rs') : Ranged(rs'[i])
  <2>1. ExceptMade(W, rs, e, rs')
    BY <1>1, <1>2, <1>3, ExceptAdds
  <2> QED
    BY <1>3, <2>1 DEF ExceptMade
<1>5. Maps!TypeOK'
  BY <1>1, <1>4, MapsTypes, MapsTypesNext
<1>6. \A a : Maps!Under(a)' = Among(rs', Over(W, a))
  BY <1>5, MapsThen
<1>7. Maps!OfCountry'
  <2>1. \A i \in 1 .. Len(rs) : Ranged(rs[i])
    BY DEF Maps!OfCountry, Ranged
  <2>2. \A i \in 1 .. Len(rs') : Ranged(rs'[i])
    BY <1>4, <2>1
  <2> QED
    BY <2>2 DEF Maps!OfCountry, Ranged
<1>8. q \in Maps!Promise!Request /\ q.kind = "except" /\ q.map = current /\ q.range = R /\ q.to = p
  <2>1. current \in MapName
    BY <1>1, MapsTypes
  <2>2. R \in SUBSET Maps!Address
    BY <1>3 DEF Maps!Address
  <2> QED
    BY <2>1, <2>2 DEF Maps!Promise!Request, Maps!Promise!Kind
<1> HIDE DEF q
<1>9. Maps!InTurn' /\ Maps!LinesRight'
  BY <1>1, <1>8, AskedNow
<1>10. asked \in Seq(Maps!Promise!Request)
  BY DEF Maps!InTurn
<1>11. PICK x : x = current
  OBVIOUS
<1>12. \A a : /\ a \notin R => /\ Maps!Promise!Wanted(x, a)' = Maps!Promise!Wanted(x, a)
                               /\ Maps!Promise!Covers("except", x, a)' = Maps!Promise!Covers("except", x, a)
              /\ a \in R => Maps!Promise!Wanted(x, a)' = {p}
  BY <1>1, <1>8, <1>10, <1>11, WantedAfter
<1>13. ASSUME NEW a \in Maps!Address
       PROVE  Maps!MeantFor(Maps!RangePlaces(a), x, a)'
  <2>1. CASE a \in R
    <3>1. Maps!RangePlaces(a)' = {p}
      BY <1>3, <1>4, <1>6, <2>1 DEF Maps!RangePlaces
    <3> QED
      BY <1>12, <2>1, <3>1 DEF Maps!MeantFor
  <2>2. CASE a \notin R
    <3>1. Maps!MeantFor(Maps!RangePlaces(a), x, a)
      BY <1>1, <1>11, <1>13 DEF Maps!RangesRight
    <3>2. PICK T : T = Maps!Promise!Wanted(x, a)
      OBVIOUS
    <3>3. \A i \in Among(rs, Over(W, a)) : rs[i].to \in T
      BY <1>2, <3>1, <3>2 DEF Maps!MeantFor, Maps!RangePlaces
    <3>4. \A i \in Among(rs', Over(W, a)) : rs'[i].to \in T
      BY <1>4, <2>2, <3>3
    <3>5. Maps!RangePlaces(a)' \subseteq T
      BY <1>6, <3>4 DEF Maps!RangePlaces
    <3>6. Maps!RangePlaces(a)' = {} => Maps!RangePlaces(a) = {}
      <4>1. SUFFICES ASSUME Maps!RangePlaces(a)' = {} PROVE Maps!Under(a) = {}
        BY DEF Maps!RangePlaces
      <4>2. Maps!Under(a)' = {}
        BY <4>1 DEF Maps!RangePlaces
      <4> QED
        BY <1>2, <1>4, <1>6, <2>2, <4>2
    <3> QED
      BY <1>12, <2>2, <3>1, <3>2, <3>5, <3>6 DEF Maps!MeantFor
  <2> QED
    BY <2>1, <2>2
<1>14. Maps!RangesRight'
  BY <1>1, <1>11, <1>13 DEF Maps!RangesRight, Maps!Address
<1>15. Maps!ExceptionsApart'
  <2> SUFFICES ASSUME NEW a \in Maps!Address, Maps!Promise!Covers("except", x, a)' # {}
               PROVE  One(Maps!Under(a)')
    BY <1>1, <1>11 DEF Maps!ExceptionsApart, Maps!Address, One
  <2>1. CASE a \in R
    <3>1. PICK n \in 1 .. Len(rs') : Among(rs', Over(W, a)) = {n}
      BY <1>4, <2>1
    <3>2. Maps!Under(a)' = {n}
      BY <1>6, <3>1
    <3> QED
      BY <3>2 DEF One
  <2>2. CASE a \notin R
    <3>1. One(Maps!Under(a))
      BY <1>1, <1>11, <1>12, <2>2 DEF Maps!ExceptionsApart, One
    <3> QED
      BY <1>2, <1>4, <1>6, <2>2, <3>1
  <2> QED
    BY <2>1, <2>2
<1> QED
  BY <1>5, <1>7, <1>9, <1>14, <1>15

\* Emit: lines are written for the addresses of the ranges, and for no others.
LEMMA EmitStep ==
    ASSUME Maps!GeoIInv, Maps!Emit
    PROVE  Maps!GeoIInv'
<1> USE DEF Maps!GeoIInv
<1>1. PICK new : new = FlattenSeq([i \in 1 .. Len(rs) |-> LinesIn(W, Reverse(rs)[i])])
  OBVIOUS
<1>2. /\ current # "none" /\ lines' = lines \o new /\ rs' = <<>>
      /\ compiled' = compiled \cup {current} /\ current' = "none"
      /\ part' = part /\ stage' = stage /\ asked' = asked /\ answer' = answer
  BY <1>1, LinesOfMaps, SameHelpers DEF Maps!Emit
<1>3. current \in MapName /\ "none" \notin MapName /\ compiled \subseteq MapName
  BY <1>2, MapsTypes, IpDbConstants DEF Maps!IpDbConstants
<1>4. /\ W \in Nat /\ rs \in Seq(EntryIn(W)) /\ lines \in Seq(LineIn(W, MapName))
      /\ \A a : Maps!Under(a) = Among(rs, Over(W, a))
      /\ \A m, a : Maps!LinesFor(m, a) = Among(lines, LineFor(W, MapName, m, a))
  BY MapsNow
<1>5. PICK x : x = current
  OBVIOUS
<1>6. /\ new \in Seq(LineIn(W, MapName))
      /\ \A i \in 1 .. Len(new) : new[i].key.map = x
      /\ \A a \in 0 .. 2 ^ W - 1 :
            /\ Among(new, LineFor(W, MapName, x, a)) = {} <=> Among(rs, Over(W, a)) = {}
            /\ \A T : (\A i \in Among(rs, Over(W, a)) : rs[i].to \in T)
                      => \A i \in Among(new, LineFor(W, MapName, x, a)) : new[i].to \in T
  <2>1. LET made == FlattenSeq([i \in 1 .. Len(rs) |-> LinesIn(W, Reverse(rs)[i])]) IN
           /\ made \in Seq(LineIn(W, MapName))
           /\ \A i \in 1 .. Len(made) : made[i].key.map = current
           /\ \A a \in 0 .. 2 ^ W - 1 :
                /\ Among(made, LineFor(W, MapName, current, a)) = {} <=> Among(rs, Over(W, a)) = {}
                /\ \A T : (\A i \in Among(rs, Over(W, a)) : rs[i].to \in T)
                          => \A i \in Among(made, LineFor(W, MapName, current, a)) : made[i].to \in T
    BY <1>3, <1>4, LinesWritten
  <2> QED
    BY <1>1, <1>5, <2>1
<1>7. /\ lines' \in Seq(LineIn(W, MapName)) /\ Len(lines) \in Nat /\ Len(new) \in Nat
      /\ Len(lines') = Len(lines) + Len(new)
      /\ \A i \in 1 .. Len(lines) : lines'[i] = lines[i]
      /\ \A i \in 1 .. Len(new) : lines'[Len(lines) + i] = new[i]
  <2>1. lines \o new \in Seq(LineIn(W, MapName))
    BY <1>4, <1>6
  <2> QED
    BY <1>2, <1>4, <1>6, <2>1
<1>8. \A P : Among(lines', P) = Among(lines, P) \cup {Len(lines) + i : i \in Among(new, P)}
  BY <1>2, <1>4, <1>6, AmongJoined
<1>9. Maps!TypeOK'
  <2>1. rs' \in Seq(EntryIn(W))
    BY <1>2
  <2>2. compiled' \subseteq MapName
    BY <1>2, <1>3
  <2> QED
    BY <1>2, <1>7, <2>1, <2>2, MapsTypes, MapsTypesNext
<1>10. \A m, a : Maps!LinesFor(m, a)' = Among(lines', LineFor(W, MapName, m, a))
  BY <1>9, MapsThen
<1>11. Maps!InTurn'
  <2>1. \A i \in 1 .. Len(asked) : asked[i].map \in MapName
    <3>1. \A i \in 1 .. Len(asked) : asked[i] \in Maps!Promise!Request
      BY DEF Maps!InTurn
    <3> QED
      BY <3>1 DEF Maps!Promise!Request
  <2>2. Maps!Promise!Request' = Maps!Promise!Request
    BY DEF Maps!Promise!Request, Maps!Promise!Kind, Maps!Address
  <2>3. asked' \in Seq(Maps!Promise!Request')
    BY <1>2, <2>2 DEF Maps!InTurn
  <2>4. \A i \in 1 .. Len(asked) : asked[i].map \in compiled \cup {current}
    BY DEF Maps!InTurn
  <2>5. \A i \in 1 .. Len(asked') :
            /\ asked'[i].map \in compiled' \cup {current'}
            /\ asked'[i].map = current' /\ part' = "mapits" => asked'[i].kind = "mapit"
    BY <1>2, <1>3, <2>1, <2>4
  <2> QED
    BY <1>2, <1>3, <2>3, <2>5 DEF Maps!InTurn
<1>12. Maps!OfCountry'
  <2>1. \A i \in 1 .. Len(rs') : FALSE
    BY <1>2
  <2> QED
    BY <2>1 DEF Maps!OfCountry
<1>13. Maps!RangesRight' /\ Maps!ExceptionsApart'
  BY <1>2 DEF Maps!RangesRight, Maps!ExceptionsApart
<1>14. \A m, a : Maps!Promise!Wanted(m, a)' = Maps!Promise!Wanted(m, a)
  BY <1>2 DEF Maps!Promise!Wanted, Maps!Promise!Covers
<1>15. \A i \in 1 .. Len(lines) : lines[i].key.map \in compiled /\ lines[i].key.map # x
  BY <1>5 DEF Maps!LinesRight, Maps!InTurn
<1>16. \A i \in 1 .. Len(lines') : lines'[i].key.map \in compiled'
  <2> SUFFICES ASSUME NEW i \in 1 .. Len(lines') PROVE lines'[i].key.map \in compiled'
    OBVIOUS
  <2>1. CASE i \in 1 .. Len(lines)
    BY <1>2, <1>7, <1>15, <2>1
  <2>2. CASE i \notin 1 .. Len(lines)
    <3>1. PICK j \in 1 .. Len(new) : i = Len(lines) + j
      <4>1. PICK k, n : k = Len(lines) /\ n = Len(new)
        OBVIOUS
      <4>2. k \in Nat /\ n \in Nat /\ i \in 1 .. k + n /\ i \notin 1 .. k
        BY <1>7, <2>2, <4>1
      <4>3. i - k \in 1 .. n /\ i = k + (i - k)
        BY <4>2
      <4> QED
        BY <4>1, <4>3
    <3> QED
      BY <1>2, <1>5, <1>6, <1>7, <3>1
  <2> QED
    BY <2>1, <2>2
<1>17. ASSUME NEW m \in MapName, NEW a \in Maps!Address
       PROVE  Maps!MeantFor(Maps!LinePlaces(m, a), m, a)'
  <2> DEFINE P == LineFor(W, MapName, m, a)
             old == Among(lines, P)
             add == Among(new, P)
  <2>1. /\ \A i \in old : i \in 1 .. Len(lines) /\ lines'[i] = lines[i]
        /\ \A i \in add : lines'[Len(lines) + i] = new[i]
    BY <1>7 DEF Among
  <2>2. Maps!LinesFor(m, a)' = old \cup {Len(lines) + i : i \in add}
    BY <1>8, <1>10
  <2>3. Maps!LinePlaces(m, a)' = {lines[i].to : i \in old} \cup {new[i].to : i \in add}
    BY <2>1, <2>2 DEF Maps!LinePlaces
  <2>4. Maps!LinePlaces(m, a) = {lines[i].to : i \in old}
    BY <1>4 DEF Maps!LinePlaces
  <2>5. CASE m # x
    <3>1. add = {}
      BY <1>6, <2>5 DEF Among, LineFor
    <3>2. Maps!MeantFor(Maps!LinePlaces(m, a), m, a)
      BY <1>5, <2>5 DEF Maps!LinesRight
    <3> QED
      BY <1>14, <2>3, <2>4, <3>1, <3>2 DEF Maps!MeantFor
  <2>6. CASE m = x
    <3>1. old = {}
      BY <1>15, <2>6 DEF Among, LineFor
    <3>2. Maps!MeantFor(Maps!RangePlaces(a), x, a)
      BY <1>2, <1>5, <1>17 DEF Maps!RangesRight
    <3>3. PICK T : T = Maps!Promise!Wanted(x, a)
      OBVIOUS
    <3>4. \A i \in Among(rs, Over(W, a)) : rs[i].to \in T
      BY <1>4, <3>2, <3>3 DEF Maps!MeantFor, Maps!RangePlaces
    <3>5. a \in 0 .. 2 ^ W - 1
      BY DEF Maps!Address
    <3>6. (\A i \in add : new[i].to \in T) /\ (add = {} => Among(rs, Over(W, a)) = {})
      BY <1>6, <2>6, <3>4, <3>5
    <3>7. Maps!RangePlaces(a) = {} <=> Among(rs, Over(W, a)) = {}
      BY <1>4 DEF Maps!RangePlaces
    <3>8. Maps!LinePlaces(m, a)' \subseteq T /\ (Maps!LinePlaces(m, a)' = {} => add = {})
      BY <2>3, <3>1, <3>6
    <3> QED
      BY <1>14, <2>6, <3>2, <3>3, <3>6, <3>7, <3>8 DEF Maps!MeantFor
  <2> QED
    BY <2>5, <2>6
<1>18. Maps!LinesRight'
  BY <1>2, <1>3, <1>16, <1>17 DEF Maps!LinesRight, Maps!Address
<1> QED
  BY <1>9, <1>11, <1>12, <1>13, <1>18

\* Steps that change no map, the death of the compiler among them
LEMMA SameMaps ==
    ASSUME Maps!GeoIInv, current' = current, part' = part \/ part' = "died", compiled' = compiled, rs' = rs,
           lines' = lines, asked' = asked, stage' \in {"compile", "serve"},
           stage' = "serve" => current = "none"
    PROVE  Maps!GeoIInv'
<1> USE DEF Maps!GeoIInv
<1>1. Maps!TypeOK'
  BY MapsTypes, MapsTypesNext
<1>2. Maps!InTurn'
  BY DEF Maps!InTurn, Maps!Promise!Request, Maps!Promise!Kind, Maps!Address
<1>3. Maps!OfCountry'
  BY DEF Maps!OfCountry
<1>4. \A m, a : /\ Maps!Promise!Wanted(m, a)' = Maps!Promise!Wanted(m, a)
                /\ Maps!Promise!Covers("except", m, a)' = Maps!Promise!Covers("except", m, a)
  BY DEF Maps!Promise!Wanted, Maps!Promise!Covers
<1>5. \A a : Maps!Under(a)' = Maps!Under(a) /\ Maps!RangePlaces(a)' = Maps!RangePlaces(a)
  BY DEF Maps!Under, Maps!RangePlaces
<1>6. Maps!RangesRight'
  BY <1>4, <1>5 DEF Maps!RangesRight, Maps!MeantFor, Maps!Address
<1>7. Maps!ExceptionsApart'
  BY <1>4, <1>5 DEF Maps!ExceptionsApart, Maps!Address
<1>8. Maps!LinesRight'
  BY <1>4, SameLines DEF Maps!LinesRight, Maps!MeantFor, Maps!Address
<1> QED
  BY <1>1, <1>2, <1>3, <1>6, <1>7, <1>8

\* Every step of the compiler and of ipdb_get keeps the invariant.
LEMMA MapsStep ==
    ASSUME Maps!GeoIInv, Maps!Next
    PROVE  Maps!GeoIInv'
<1>1. ASSUME NEW m \in MapName, Maps!NextMap(m) PROVE Maps!GeoIInv'
  BY <1>1, NextMapStep
<1>2. ASSUME NEW c \in Country, NEW p \in Place, Maps!MapCountry(c, p) PROVE Maps!GeoIInv'
  BY <1>2, MapCountryStep
<1>3. ASSUME NEW a \in Maps!Address, NEW m \in Maps!Mask, NEW p \in Place, Maps!MapIp(a, m, p)
      PROVE  Maps!GeoIInv'
  BY <1>3, MapIpStep
<1>4. ASSUME NEW a \in Maps!Address, NEW m \in Maps!Mask, NEW p \in Place, Maps!Except(a, m, p)
      PROVE  Maps!GeoIInv'
  BY <1>4, ExceptStep
<1>5. CASE Maps!Emit
  BY <1>5, EmitStep
<1>8. CASE Maps!OneException
  <2>1. stage \in {"compile", "serve"} /\ (stage = "serve" => current = "none")
    BY MapsTypes DEF Maps!GeoIInv, Maps!InTurn
  <2> QED
    BY <1>8, <2>1, SameMaps DEF Maps!OneException
<1>6. CASE Maps!Install
  BY <1>6, SameMaps DEF Maps!Install
<1>7. ASSUME NEW m \in MapName, NEW a \in Maps!Address, Maps!IpdbGet(m, a) PROVE Maps!GeoIInv'
  <2>1. stage' \in {"compile", "serve"} /\ (stage' = "serve" => current = "none")
    BY <1>7 DEF Maps!IpdbGet, Maps!GeoIInv, Maps!InTurn
  <2> QED
    BY <1>7, <2>1, SameMaps DEF Maps!IpdbGet
<1> QED
  BY <1>1, <1>2, <1>3, <1>4, <1>5, <1>6, <1>7, <1>8 DEF Maps!Next, Maps!Compile

\* ipdb_get tries every mask but 0.
LEMMA EveryMaskTried ==
    /\ Len(Maps!MaskOrder) = 32
    /\ \A m \in 1 .. 32 : \E k \in 1 .. 32 : Maps!MaskOrder[k] = m
<1>1. Len(Maps!MaskOrder) = 32
  BY DEF Maps!MaskOrder
<1>2. ASSUME NEW m \in 1 .. 32 PROVE \E k \in 1 .. 32 : Maps!MaskOrder[k] = m
  BY DEF Maps!MaskOrder
<1> QED
  BY <1>1, <1>2

\* The least of some indexes, or 0 when there is none
LEMMA Earliest ==
    ASSUME NEW n \in Nat, NEW I \in SUBSET (1 .. n), NEW r,
           r = IF I # {} THEN CHOOSE x \in I : \A y \in I : x =< y ELSE 0
    PROVE  (r = 0 <=> I = {}) /\ (r # 0 => r \in I)
<1>1. I \in SUBSET Nat /\ IsFiniteSet(I) /\ 0 \notin I
  <2>1. IsFiniteSet(1 .. n)
    BY FS_Interval
  <2>2. IsFiniteSet(I)
    BY <2>1, FS_Subset
  <2> QED
    BY <2>2
<1>2. I # {} => \E i \in I : \A k \in I : i <= k
  BY <1>1, Least
<1>3. I # {} => r \in I
  BY <1>2
<1> QED
  BY <1>1, <1>3

\* cdb_find yields a line for the address.
LEMMA StoredFacts ==
    ASSUME Maps!TypeOK, NEW m, NEW a, NEW mask
    PROVE  /\ Maps!Stored(m, a, mask) # 0 => Maps!Stored(m, a, mask) \in Maps!LinesFor(m, a)
           /\ Maps!Stored(m, a, mask) = 0 =>
                \A i \in Maps!LinesFor(m, a) : lines[i].key.mask # mask
<1> DEFINE sought == [map |-> m, net |-> Maps!Net(a, mask), mask |-> mask]
           I == {i \in 1 .. Len(lines) : lines[i].key = sought}
<1>1. Maps!Stored(m, a, mask) = IF I # {} THEN CHOOSE x \in I : \A y \in I : x =< y ELSE 0
  BY DEF Maps!Stored, Maps!SelectInSeq, Maps!Min
<1>2. lines \in Seq(LineIn(W, MapName)) /\ Len(lines) \in Nat
  BY MapsNow
<1>3. (Maps!Stored(m, a, mask) = 0 <=> I = {}) /\ (Maps!Stored(m, a, mask) # 0 => Maps!Stored(m, a, mask) \in I)
  <2>1. I \in SUBSET (1 .. Len(lines))
    OBVIOUS
  <2> HIDE DEF I
  <2> QED
    BY <1>1, <1>2, <2>1, Earliest
<1>4. \A i \in 1 .. Len(lines) : lines[i].key \in [map : MapName, net : 0 .. 2 ^ W - 1, mask : 32 - W .. 32]
  <2>1. \A i \in 1 .. Len(lines) : lines[i] \in AnyLineIn(W, MapName)
    BY <1>2 DEF LineIn
  <2> QED
    BY <2>1 DEF AnyLineIn
<1>5. I = {i \in Maps!LinesFor(m, a) : lines[i].key.mask = mask}
  BY <1>4 DEF Maps!LinesFor
<1> QED
  BY <1>3, <1>5

\* ipdb_get answers from a line for the address, whenever there is one.
LEMMA FirstHitFacts ==
    ASSUME Maps!TypeOK, NEW m, NEW a
    PROVE  LET hit == Maps!FirstHit(m, a)
               place == lines[Maps!Stored(m, a, Maps!MaskOrder[hit])].to
           IN  /\ hit = 0 => Maps!LinePlaces(m, a) = {}
               /\ hit # 0 => place \in Maps!LinePlaces(m, a)
<1> DEFINE order == Maps!MaskOrder
           hit == Maps!FirstHit(m, a)
           I == {k \in 1 .. Len(order) : order[k] \in Maps!Mask /\ Maps!Stored(m, a, order[k]) # 0}
<1>1. hit = IF I # {} THEN CHOOSE x \in I : \A y \in I : x =< y ELSE 0
  BY DEF Maps!FirstHit, Maps!SelectInSeq, Maps!Min
<1>2. (hit = 0 <=> I = {}) /\ (hit # 0 => hit \in I)
  <2>1. I \in SUBSET (1 .. 32) /\ 32 \in Nat
    BY EveryMaskTried
  <2> HIDE DEF I, hit
  <2> QED
    BY <1>1, <2>1, Earliest
<1> HIDE DEF hit, order
<1>3. ASSUME hit = 0 PROVE Maps!LinePlaces(m, a) = {}
  <2>1. ASSUME NEW i \in Maps!LinesFor(m, a) PROVE FALSE
    <3>1. PICK x : x = lines[i].key.mask
      OBVIOUS
    <3>2. x \in 32 - W .. 32
      <4>1. i \in 1 .. Len(lines) /\ lines \in Seq(LineIn(W, MapName))
        BY MapsNow DEF Maps!LinesFor
      <4>2. lines[i] \in AnyLineIn(W, MapName)
        BY <4>1 DEF LineIn
      <4> QED
        BY <3>1, <4>2 DEF AnyLineIn
    <3>3. W \in Nat /\ W <= 31
      BY Bits
    <3>4. x \in 1 .. 32 /\ x \in Maps!Mask
      BY <3>2, <3>3 DEF Maps!Mask
    <3>5. PICK k \in 1 .. Len(order) : order[k] = x
      BY <3>4, EveryMaskTried DEF order
    <3>6. Maps!Stored(m, a, x) = 0
      BY <1>2, <1>3, <3>4, <3>5
    <3> QED
      BY <3>1, <3>6, StoredFacts
  <2> QED
    BY <2>1 DEF Maps!LinePlaces
<1>4. ASSUME hit # 0 PROVE lines[Maps!Stored(m, a, order[hit])].to \in Maps!LinePlaces(m, a)
  <2>1. Maps!Stored(m, a, order[hit]) # 0
    BY <1>2, <1>4
  <2>2. Maps!Stored(m, a, order[hit]) \in Maps!LinesFor(m, a)
    BY <2>1, StoredFacts
  <2> QED
    BY <2>2 DEF Maps!LinePlaces
<1> QED
  BY <1>3, <1>4 DEF hit, order

\* A request is one the promise allows.
LEMMA AskStep ==
    ASSUME Maps!GeoIInv, current # "none", NEW kind \in {"mapit", "except"},
           NEW R \in SUBSET Maps!Address, NEW p \in Place, Maps!Asked(kind, R, p),
           stage' = stage, answer' = answer
    PROVE  Maps!Promise!Next
<1> DEFINE q == [kind |-> kind, map |-> current, range |-> R, to |-> p]
<1>1. asked' = Append(asked, q) /\ asked \in Seq(Maps!Promise!Request)
  BY DEF Maps!Asked, Maps!GeoIInv, Maps!InTurn
<1>2. q \in Maps!Promise!Request
  <2>1. current \in MapName
    BY MapsTypes DEF Maps!GeoIInv
  <2> QED
    BY <2>1 DEF Maps!Promise!Request, Maps!Promise!Kind
<1> HIDE DEF q
<1>3. asked' # <<>> /\ asked'[Len(asked')] = q
  <2>1. Len(asked') = Len(asked) + 1 /\ Len(asked) \in Nat /\ asked'[Len(asked) + 1] = q
    BY <1>1, <1>2
  <2> QED
    BY <2>1
<1>4. stage # "serve"
  BY DEF Maps!GeoIInv, Maps!InTurn
<1>5. Maps!Promise!Ask
  BY <1>1, <1>2, <1>3, <1>4 DEF Maps!Promise!Ask
<1> QED
  BY <1>5 DEF Maps!Promise!Next

\* IpdbGet: the place answered is one that is wanted.
LEMMA LookupStep ==
    ASSUME Maps!GeoIInv, NEW m \in MapName, NEW a \in Maps!Address, Maps!IpdbGet(m, a)
    PROVE  Maps!Promise!Next
<1>1. PICK p : answer' = <<m, a, p>> /\ p = IF Maps!FirstHit(m, a) = 0 THEN NoMatch
                 ELSE lines[Maps!Stored(m, a, Maps!MaskOrder[Maps!FirstHit(m, a)])].to
  BY DEF Maps!IpdbGet
<1>2. stage = "serve" /\ stage' = stage /\ asked' = asked /\ current = "none" /\ m # current
  BY IpDbConstants DEF Maps!IpdbGet, Maps!GeoIInv, Maps!InTurn, Maps!IpDbConstants
<1>3. Maps!MeantFor(Maps!LinePlaces(m, a), m, a)
  BY <1>2 DEF Maps!GeoIInv, Maps!LinesRight
<1>4. p \in Maps!Promise!Wanted(m, a)
  <2>1. Maps!TypeOK
    BY DEF Maps!GeoIInv
  <2>2. /\ Maps!FirstHit(m, a) = 0 => Maps!LinePlaces(m, a) = {}
        /\ Maps!FirstHit(m, a) # 0 =>
             lines[Maps!Stored(m, a, Maps!MaskOrder[Maps!FirstHit(m, a)])].to \in Maps!LinePlaces(m, a)
    BY <2>1, FirstHitFacts
  <2> QED
    BY <1>1, <1>3, <2>2 DEF Maps!MeantFor
<1>5. Maps!Promise!Lookup(m, a)
  BY <1>1, <1>2, <1>4 DEF Maps!Promise!Lookup
<1> QED
  BY <1>5 DEF Maps!Promise!Next

\* Every step is one of the promise, or none of its business.
LEMMA PromiseStep ==
    ASSUME Maps!GeoIInv, Maps!Next
    PROVE  Maps!Promise!Next \/ UNCHANGED Maps!Promise!vars
<1>1. ASSUME NEW m \in MapName, Maps!NextMap(m) PROVE UNCHANGED Maps!Promise!vars
  BY <1>1 DEF Maps!NextMap, Maps!Promise!vars
<1>2. ASSUME NEW c \in Country, NEW p \in Place, Maps!MapCountry(c, p) PROVE Maps!Promise!Next
  <2>1. PICK R : R = UNION {Geo[c][i][1] .. Geo[c][i][2] : i \in 1 .. Len(Geo[c])}
    OBVIOUS
  <2>2. R \in SUBSET Maps!Address
    BY <2>1, CountryRange
  <2>3. /\ current # "none" /\ Maps!Asked("mapit", R, p) /\ stage' = stage /\ answer' = answer
    BY <1>2, <2>1 DEF Maps!MapCountry
  <2> QED
    BY <2>2, <2>3, AskStep
<1>3. ASSUME NEW a \in Maps!Address, NEW m \in Maps!Mask, NEW p \in Place,
             Maps!MapIp(a, m, p) \/ Maps!Except(a, m, p)
      PROVE  Maps!Promise!Next
  <2>1. <<a, m>> \in ClassesIn(W) /\ W \in Nat
    BY Bits DEF Maps!Address, Maps!Mask, ClassesIn
  <2>2. RangeOf(a, m) \in SUBSET Maps!Address
    BY <2>1, ClassFacts DEF Maps!Address
  <2>3. /\ current # "none" /\ stage' = stage /\ answer' = answer
        /\ \E kind \in {"mapit", "except"} : Maps!Asked(kind, RangeOf(a, m), p)
    BY <1>3 DEF Maps!MapIp, Maps!Except, RangeOf
  <2> QED
    BY <2>2, <2>3, AskStep
<1>4. CASE Maps!Emit \/ Maps!OneException
  BY <1>4 DEF Maps!Emit, Maps!OneException, Maps!Promise!vars
<1>5. CASE Maps!Install
  BY <1>5 DEF Maps!Install, Maps!Promise!Next, Maps!Promise!Seal
<1>6. ASSUME NEW m \in MapName, NEW a \in Maps!Address, Maps!IpdbGet(m, a) PROVE Maps!Promise!Next
  BY <1>6, LookupStep
<1> QED
  BY <1>1, <1>2, <1>3, <1>4, <1>5, <1>6 DEF Maps!Next, Maps!Compile

\* A cut of whatever entries
LEMMA WidePieces == \A t, e : Wide!Pieces(t, e) = Maps!Pieces(t, e)
  BY DEF Wide!Pieces, Maps!Pieces, Wide!Entry, Maps!Entry

LEMMA WideExcept == \A s, e : Wide!ChkExceptMatch(s, e) = Maps!ChkExceptMatch(s, e)
  BY WidePieces, SameHelpers DEF Wide!ChkExceptMatch, Maps!ChkExceptMatch

\* A class, among the numbers of four bits
LEMMA WideClass ==
    ASSUME NEW a \in Wide!Address, NEW m \in Wide!Mask, NEW p \in Place
    PROVE  /\ Wide!Entry(Wide!Net(a, m), Wide!Net(a, m) + Wide!Size(m) - 1, p, Block) = Class(a, m, p)
           /\ Class(a, m, p) \in EntryIn(4) /\ Class(a, m, p).of = Block
<1>1. Wide!Entry(Wide!Net(a, m), Wide!Net(a, m) + Wide!Size(m) - 1, p, Block) = Class(a, m, p)
  BY DEF Wide!Entry, Maps!Entry, Class, Wide!Net, Maps!Net, Wide!Size, Maps!Size
<1>2. 4 \in Nat /\ <<a, m>> \in ClassesIn(4)
  BY DEF Wide!Address, Wide!Mask, ClassesIn
<1> QED
  BY <1>1, <1>2, ClassFacts

\* The compilation keeps its types, among the numbers of four bits.
LEMMA WideStep ==
    ASSUME Wide!TypeOK, Wide!Compile
    PROVE  Wide!TypeOK'
<1>1. /\ current \in {m1} \cup {"none"} /\ part \in {"mapits", "exception", "exceptions", "died"}
      /\ compiled \subseteq {m1} /\ rs \in Seq(EntryIn(4)) /\ lines \in Seq(LineIn(4, {m1}))
      /\ stage \in {"compile", "serve"}
  BY WideTypes
<1>2. 4 \in Nat
  OBVIOUS
<1>3. ASSUME NEW m \in {m1}, Wide!NextMap(m) PROVE Wide!TypeOK'
  BY <1>1, <1>3, WideTypesNext DEF Wide!NextMap
<1>4. ASSUME NEW c \in Country, NEW p \in Place, Wide!MapCountry(c, p) PROVE Wide!TypeOK'
  <2>1. rs' = Moved(rs, c, p) \o Named(GeoWide[c], c, p)
    BY <1>4 DEF Wide!MapCountry, Moved, Named, Wide!Entry, Maps!Entry
  <2>2. Moved(rs, c, p) \in Seq(EntryIn(4))
    BY <1>1, <1>2, MovedFacts
  <2>3. Named(GeoWide[c], c, p) \in Seq(EntryIn(4))
    BY <1>2, RangesTyped, NamedFacts
  <2>4. rs' \in Seq(EntryIn(4))
    BY <2>1, <2>2, <2>3
  <2> QED
    BY <1>1, <1>4, <2>4, WideTypesNext DEF Wide!MapCountry
<1>5. ASSUME NEW a \in Wide!Address, NEW m \in Wide!Mask, NEW p \in Place, Wide!MapIp(a, m, p)
      PROVE  Wide!TypeOK'
  <2>1. rs' = Append(rs, Class(a, m, p)) /\ Class(a, m, p) \in EntryIn(4)
    BY <1>5, WideClass DEF Wide!MapIp
  <2>2. rs' \in Seq(EntryIn(4))
    BY <1>1, <2>1
  <2> QED
    BY <1>1, <1>5, <2>2, WideTypesNext DEF Wide!MapIp
<1>6. ASSUME NEW a \in Wide!Address, NEW m \in Wide!Mask, NEW p \in Place, Wide!Except(a, m, p)
      PROVE  Wide!TypeOK'
  <2>1. PICK e : e = Class(a, m, p)
    OBVIOUS
  <2>2. rs' = ExceptIn(rs, e) /\ e \in EntryIn(4) /\ e.of = Block
    BY <1>6, <2>1, WideClass, WideExcept DEF Wide!Except, ExceptIn
  <2>5. part' \in {"exception", "exceptions"}
    BY <1>6 DEF Wide!Except, Wide!NextExcept
  <2>3. ExceptMade(4, rs, e, rs')
    BY <1>1, <1>2, <2>2, ExceptAdds
  <2>4. rs' \in Seq(EntryIn(4))
    BY <2>3 DEF ExceptMade
  <2> QED
    BY <1>1, <1>6, <2>4, <2>5, WideTypesNext DEF Wide!Except
<1>7. CASE Wide!Emit
  <2>1. PICK new : new = FlattenSeq([i \in 1 .. Len(rs) |-> LinesIn(4, Reverse(rs)[i])])
    OBVIOUS
  <2>2. /\ current # "none" /\ lines' = lines \o new /\ rs' = <<>>
        /\ compiled' = compiled \cup {current} /\ current' = "none"
        /\ part' = part /\ stage' = stage
    BY <1>7, <2>1, LinesOfWide, SameHelpers DEF Wide!Emit
  <2>3. current \in {m1}
    BY <1>1, <2>2
  <2>4. FlattenSeq([i \in 1 .. Len(rs) |-> LinesIn(4, Reverse(rs)[i])]) \in Seq(LineIn(4, {m1}))
    BY <1>1, <1>2, <2>3, LinesWritten
  <2>5. lines' \in Seq(LineIn(4, {m1})) /\ rs' \in Seq(EntryIn(4)) /\ compiled' \subseteq {m1}
    BY <1>1, <2>1, <2>2, <2>3, <2>4
  <2> QED
    BY <1>1, <2>2, <2>5, WideTypesNext
<1>8. CASE Wide!OneException
  BY <1>1, <1>8, WideTypesNext DEF Wide!OneException
<1> QED
  BY <1>3, <1>4, <1>5, <1>6, <1>7, <1>8 DEF Wide!Compile

-----------------------------------------------------------------------------
(* The theorems about the run's data                                        *)

LEMMA MapsInit == Maps!Init => Maps!GeoIInv
<1> SUFFICES ASSUME Maps!Init PROVE Maps!GeoIInv
  OBVIOUS
<1>1. /\ current = "none" /\ part = "mapits" /\ compiled = {} /\ rs = <<>> /\ lines = <<>>
      /\ stage = "compile" /\ asked = <<>>
  BY DEF Maps!Init
<1>2. Maps!TypeOK
  BY <1>1, MapsTypes
<1>3. Maps!InTurn /\ Maps!OfCountry /\ Maps!RangesRight /\ Maps!ExceptionsApart
  BY <1>1 DEF Maps!InTurn, Maps!OfCountry, Maps!RangesRight, Maps!ExceptionsApart
<1>4. Maps!LinesRight
  <2>1. \A m, a : Maps!Promise!Wanted(m, a) = {NoMatch}
    BY <1>1, NothingAsked
  <2>2. \A m, a : Maps!LinePlaces(m, a) = {}
    BY <1>1 DEF Maps!LinePlaces, Maps!LinesFor
  <2> QED
    BY <1>1, <2>1, <2>2 DEF Maps!LinesRight, Maps!MeantFor
<1> QED
  BY <1>2, <1>3, <1>4 DEF Maps!GeoIInv

LEMMA WideInit == Wide!Init => Wide!TypeOK
<1> SUFFICES ASSUME Wide!Init PROVE Wide!TypeOK
  OBVIOUS
<1>1. /\ current = "none" /\ part = "mapits" /\ compiled = {} /\ rs = <<>> /\ lines = <<>>
      /\ stage = "compile"
  BY DEF Wide!Init
<1> QED
  BY <1>1, WideTypes

\* The invariant of all three parts
DataVars == <<which, vars, mapVars, asked, askedWide>>

DataInv ==
    /\ which \in {"cdb", "maps", "wide"}
    /\ CdbInv
    /\ which = "maps" => Maps!GeoIInv
    /\ which = "wide" => Wide!TypeOK

\* cdb_make.c, db.pm, ip4.pm, ipdb.c: each structure keeps its inductive invariant:
\* the tables hold the records, ranges and lines give an address the places it is
\* meant to have and no others, and sequences have elements of their types.
THEOREM DataInvariance == DataSpec => []DataInv
<1>1. DataInit => DataInv
  BY InvInit, MapsInit, WideInit DEF DataInit, DataInv
<1>2. ASSUME DataInv, [CdbOnly \/ MapsOnly \/ WideOnly]_DataVars
      PROVE  DataInv'
  <2> USE DEF DataInv
  <2>1. [Next]_vars
    BY <1>2 DEF CdbOnly, MapsOnly, WideOnly, DataVars
  <2>2. CdbInv'
    BY <1>2, <2>1, CdbStep
  <2>3. which' = which
    BY <1>2 DEF CdbOnly, MapsOnly, WideOnly, DataVars
  <2>4. ASSUME which = "maps" PROVE Maps!GeoIInv'
    <3>1. CASE MapsOnly
      BY <1>2, <2>4, <3>1, MapsStep DEF MapsOnly
    <3>2. CASE UNCHANGED DataVars
      <4>1. stage \in {"compile", "serve"} /\ (stage = "serve" => current = "none")
        BY <1>2, <2>4, MapsTypes DEF Maps!GeoIInv, Maps!InTurn
      <4>2. /\ current' = current /\ part' = part /\ compiled' = compiled /\ rs' = rs
            /\ lines' = lines /\ asked' = asked /\ stage' = stage
        BY <3>2 DEF DataVars, mapVars
      <4> QED
        BY <1>2, <2>4, <4>1, <4>2, SameMaps
    <3> QED
      BY <1>2, <2>4, <3>1, <3>2 DEF CdbOnly, WideOnly
  <2>5. ASSUME which = "wide" PROVE Wide!TypeOK'
    <3>1. CASE WideOnly
      BY <1>2, <2>5, <3>1, WideStep DEF WideOnly
    <3>2. CASE UNCHANGED DataVars
      BY <1>2, <2>5, <3>2, WideTypes, WideTypesNext DEF DataVars, mapVars
    <3> QED
      BY <1>2, <2>5, <3>1, <3>2 DEF CdbOnly, MapsOnly
  <2> QED
    BY <1>2, <2>2, <2>3, <2>4, <2>5
<1> QED
  BY <1>1, <1>2, PTL DEF DataSpec, DataVars

\* db.pm, cdb_make.c: every part of a database keeps its form.
THEOREM DataTypesCorrect == DataSpec => []DataTypeOK
<1>1. DataInv => DataTypeOK
  BY DEF DataInv, DataTypeOK, CdbInv, Maps!GeoIInv
<1> QED
  BY <1>1, DataInvariance, PTL

\* chk_except_match, ip4_tocidr and cdb_make_finish, for any number of requests,
\* ranges and records: an address under an exception is in one range only, a range
\* is cut into the fewest blocks, and every record is found.
THEOREM DataSoundness == DataSpec => []DataIsSound
<1>1. ASSUME DataInv PROVE DataIsSound
  <2>1. FileInStep /\ EveryRecordReachable
    BY <1>1, Reachable DEF DataInv, CdbInv, InStep, FileInStep
  <2>2. which = "maps" => Maps!ExceptionsApart
    BY <1>1 DEF DataInv, Maps!GeoIInv
  <2>3. which = "wide" => Wide!FewestBlocks
    BY <1>1, WideTypes, WideFewest DEF DataInv
  <2> QED
    BY <2>1, <2>2, <2>3 DEF DataIsSound
<1> QED
  BY <1>1, DataInvariance, PTL

\* db.pm, ip4.pm, ipdb.c, for maps of any size: whatever ipmaps.xml asks for,
\* ipdb_get gives an address a place that it was meant to have.
THEOREM GeoMapRefinement == DataSpec => ImplementsGeoMap
<1>1. DataInit => Maps!Promise!Init
  BY DEF DataInit, Maps!Init, Maps!Promise!Init
<1>2. ASSUME DataInv, [CdbOnly \/ MapsOnly \/ WideOnly]_DataVars
      PROVE  [Maps!Promise!Next]_Maps!Promise!vars
  <2>1. CASE MapsOnly
    BY <1>2, <2>1, PromiseStep DEF MapsOnly, DataInv
  <2>2. CASE CdbOnly
    BY <2>2 DEF CdbOnly, mapVars, Maps!Promise!vars
  <2>3. CASE WideOnly
    <3>1. asked' = asked /\ Wide!Compile
      BY <2>3 DEF WideOnly
    <3>2. stage' = stage /\ answer' = answer
      BY <3>1 DEF Wide!Compile, Wide!NextMap, Wide!MapCountry, Wide!MapIp, Wide!Except, Wide!Emit,
         Wide!OneException
    <3> QED
      BY <3>1, <3>2 DEF Maps!Promise!vars
  <2>4. CASE UNCHANGED DataVars
    BY <2>4 DEF DataVars, mapVars, Maps!Promise!vars
  <2> QED
    BY <1>2, <2>1, <2>2, <2>3, <2>4
<1> QED
  BY <1>1, <1>2, DataInvariance, PTL
     DEF DataSpec, DataVars, Maps!Promise!Spec, Maps!ImplementsGeoMap, ImplementsGeoMap
=============================================================================
