---------------------------- MODULE OrderProofs -----------------------------
(***************************************************************************)
(* What the proofs about sequences share: what InOrder and Kept give, what     *)
(* follows step by step (induction from the least number of a finite set),    *)
(* and what joining sequences gives.                                         *)
(***************************************************************************)
EXTENDS Order, SequencesExt, FiniteSetTheorems, SequenceTheorems, TLAPS

-----------------------------------------------------------------------------
(* InOrder and Kept                                                         *)

\* The elements of S below i, and how many they are
Below(S, i) == {j \in S : j < i}
Rank(S, i) == Cardinality(Below(S, i))

\* Ranks count the elements below, and tell them apart.
LEMMA Ranks ==
    ASSUME NEW S \in SUBSET Nat, IsFiniteSet(S)
    PROVE  /\ Cardinality(S) \in Nat
           /\ \A i \in S : Rank(S, i) \in 0 .. Cardinality(S) - 1
           /\ \A i, k \in S : i < k => Rank(S, i) < Rank(S, k)
<1>1. Cardinality(S) \in Nat
  BY FS_CardinalityType
<1>2. ASSUME NEW T, IsFiniteSet(T), NEW i \in S, Below(S, i) \cup {i} \in SUBSET T
      PROVE  Rank(S, i) \in Nat /\ Rank(S, i) + 1 <= Cardinality(T)
  <2>1. IsFiniteSet(Below(S, i)) /\ i \notin Below(S, i)
    BY FS_Subset DEF Below
  <2>2. Cardinality(Below(S, i) \cup {i}) = Cardinality(Below(S, i)) + 1
    BY <2>1, FS_AddElement
  <2>3. Cardinality(Below(S, i) \cup {i}) <= Cardinality(T)
    BY <1>2, FS_Subset
  <2> QED
    BY <2>1, <2>2, <2>3, FS_CardinalityType DEF Rank
<1>3. ASSUME NEW i \in S
      PROVE  Rank(S, i) \in 0 .. Cardinality(S) - 1
  <2>1. Below(S, i) \cup {i} \in SUBSET S
    BY DEF Below
  <2>2. Rank(S, i) \in Nat /\ Rank(S, i) + 1 <= Cardinality(S)
    BY <1>2, <2>1
  <2> QED
    BY <1>1, <2>2
<1>4. ASSUME NEW i \in S, NEW k \in S, i < k
      PROVE  Rank(S, i) < Rank(S, k)
  <2>1. Below(S, i) \cup {i} \in SUBSET Below(S, k)
    <3>1. i \in Nat /\ k \in Nat /\ \A j \in S : j \in Nat
      OBVIOUS
    <3>2. \A j \in S : j < i => j < k
      BY <1>4, <3>1
    <3> QED
      BY <1>4, <3>2 DEF Below
  <2>2. IsFiniteSet(Below(S, k))
    BY FS_Subset DEF Below
  <2>3. Rank(S, i) \in Nat /\ Rank(S, i) + 1 <= Rank(S, k)
    BY <1>2, <2>1, <2>2 DEF Rank
  <2>4. Rank(S, k) \in Nat
    BY <1>3, <1>1
  <2> QED
    BY <2>3, <2>4
<1> QED
  BY <1>1, <1>3, <1>4

\* InOrder(S) lists S without a repetition, the smaller before the larger.
LEMMA Ordered ==
    ASSUME NEW S \in SUBSET Nat, IsFiniteSet(S)
    PROVE  /\ Cardinality(S) \in Nat
           /\ InOrder(S) \in Seq(S)
           /\ Len(InOrder(S)) = Cardinality(S)
           /\ \A i \in S : \E k \in 1 .. Cardinality(S) : InOrder(S)[k] = i
           /\ \A k, l \in 1 .. Cardinality(S) :
                k < l => InOrder(S)[k] < InOrder(S)[l]
           /\ \A k \in 1 .. Cardinality(S) : Rank(S, InOrder(S)[k]) = k - 1
<1> DEFINE n == Cardinality(S)
           rank == [i \in S |-> Rank(S, i) + 1]
<1>1. n \in Nat
  BY Ranks
<1>2. rank \in [S -> 1 .. n] /\ \A i \in S : rank[i] = Rank(S, i) + 1
  BY <1>1, Ranks
<1>3. ASSUME NEW i \in S, NEW k \in S, Rank(S, i) = Rank(S, k)
      PROVE  i = k
  <2>1. Rank(S, i) \in Nat /\ ~(Rank(S, i) < Rank(S, k)) /\ ~(Rank(S, k) < Rank(S, i))
    BY <1>1, <1>3, Ranks
  <2>2. ~(i < k) /\ ~(k < i)
    BY <2>1, Ranks
  <2> QED
    BY <2>2
<1>4. rank \in Injection(S, 1 .. n)
  <2>1. \A i, k \in S : rank[i] = rank[k] => Rank(S, i) = Rank(S, k)
    BY <1>1, <1>2, Ranks
  <2> HIDE DEF rank
  <2> QED
    BY <1>2, <1>3, <2>1 DEF Injection, IsInjective
<1>5. IsFiniteSet(1 .. n) /\ Cardinality(1 .. n) = n
  BY <1>1, FS_Interval
<1>6. rank \in Surjection(S, 1 .. n)
  BY <1>4, <1>5, FS_Injection
<1> HIDE DEF rank
<1>7. \A k \in 1 .. n : \E i \in S : Rank(S, i) = k - 1
  <2>1. \A k \in 1 .. n : \E i \in S : rank[i] = k
    BY <1>6 DEF Surjection
  <2> QED
    BY <1>1, <1>2, <2>1, Ranks
<1>8. \A k \in 1 .. n : InOrder(S)[k] \in S /\ Rank(S, InOrder(S)[k]) = k - 1
  <2>1. \A k \in 1 .. n : InOrder(S)[k] = CHOOSE i \in S : Rank(S, i) = k - 1
    BY DEF InOrder, Rank, Below
  <2> QED
    BY <1>7, <2>1
<1>9. InOrder(S) \in Seq(S) /\ Len(InOrder(S)) = n
  <2>1. InOrder(S) \in [1 .. n -> S]
    BY <1>8 DEF InOrder
  <2> QED
    BY <1>1, <2>1
<1>10. ASSUME NEW i \in S
       PROVE  \E k \in 1 .. n : InOrder(S)[k] = i
  <2>1. rank[i] \in 1 .. n /\ rank[i] - 1 = Rank(S, i)
    BY <1>1, <1>2, Ranks
  <2>2. InOrder(S)[rank[i]] \in S /\ Rank(S, InOrder(S)[rank[i]]) = Rank(S, i)
    BY <1>8, <2>1
  <2>3. InOrder(S)[rank[i]] = i
    BY <1>3, <2>2
  <2> QED
    BY <2>1, <2>3
<1>11. ASSUME NEW k \in 1 .. n, NEW l \in 1 .. n, k < l
       PROVE  InOrder(S)[k] < InOrder(S)[l]
  <2>1. PICK x \in S : x = InOrder(S)[k] /\ Rank(S, x) = k - 1
    BY <1>8
  <2>2. PICK y \in S : y = InOrder(S)[l] /\ Rank(S, y) = l - 1
    BY <1>8
  <2>3. Rank(S, x) < Rank(S, y) /\ Rank(S, x) \in Int /\ Rank(S, y) \in Int
    BY <1>1, <1>11, <2>1, <2>2
  <2>4. x # y /\ ~(y < x)
    BY <2>3, Ranks
  <2>5. x \in Nat /\ y \in Nat
    OBVIOUS
  <2> QED
    BY <2>1, <2>2, <2>4, <2>5
<1> QED
  BY <1>1, <1>8, <1>9, <1>10, <1>11

\* Kept(s, T) has what s has of T, once if s has it once.
LEMMA KeptFacts ==
    ASSUME NEW A, NEW s \in Seq(A), NEW T
    PROVE  /\ Kept(s, T) \in Seq(A)
           /\ ToSet(Kept(s, T)) = ToSet(s) \cap T
           /\ IsInjective(s) => IsInjective(Kept(s, T))
<1> DEFINE P == {i \in DOMAIN s : s[i] \in T}
           places == InOrder(P)
           n == Cardinality(P)
<1>1. Len(s) \in Nat /\ DOMAIN s = 1 .. Len(s) /\ \A i \in 1 .. Len(s) : s[i] \in A
  OBVIOUS
<1>2. P \in SUBSET Nat /\ P \in SUBSET (1 .. Len(s)) /\ \A i \in P : s[i] \in T
  BY <1>1
<1>3. IsFiniteSet(P)
  <2>1. IsFiniteSet(1 .. Len(s))
    BY <1>1, FS_Interval
  <2> QED
    BY <1>2, <2>1, FS_Subset
<1> HIDE DEF P
<1>4. /\ n \in Nat /\ places \in Seq(P) /\ Len(places) = n
      /\ \A i \in P : \E k \in 1 .. n : places[k] = i
      /\ \A k, l \in 1 .. n : k < l => places[k] < places[l]
  BY <1>2, <1>3, Ordered
<1>5. Kept(s, T) = [k \in DOMAIN places |-> s[places[k]]]
  BY DEF Kept, P
<1> HIDE DEF n, places
<1>6. DOMAIN places = 1 .. n /\ \A k \in 1 .. n : places[k] \in P
  BY <1>4
<1>7. Kept(s, T) \in [1 .. n -> A] /\ \A k \in 1 .. n : Kept(s, T)[k] = s[places[k]]
  BY <1>1, <1>2, <1>5, <1>6
<1>8. Kept(s, T) \in Seq(A) /\ DOMAIN Kept(s, T) = 1 .. n
  BY <1>4, <1>7
<1>9. ToSet(Kept(s, T)) = ToSet(s) \cap T
  <2>1. \A i \in P : s[i] \in ToSet(Kept(s, T))
    <3> TAKE i \in P
    <3>1. PICK k \in 1 .. n : places[k] = i
      BY <1>4
    <3>2. Kept(s, T)[k] = s[i] /\ k \in DOMAIN Kept(s, T)
      BY <1>7, <1>8, <3>1
    <3> QED
      BY <3>2 DEF ToSet
  <2>2. \A x \in ToSet(Kept(s, T)) : \E i \in P : x = s[i]
    BY <1>6, <1>7, <1>8 DEF ToSet
  <2>3. \A x \in ToSet(s) \cap T : \E i \in P : x = s[i]
    BY DEF ToSet, P
  <2>4. \A i \in P : s[i] \in ToSet(s) \cap T
    BY DEF ToSet, P
  <2> QED
    BY <2>1, <2>2, <2>3, <2>4
<1>10. ASSUME IsInjective(s)
       PROVE  IsInjective(Kept(s, T))
  <2> SUFFICES ASSUME NEW k \in 1 .. n, NEW l \in 1 .. n, s[places[k]] = s[places[l]]
               PROVE  k = l
    BY <1>7, <1>8 DEF IsInjective
  <2>1. places[k] \in DOMAIN s /\ places[l] \in DOMAIN s
    BY <1>1, <1>2, <1>6
  <2>2. places[k] = places[l] /\ places[k] \in Nat
    BY <1>1, <1>10, <2>1 DEF IsInjective
  <2>3. ~(k < l) /\ ~(l < k)
    BY <1>4, <2>2
  <2> QED
    BY <1>4, <2>3
<1> QED
  BY <1>8, <1>9, <1>10

-----------------------------------------------------------------------------
(* Step by step                                                             *)

\* Of the numbers of a set one is the least.
LEMMA Least ==
    ASSUME NEW S \in SUBSET Nat, IsFiniteSet(S), S # {}
    PROVE  \E i \in S : \A k \in S : i <= k
<1>1. /\ Cardinality(S) \in Nat /\ InOrder(S) \in Seq(S)
      /\ Len(InOrder(S)) = Cardinality(S)
      /\ \A i \in S : \E k \in 1 .. Cardinality(S) : InOrder(S)[k] = i
      /\ \A k, l \in 1 .. Cardinality(S) : k < l => InOrder(S)[k] < InOrder(S)[l]
  BY Ordered
<1>2. 1 \in 1 .. Cardinality(S)
  <2>1. PICK i \in S : TRUE
    OBVIOUS
  <2>2. PICK k \in 1 .. Cardinality(S) : InOrder(S)[k] = i
    BY <1>1, <2>1
  <2> QED
    BY <1>1, <2>2
<1>3. InOrder(S)[1] \in S
  BY <1>1, <1>2, ElementOfSeq
<1>4. \A h \in S : InOrder(S)[1] <= h
  <2> TAKE h \in S
  <2>1. PICK k \in 1 .. Cardinality(S) : InOrder(S)[k] = h
    BY <1>1
  <2>2. k = 1 \/ InOrder(S)[1] < h
    BY <1>1, <1>2, <2>1
  <2>3. h \in Nat /\ InOrder(S)[1] \in Nat
    BY <1>3
  <2> HIDE DEF InOrder
  <2> QED
    BY <2>1, <2>2, <2>3
<1> QED
  BY <1>3, <1>4

\* InOrder lists the least first, and the others as it would without it.
LEMMA LeastFirst ==
    ASSUME NEW S \in SUBSET Nat, IsFiniteSet(S), NEW m \in S, \A i \in S : m <= i
    PROVE  /\ Cardinality(S) \in Nat \ {0}
           /\ Cardinality(S \ {m}) = Cardinality(S) - 1
           /\ InOrder(S)[1] = m
           /\ \A k \in 1 .. Cardinality(S) - 1 : InOrder(S \ {m})[k] = InOrder(S)[k + 1]
<1> DEFINE n == Cardinality(S)
           R == S \ {m}
<1>1. /\ n \in Nat /\ InOrder(S) \in Seq(S) /\ Len(InOrder(S)) = n
      /\ \A i \in S : \E k \in 1 .. n : InOrder(S)[k] = i
      /\ \A k, l \in 1 .. n : k < l => InOrder(S)[k] < InOrder(S)[l]
  BY Ordered
<1>2. IsFiniteSet(R) /\ R \in SUBSET Nat /\ Cardinality(R) = n - 1 /\ n # 0
  <2>1. IsFiniteSet(R) /\ Cardinality(R) = n - 1
    BY FS_RemoveElement
  <2>2. n # 0
    BY FS_EmptySet
  <2> QED
    BY <2>1, <2>2
<1>3. /\ InOrder(R) \in Seq(R) /\ Len(InOrder(R)) = n - 1
      /\ \A k \in 1 .. n - 1 : InOrder(R)[k] \in R /\ Rank(R, InOrder(R)[k]) = k - 1
  <2>1. InOrder(R) \in Seq(R) /\ Len(InOrder(R)) = n - 1
    BY <1>2, Ordered
  <2>2. \A k \in 1 .. n - 1 : InOrder(R)[k] \in R
    BY <1>1, <1>2, <2>1
  <2>3. \A k \in 1 .. n - 1 : Rank(R, InOrder(R)[k]) = k - 1
    BY <1>2, Ordered
  <2> QED
    BY <2>1, <2>2, <2>3
<1>4. \A k \in 1 .. n : InOrder(S)[k] \in S /\ Rank(S, InOrder(S)[k]) = k - 1
  <2>1. \A k \in 1 .. n : InOrder(S)[k] \in S
    BY <1>1
  <2> QED
    BY <2>1, Ordered
<1>5. \A i \in R : Rank(R, i) = Rank(S, i) - 1
  <2> TAKE i \in R
  <2>1. m < i /\ m \in Below(S, i) /\ Below(R, i) = Below(S, i) \ {m}
    BY DEF Below
  <2>2. IsFiniteSet(Below(S, i))
    BY FS_Subset DEF Below
  <2> QED
    <3>1. Cardinality(Below(S, i) \ {m}) = Cardinality(Below(S, i)) - 1
      BY <2>1, <2>2, FS_RemoveElement
    <3> QED
      BY <2>1, <3>1, Zenon DEF Rank
<1>6. \A i, k \in S : Rank(S, i) = Rank(S, k) => i = k
  <2> TAKE i, k \in S
  <2>1. (i < k => Rank(S, i) < Rank(S, k)) /\ (k < i => Rank(S, k) < Rank(S, i))
    BY Ranks
  <2>2. Rank(S, i) \in Nat /\ Rank(S, k) \in Nat
    BY Ranks
  <2>3. i \in Nat /\ k \in Nat
    OBVIOUS
  <2> QED
    BY <2>1, <2>2, <2>3
<1>7. Rank(S, m) = 0
  <2>1. \A i \in S : i \in Nat /\ m \in Nat /\ m <= i
    OBVIOUS
  <2>2. \A i \in S : ~(i < m)
    BY ONLY <2>1
  <2>3. Below(S, m) = {}
    BY <2>2 DEF Below
  <2> QED
    BY <2>3, FS_EmptySet DEF Rank
<1> HIDE DEF n
<1>8. InOrder(S)[1] = m
  <2>1. 1 \in 1 .. n
    BY <1>1, <1>2
  <2> QED
    <3>1. PICK x \in S : x = InOrder(S)[1] /\ Rank(S, x) = 1 - 1
      BY <1>4, <2>1
    <3> QED
      BY <1>6, <1>7, <3>1
<1>9. ASSUME NEW k \in 1 .. n - 1
      PROVE  InOrder(R)[k] = InOrder(S)[k + 1]
  <2>1. k + 1 \in 1 .. n /\ k \in Nat /\ (k + 1) - 1 = k
    BY <1>1
  <2>2. PICK x \in R : x = InOrder(R)[k] /\ Rank(R, x) = k - 1
    BY <1>3
  <2>3. PICK y \in S : y = InOrder(S)[k + 1] /\ Rank(S, y) = k
    BY <1>4, <2>1
  <2>4. Rank(S, x) \in Int /\ Rank(R, x) = Rank(S, x) - 1 /\ x \in S
    <3>1. x \in S /\ Rank(S, x) \in Int
      BY Ranks
    <3> QED
      BY <1>5, <3>1
  <2>5. Rank(S, x) = Rank(S, y)
    BY <2>1, <2>2, <2>3, <2>4
  <2> QED
    BY <1>6, <2>2, <2>3, <2>4, <2>5
<1> QED
  BY <1>1, <1>2, <1>8, <1>9 DEF n

\* What holds of the first and passes from each to the next holds of all.
LEMMA Stepwise ==
    ASSUME NEW lo \in Nat, NEW hi \in Nat, NEW B, lo \in B,
           \A n \in lo + 1 .. hi : n - 1 \in B => n \in B
    PROVE  \A n \in lo .. hi : n \in B
<1> DEFINE rest == {n \in lo .. hi : n \notin B}
<1>1. SUFFICES ASSUME rest # {} PROVE FALSE
  OBVIOUS
<1>2. rest \in SUBSET Nat
  OBVIOUS
<1>3. IsFiniteSet(rest)
  <2>1. IsFiniteSet(lo .. hi) /\ rest \in SUBSET (lo .. hi)
    BY FS_Interval
  <2> QED
    BY <2>1, FS_Subset
<1>4. PICK i \in rest : \A k \in rest : i <= k
  BY <1>1, <1>2, <1>3, Least
<1>5. i \in lo + 1 .. hi /\ i - 1 \in lo .. hi /\ ~(i <= i - 1)
  BY <1>4
<1>6. i - 1 \in B
  BY <1>4, <1>5
<1> QED
  BY <1>4, <1>5, <1>6

\* F makes of an element of S another, at every place.
Steps(F, S, lo, hi) == F \in [S \X (lo .. hi) -> S]

\* g is what F makes of base, step by step.
Iterates(g, F, S, base, lo, hi) ==
    /\ g \in [lo .. hi -> S]
    /\ g[lo] = base
    /\ \A n \in lo + 1 .. hi : g[n] = F[<<g[n - 1], n>>]

\* What is made step by step exists.
LEMMA Iterated ==
    ASSUME NEW lo \in Nat, NEW hi \in Nat, lo <= hi,
           NEW S, NEW base \in S, NEW F, Steps(F, S, lo, hi)
    PROVE  \E g : Iterates(g, F, S, base, lo, hi)
<1>0. F \in [S \X (lo .. hi) -> S]
  BY DEF Steps
<1> DEFINE Works(g, n) == /\ g[lo] = base
                          /\ \A k \in lo + 1 .. n : g[k] = F[<<g[k - 1], k>>]
           B == {n \in lo .. hi : \E g \in [lo .. n -> S] : Works(g, n)}
<1>1. lo \in B
  <2> DEFINE g == [k \in lo .. lo |-> base]
  <2>1. g \in [lo .. lo -> S] /\ Works(g, lo) /\ lo \in lo .. hi
    OBVIOUS
  <2> QED
    BY <2>1
<1>2. ASSUME NEW n \in lo + 1 .. hi, n - 1 \in B
      PROVE  n \in B
  <2>1. PICK g \in [lo .. n - 1 -> S] : Works(g, n - 1)
    BY <1>2
  <2> DEFINE h == [k \in lo .. n |-> IF k = n THEN F[<<g[n - 1], n>>] ELSE g[k]]
  <2>2. n \in lo .. hi /\ n - 1 \in lo .. n - 1 /\ lo # n
    OBVIOUS
  <2>3. g[n - 1] \in S
    BY <2>2
  <2>4. F[<<g[n - 1], n>>] \in S
    BY <1>0, <2>2, <2>3
  <2>5. h \in [lo .. n -> S]
    <3>1. \A k \in lo .. n : k # n => k \in lo .. n - 1
      OBVIOUS
    <3> QED
      BY <2>4, <3>1
  <2>6. h[lo] = base
    BY <2>1, <2>2
  <2>7. \A k \in lo + 1 .. n : h[k] = F[<<h[k - 1], k>>]
    <3> TAKE k \in lo + 1 .. n
    <3>1. k \in lo .. n /\ k - 1 \in lo .. n /\ k - 1 # n
      OBVIOUS
    <3>2. h[k - 1] = g[k - 1]
      BY <3>1
    <3>3. CASE k = n
      BY <3>1, <3>2, <3>3
    <3>4. CASE k # n
      <4>1. k \in lo + 1 .. n - 1 /\ h[k] = g[k]
        BY <3>1, <3>4
      <4> QED
        BY <2>1, <3>2, <4>1
    <3> QED
      BY <3>3, <3>4
  <2> HIDE DEF h
  <2> QED
    BY <2>2, <2>5, <2>6, <2>7
<1> HIDE DEF B
<1>3. \A n \in lo .. hi : n \in B
  BY <1>1, <1>2, Stepwise
<1>4. PICK g \in [lo .. hi -> S] : Works(g, hi)
  BY <1>3 DEF B
<1> QED
  BY <1>4 DEF Iterates

-----------------------------------------------------------------------------
(* Sequences                                                                *)

\* A sequence of whatever is in it
Listed(s) == s \in Seq(ToSet(s))

LEMMA ListedFacts ==
    ASSUME NEW A, NEW s \in Seq(A)
    PROVE  /\ Listed(s) /\ Len(s) \in Nat /\ DOMAIN s = 1 .. Len(s)
           /\ \A i \in 1 .. Len(s) : s[i] \in ToSet(s) /\ s[i] \in A
           /\ \A x \in ToSet(s) : x \in A /\ \E i \in 1 .. Len(s) : x = s[i]
<1>1. /\ Len(s) \in Nat /\ DOMAIN s = 1 .. Len(s) /\ \A i \in 1 .. Len(s) : s[i] \in A
      /\ s = [i \in 1 .. Len(s) |-> s[i]]
  OBVIOUS
<1>2. \A i \in 1 .. Len(s) : s[i] \in ToSet(s)
  BY <1>1 DEF ToSet
<1>3. s \in [1 .. Len(s) -> ToSet(s)]
  BY <1>1, <1>2
<1>4. s \in Seq(ToSet(s))
  BY <1>1, <1>3
<1> QED
  BY <1>1, <1>2, <1>4 DEF Listed, ToSet

\* Two lists, one after the other
LEMMA Joined ==
    ASSUME NEW s, NEW t, Listed(s), Listed(t)
    PROVE  /\ Listed(s \o t) /\ ToSet(s \o t) = ToSet(s) \cup ToSet(t)
           /\ Len(s \o t) = Len(s) + Len(t)
           /\ \A i \in 1 .. Len(s) : (s \o t)[i] = s[i]
           /\ \A i \in Len(s) + 1 .. Len(s) + Len(t) :
                i - Len(s) \in 1 .. Len(t) /\ (s \o t)[i] = t[i - Len(s)]
<1> DEFINE A == ToSet(s) \cup ToSet(t)
           u == s \o t
<1>1. s \in Seq(A) /\ t \in Seq(A)
  BY SeqMonotonic DEF Listed
<1> HIDE DEF A
<1>2. /\ u \in Seq(A) /\ Len(u) = Len(s) + Len(t)
      /\ \A i \in 1 .. Len(s) + Len(t) : u[i] = IF i <= Len(s) THEN s[i] ELSE t[i - Len(s)]
  BY <1>1, ConcatProperties
<1> HIDE DEF u
<1>3. /\ Len(s) \in Nat /\ Len(t) \in Nat /\ DOMAIN s = 1 .. Len(s) /\ DOMAIN t = 1 .. Len(t)
      /\ Listed(u) /\ DOMAIN u = 1 .. Len(u)
  BY <1>1, <1>2, ListedFacts
<1>4. /\ \A i \in 1 .. Len(s) : i \in DOMAIN u /\ u[i] = s[i]
      /\ \A i \in 1 .. Len(t) : i + Len(s) \in DOMAIN u /\ u[i + Len(s)] = t[i]
      /\ \A i \in 1 .. Len(u) : \/ i \in 1 .. Len(s) /\ u[i] = s[i]
                                \/ i - Len(s) \in 1 .. Len(t) /\ u[i] = t[i - Len(s)]
      /\ \A i \in Len(s) + 1 .. Len(s) + Len(t) :
            i - Len(s) \in 1 .. Len(t) /\ u[i] = t[i - Len(s)]
  <2> DEFINE m == Len(s)
             n == Len(t)
  <2>1. /\ m \in Nat /\ n \in Nat /\ DOMAIN u = 1 .. m + n /\ Len(u) = m + n
        /\ \A i \in 1 .. m + n : u[i] = IF i <= m THEN s[i] ELSE t[i - m]
    BY <1>2, <1>3
  <2> HIDE DEF m, n
  <2>2. \A i \in 1 .. m : i \in 1 .. m + n /\ i <= m
    BY <2>1
  <2>3. \A i \in 1 .. n : i + m \in 1 .. m + n /\ ~(i + m <= m) /\ (i + m) - m = i
    BY <2>1
  <2>4. \A i \in 1 .. m + n : i \in 1 .. m \/ (i - m \in 1 .. n /\ ~(i <= m))
    BY <2>1
  <2>5. \A i \in m + 1 .. m + n : i - m \in 1 .. n /\ ~(i <= m) /\ i \in 1 .. m + n
    BY <2>1
  <2> QED
    BY <2>1, <2>2, <2>3, <2>4, <2>5 DEF m, n
<1>5. ToSet(u) \subseteq ToSet(s) \cup ToSet(t)
  BY <1>3, <1>4 DEF ToSet
<1>6. \A i \in 1 .. Len(s) : s[i] \in ToSet(u)
  BY <1>4 DEF ToSet
<1>7. \A i \in 1 .. Len(t) : t[i] \in ToSet(u)
  <2> TAKE i \in 1 .. Len(t)
  <2>1. i + Len(s) \in DOMAIN u /\ t[i] = u[i + Len(s)]
    BY <1>4
  <2> QED
    BY <2>1 DEF ToSet
<1>8. ToSet(s) \cup ToSet(t) \subseteq ToSet(u)
  BY <1>3, <1>6, <1>7 DEF ToSet
<1> QED
  BY <1>2, <1>3, <1>4, <1>5, <1>8 DEF u

\* Sequences of sequences, one after the other
Joins(g, seqs) ==
    /\ g[1] = seqs[1]
    /\ \A i \in 2 .. Len(seqs) : g[i] = g[i - 1] \o seqs[i]

LEMMA JoinedUp ==
    ASSUME NEW A, NEW seqs \in Seq(Seq(A)), Len(seqs) # 0
    PROVE  \E g \in [1 .. Len(seqs) -> Seq(A)] :
                Joins(g, seqs) /\ FlattenSeq(seqs) = g[Len(seqs)]
<1> DEFINE n == Len(seqs)
           S == Seq(A)
           F == [p \in S \X (1 .. n) |-> p[1] \o seqs[p[2]]]
           flatten[i \in 1 .. n] == IF i = 1 THEN seqs[i] ELSE flatten[i - 1] \o seqs[i]
<1>1. n \in Nat /\ \A i \in 1 .. n : seqs[i] \in S
  OBVIOUS
<1>2. 1 \in Nat /\ 1 <= n /\ 1 \in 1 .. n /\ n \in 1 .. n
  BY <1>1
<1>3. seqs[1] \in S
  BY <1>1, <1>2
<1>4. Steps(F, S, 1, n)
  <2>1. \A x \in S, i \in 1 .. n : x \o seqs[i] \in S
    BY <1>1
  <2> HIDE DEF S, n
  <2> QED
    BY <2>1 DEF Steps
<1>5. \A x \in S, i \in 1 .. n : F[<<x, i>>] = x \o seqs[i]
  OBVIOUS
<1> HIDE DEF n, S, F, flatten
<1>6. PICK g : Iterates(g, F, S, seqs[1], 1, n)
  BY <1>1, <1>2, <1>3, <1>4, Iterated
<1>7. /\ g \in [1 .. n -> S] /\ g[1] = seqs[1]
      /\ \A i \in 1 + 1 .. n : g[i] = F[<<g[i - 1], i>>]
  BY <1>6 DEF Iterates
<1>8. ASSUME NEW i \in 2 .. n
      PROVE  g[i] = g[i - 1] \o seqs[i]
  <2>1. i \in 1 + 1 .. n /\ i - 1 \in 1 .. n /\ i \in 1 .. n
    BY <1>1
  <2>2. g[i] = F[<<g[i - 1], i>>] /\ g[i - 1] \in S
    BY <1>7, <2>1
  <2> QED
    BY <1>5, <2>1, <2>2
<1>9. \A i \in 1 .. n : g[i] = IF i = 1 THEN seqs[i] ELSE g[i - 1] \o seqs[i]
  <2>1. \A i \in 1 .. n : i = 1 \/ i \in 2 .. n
    BY <1>1
  <2> QED
    BY <1>7, <1>8, <2>1
<1>10. g = [i \in 1 .. n |-> IF i = 1 THEN seqs[i] ELSE g[i - 1] \o seqs[i]]
  BY <1>7, <1>9
<1>11. flatten = [i \in 1 .. n |-> IF i = 1 THEN seqs[i] ELSE flatten[i - 1] \o seqs[i]]
  BY <1>10 DEF flatten
<1> DEFINE B == {i \in 1 .. n : flatten[i] \in S}
<1>12. 1 \in B
  BY <1>2, <1>3, <1>11
<1>13. ASSUME NEW i \in 1 + 1 .. n, i - 1 \in B PROVE i \in B
  <2>1. i \in 1 .. n /\ i # 1
    BY <1>1
  <2>2. flatten[i] = flatten[i - 1] \o seqs[i]
    BY <1>11, <2>1
  <2>3. flatten[i - 1] \in S /\ seqs[i] \in S
    BY <1>1, <1>13, <2>1
  <2>4. \A x, y \in S : x \o y \in S
    BY DEF S
  <2> QED
    BY <2>1, <2>2, <2>3, <2>4
<1>14. \A i \in 1 .. n : flatten[i] \in S
  <2>1. \A i \in 1 .. n : i \in B
    <3> HIDE DEF B
    <3> QED
      BY <1>1, <1>2, <1>12, <1>13, Stepwise
  <2> QED
    BY <2>1
<1>15. flatten \in [1 .. n -> S]
  BY <1>11, <1>14
<1>16. Joins(flatten, seqs)
  <2>1. \A i \in 2 .. n : i \in 1 .. n /\ i # 1
    BY <1>1
  <2> QED
    BY <1>2, <1>11, <2>1 DEF Joins, n
<1>17. FlattenSeq(seqs) = flatten[n]
  BY DEF FlattenSeq, flatten, n
<1> QED
  BY <1>2, <1>15, <1>16, <1>17 DEF n, S

LEMMA NothingToFlatten == FlattenSeq(<<>>) = <<>>
<1>1. Len(<<>>) = 0
  OBVIOUS
<1> QED
  BY <1>1 DEF FlattenSeq

LEMMA Flattened ==
    ASSUME NEW A, NEW seqs \in Seq(Seq(A))
    PROVE  FlattenSeq(seqs) \in Seq(A)
<1>1. CASE Len(seqs) = 0
  <2>1. seqs = <<>> /\ <<>> \in Seq(A)
    BY <1>1
  <2> QED
    BY ONLY <2>1, NothingToFlatten, Zenon
<1>2. CASE Len(seqs) # 0
  <2>1. PICK g \in [1 .. Len(seqs) -> Seq(A)] : FlattenSeq(seqs) = g[Len(seqs)]
    BY <1>2, JoinedUp
  <2>2. Len(seqs) \in 1 .. Len(seqs)
    BY <1>2
  <2> QED
    BY <2>1, <2>2
<1> QED
  BY <1>1, <1>2

LEMMA InAnyOrder == \A A : \A s, t, u \in Seq(A) : (s \o t) \o u = s \o (t \o u)
BY ConcatAssociative

\* The first can be put in front of the others.
LEMMA FlattenedFirst ==
    ASSUME NEW A, NEW x \in Seq(A), NEW seqs \in Seq(Seq(A))
    PROVE  FlattenSeq(<<x>> \o seqs) = x \o FlattenSeq(seqs)
<1> DEFINE n == Len(seqs)
           S == Seq(A)
           more == <<x>> \o seqs
<1>1. n \in Nat /\ \A i \in 1 .. n : seqs[i] \in S
  OBVIOUS
<1>2. /\ more \in Seq(S) /\ Len(more) = n + 1 /\ more[1] = x
      /\ \A i \in 1 .. n : more[i + 1] = seqs[i]
  <2>1. <<x>> \in Seq(S) /\ Len(<<x>>) = 1 /\ <<x>>[1] = x
    OBVIOUS
  <2>2. /\ more \in Seq(S) /\ Len(more) = 1 + n
        /\ \A i \in 1 .. 1 + n : more[i] = IF i <= 1 THEN <<x>>[i] ELSE seqs[i - 1]
    BY <2>1, ConcatProperties
  <2>3. 1 \in 1 .. 1 + n /\ \A i \in 1 .. n : i + 1 \in 1 .. 1 + n /\ ~(i + 1 <= 1) /\ (i + 1) - 1 = i
    BY <1>1
  <2>4. more[1] = <<x>>[1]
    BY <2>2, <2>3
  <2>5. \A i \in 1 .. n : more[i + 1] = seqs[(i + 1) - 1]
    BY <2>2, <2>3
  <2> HIDE DEF more, n
  <2>6. \A i \in 1 .. n : more[i + 1] = seqs[i]
    BY <2>3, <2>5
  <2> QED
    BY <1>1, <2>1, <2>2, <2>4, <2>6
<1>3. PICK h \in [1 .. n + 1 -> S] : Joins(h, more) /\ FlattenSeq(more) = h[n + 1]
  <2>1. n + 1 # 0
    BY <1>1
  <2> HIDE DEF more, n
  <2> QED
    BY <1>2, <2>1, JoinedUp DEF S
<1>4. h[1] = x /\ \A i \in 2 .. n + 1 : h[i] = h[i - 1] \o more[i]
  BY <1>2, <1>3 DEF Joins
<1>5. CASE n = 0
  <2>1. seqs = <<>> /\ FlattenSeq(more) = x
    BY <1>3, <1>4, <1>5
  <2>2. x \o <<>> = x
    BY ConcatEmptySeq
  <2> HIDE DEF more, n
  <2> QED
    BY <2>1, <2>2, NothingToFlatten DEF more
<1>6. CASE n # 0
  <2>1. PICK g \in [1 .. n -> S] : Joins(g, seqs) /\ FlattenSeq(seqs) = g[n]
    BY <1>6, JoinedUp
  <2>2. g[1] = seqs[1] /\ \A i \in 2 .. n : g[i] = g[i - 1] \o seqs[i]
    BY <2>1 DEF Joins
  <2> HIDE DEF more, n
  <2> DEFINE B == {i \in 1 .. n : h[i + 1] = x \o g[i]}
  <2>3. 1 \in B
    <3>1. 1 \in 1 .. n /\ 1 + 1 \in 2 .. n + 1 /\ (1 + 1) - 1 = 1
      BY <1>1, <1>6
    <3>2. h[1 + 1] = h[1] \o more[1 + 1]
      BY <1>4, <3>1
    <3>3. more[1 + 1] = seqs[1]
      BY <1>2, <3>1
    <3> QED
      BY <1>4, <2>2, <3>1, <3>2, <3>3
  <2>4. ASSUME NEW i \in 1 + 1 .. n, i - 1 \in B PROVE i \in B
    <3>1. /\ i \in 1 .. n /\ i \in 2 .. n /\ i - 1 \in 1 .. n /\ i + 1 \in 2 .. n + 1
          /\ (i - 1) + 1 = i /\ (i + 1) - 1 = i
      BY <1>1
    <3>2. h[i] = x \o g[i - 1]
      BY <2>4, <3>1
    <3>3. h[i + 1] = h[i] \o more[i + 1]
      BY <1>4, <3>1
    <3>4. more[i + 1] = seqs[i] /\ seqs[i] \in Seq(A) /\ g[i - 1] \in Seq(A)
      BY <1>1, <1>2, <3>1 DEF S
    <3>5. (x \o g[i - 1]) \o seqs[i] = x \o (g[i - 1] \o seqs[i])
      <4>1. PICK u \in Seq(A) : u = g[i - 1]
        BY <3>4
      <4>2. PICK v \in Seq(A) : v = seqs[i]
        BY <3>4
      <4>3. (x \o u) \o v = x \o (u \o v)
        BY ONLY InAnyOrder, SMTT(30)
      <4> QED
        BY <4>1, <4>2, <4>3, Zenon
    <3>6. g[i] = g[i - 1] \o seqs[i]
      BY <2>2, <3>1
    <3>7. h[i + 1] = x \o g[i]
      BY <3>2, <3>3, <3>4, <3>5, <3>6, Zenon
    <3> QED
      BY <3>1, <3>7
  <2>5. n \in B
    <3>1. n \in 1 .. n /\ 1 \in Nat
      BY <1>1, <1>6
    <3> HIDE DEF B
    <3> QED
      BY <1>1, <2>3, <2>4, <3>1, Stepwise
  <2>6. h[n + 1] = x \o g[n]
    BY <2>5
  <2> QED
    BY <1>3, <2>1, <2>6 DEF more
<1> QED
  BY <1>5, <1>6
=============================================================================
