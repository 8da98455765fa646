------------------------------ MODULE PsdProofs ------------------------------
(***************************************************************************)
(* Proofs about finding scans (Psd), as one of the extensions that are        *)
(* composed, for any addresses, hash function, sizes, and weights that        *)
(* psd_mt_check lets pass (PsdConstants).                                     *)
(***************************************************************************)
EXTENDS MCNetfilter, OrderProofs

\* The parts speak of their own copies of these.
LEMMA SameSizes ==
    ASSUME NEW Q
    PROVE  /\ K!Cardinality(Q) = Cardinality(Q) /\ (K!IsFiniteSet(Q) <=> IsFiniteSet(Q))
           /\ S!Cardinality(Q) = Cardinality(Q) /\ (S!IsFiniteSet(Q) <=> IsFiniteSet(Q))
           /\ D!Cardinality(Q) = Cardinality(Q) /\ (D!IsFiniteSet(Q) <=> IsFiniteSet(Q))
  BY DEF K!Cardinality, S!Cardinality, D!Cardinality, Cardinality,
         K!IsFiniteSet, S!IsFiniteSet, D!IsFiniteSet, IsFiniteSet

-----------------------------------------------------------------------------
(* The weight of ports                                                       *)

SumTo(ports, n) ==
  LET sum[k \in 0 .. Len(Weight)] ==
        IF k = 0 THEN 0 ELSE sum[k - 1] + IF k \in ports THEN Weight[k] ELSE 0
  IN sum[n]

LEMMA SumFacts ==
    ASSUME S!PsdConstants, NEW ports
    PROVE  /\ Len(Weight) \in Nat /\ DOMAIN Weight = 1 .. Len(Weight)
           /\ \A n \in 1 .. Len(Weight) : Weight[n] \in Nat
           /\ SumTo(ports, 0) = 0 /\ S!Total(ports) = SumTo(ports, Len(Weight))
           /\ \A n \in 0 .. Len(Weight) : SumTo(ports, n) \in Nat
           /\ \A n \in 1 .. Len(Weight) :
                SumTo(ports, n) = SumTo(ports, n - 1) + IF n \in ports THEN Weight[n] ELSE 0
<1> DEFINE m == Len(Weight)
           add(n) == IF n \in ports THEN Weight[n] ELSE 0
           F == [p \in Nat \X (0 .. m) |-> IF p[2] = 0 THEN p[1] ELSE p[1] + add(p[2])]
           sum[k \in 0 .. m] == IF k = 0 THEN 0 ELSE sum[k - 1] + add(k)
<1>1. m \in Nat /\ DOMAIN Weight = 1 .. m /\ 0 <= m
  BY DEF S!PsdConstants
<1>2. \A n \in 1 .. m : Weight[n] \in Nat /\ add(n) \in Nat
  BY DEF S!PsdConstants
<1>3. S!Total(ports) = sum[m] /\ \A n : SumTo(ports, n) = sum[n]
  BY DEF S!Total, SumTo
<1>4. Steps(F, Nat, 0, m)
  <2>1. \A n \in 0 .. m : n = 0 \/ n \in 1 .. m
    BY <1>1
  <2> HIDE DEF m, add
  <2> QED
    BY <1>2, <2>1 DEF Steps
<1>5. \A s \in Nat, n \in 1 .. m : F[<<s, n>>] = s + add(n)
  <2>1. \A n \in 1 .. m : n \in 0 .. m /\ n # 0
    BY <1>1
  <2> HIDE DEF m, add
  <2> QED
    BY <2>1
<1> HIDE DEF m, F, sum, add
<1>6. PICK g : Iterates(g, F, Nat, 0, 0, m)
  BY <1>1, <1>4, Iterated
<1>7. /\ g \in [0 .. m -> Nat] /\ g[0] = 0
      /\ \A n \in 0 + 1 .. m : g[n] = F[<<g[n - 1], n>>]
  BY <1>6 DEF Iterates
<1>8. ASSUME NEW n \in 0 .. m
      PROVE  g[n] = IF n = 0 THEN 0 ELSE g[n - 1] + add(n)
  <2>1. CASE n = 0
    BY <1>7, <2>1
  <2>2. CASE n # 0
    <3>1. n \in 0 + 1 .. m /\ n \in 1 .. m /\ n - 1 \in 0 .. m
      BY <1>1, <2>2
    <3>2. g[n] = F[<<g[n - 1], n>>] /\ g[n - 1] \in Nat
      BY <1>7, <3>1
    <3> QED
      BY <1>5, <2>2, <3>1, <3>2
  <2> QED
    BY <2>1, <2>2
<1>9. g = [n \in 0 .. m |-> IF n = 0 THEN 0 ELSE g[n - 1] + add(n)]
  BY <1>7, <1>8
<1>10. sum = [n \in 0 .. m |-> IF n = 0 THEN 0 ELSE sum[n - 1] + add(n)]
  BY <1>9 DEF sum
<1>11. 0 \in 0 .. m /\ \A n \in 1 .. m : n \in 0 .. m /\ n # 0 /\ n - 1 \in 0 .. m
  BY <1>1
<1>12. sum[0] = 0 /\ \A n \in 1 .. m : sum[n] = sum[n - 1] + add(n)
  BY <1>10, <1>11
<1>13. \A n \in 0 .. m : sum[n] \in Nat
  <2> DEFINE B == {n \in 0 .. m : sum[n] \in Nat}
  <2>1. 0 \in B /\ 0 \in Nat
    BY <1>11, <1>12
  <2>2. \A n \in 0 + 1 .. m : n - 1 \in B => n \in B
    BY <1>1, <1>2, <1>11, <1>12
  <2> HIDE DEF B
  <2>3. \A n \in 0 .. m : n \in B
    BY <1>1, <2>1, <2>2, Stepwise
  <2> QED
    BY <2>3 DEF B
<1> QED
  BY <1>1, <1>2, <1>3, <1>12, <1>13 DEF m, add

\* More ports weigh no less.
LEMMA TotalGrows ==
    ASSUME S!PsdConstants, NEW P, NEW Q, P \subseteq Q
    PROVE  S!Total(P) \in Nat /\ S!Total(Q) \in Nat /\ S!Total(P) <= S!Total(Q)
<1> DEFINE m == Len(Weight)
           B == {n \in 0 .. m : SumTo(P, n) <= SumTo(Q, n)}
<1>1. m \in Nat /\ 0 \in B /\ 0 \in Nat
  BY SumFacts
<1>2. ASSUME NEW n \in 0 + 1 .. m, n - 1 \in B
      PROVE  n \in B
  <2>1. n \in 1 .. m /\ n \in 0 .. m /\ n - 1 \in 0 .. m
    BY <1>1
  <2>2. /\ SumTo(P, n) = SumTo(P, n - 1) + IF n \in P THEN Weight[n] ELSE 0
        /\ SumTo(Q, n) = SumTo(Q, n - 1) + IF n \in Q THEN Weight[n] ELSE 0
        /\ SumTo(P, n - 1) \in Nat /\ SumTo(Q, n - 1) \in Nat /\ Weight[n] \in Nat
    BY <2>1, SumFacts
  <2>3. SumTo(P, n - 1) <= SumTo(Q, n - 1)
    BY <1>2
  <2> QED
    BY <2>1, <2>2, <2>3
<1> HIDE DEF B
<1>3. \A n \in 0 .. m : n \in B
  BY <1>1, <1>2, Stepwise
<1>4. m \in 0 .. m
  BY <1>1
<1>5. SumTo(P, m) <= SumTo(Q, m)
  BY <1>3, <1>4 DEF B
<1> QED
  BY <1>4, <1>5, SumFacts

\* One port more weighs what the port weighs.
LEMMA TotalAdds ==
    ASSUME S!PsdConstants, NEW P, NEW x \in DOMAIN Weight, x \notin P
    PROVE  S!Total(P \cup {x}) = S!Total(P) + Weight[x]
<1> DEFINE m == Len(Weight)
           Q == P \cup {x}
           B == {n \in 0 .. m : SumTo(Q, n) = SumTo(P, n) + IF n < x THEN 0 ELSE Weight[x]}
<1>1. m \in Nat /\ x \in 1 .. m /\ Weight[x] \in Nat /\ 0 \in Nat
  BY SumFacts
<1>2. 0 \in B
  BY <1>1, SumFacts
<1>3. ASSUME NEW n \in 0 + 1 .. m, n - 1 \in B
      PROVE  n \in B
  <2>1. n \in 1 .. m /\ n \in 0 .. m /\ n - 1 \in 0 .. m
    BY <1>1
  <2>2. /\ SumTo(P, n) = SumTo(P, n - 1) + IF n \in P THEN Weight[n] ELSE 0
        /\ SumTo(Q, n) = SumTo(Q, n - 1) + IF n \in Q THEN Weight[n] ELSE 0
        /\ SumTo(P, n - 1) \in Nat /\ SumTo(Q, n - 1) \in Nat /\ Weight[n] \in Nat
    BY <2>1, SumFacts
  <2>3. SumTo(Q, n - 1) = SumTo(P, n - 1) + IF n - 1 < x THEN 0 ELSE Weight[x]
    BY <1>3
  <2>4. CASE n = x
    <3>1. n - 1 < x /\ ~(n < x) /\ n \notin P /\ n \in Q
      BY <1>1, <2>1, <2>4
    <3> QED
      BY <2>1, <2>2, <2>3, <2>4, <3>1
  <2>5. CASE n # x
    <3>1. (n - 1 < x <=> n < x) /\ (n \in Q <=> n \in P)
      BY <1>1, <2>1, <2>5
    <3> HIDE DEF Q
    <3> QED
      BY <1>1, <2>1, <2>2, <2>3, <3>1
  <2> QED
    BY <2>4, <2>5
<1> HIDE DEF B
<1>4. \A n \in 0 .. m : n \in B
  BY <1>1, <1>2, <1>3, Stepwise
<1>5. m \in 0 .. m /\ ~(m < x)
  BY <1>1
<1>6. SumTo(Q, m) = SumTo(P, m) + Weight[x]
  BY <1>4, <1>5 DEF B
<1> QED
  BY <1>6, SumFacts

LEMMA TotalOfOne ==
    ASSUME S!PsdConstants, NEW x \in DOMAIN Weight PROVE S!Total({x}) = Weight[x]
<1> DEFINE m == Len(Weight)
           B == {n \in 0 .. m : SumTo({}, n) = 0}
<1>1. m \in Nat /\ 0 \in B /\ 0 \in Nat
  BY SumFacts
<1>2. \A n \in 0 + 1 .. m : n - 1 \in B => n \in B
  <2>1. \A n \in 0 + 1 .. m : n \in 1 .. m /\ n \in 0 .. m
    BY <1>1
  <2>2. \A n \in 1 .. m : SumTo({}, n) = SumTo({}, n - 1) + 0
    BY SumFacts
  <2> QED
    BY <2>1, <2>2
<1> HIDE DEF B
<1>3. \A n \in 0 .. m : n \in B
  BY <1>1, <1>2, Stepwise
<1>4. m \in 0 .. m
  BY <1>1
<1>5. S!Total({}) = 0
  BY <1>3, <1>4, SumFacts DEF B
<1>6. S!Total({} \cup {x}) = S!Total({}) + Weight[x] /\ {} \cup {x} = {x}
  BY TotalAdds
<1>7. Weight[x] \in Nat
  BY SumFacts
<1> QED
  BY <1>5, <1>6, <1>7

-----------------------------------------------------------------------------
(* Chains                                                                    *)

Table == [head : [S!Values -> 0 .. ListSize], next : [S!Entries -> 0 .. ListSize],
          list : [S!Entries -> S!Entry]]

\* No entry is in two places.
Apart(c) ==
  \A h, g \in S!Values : \A i \in 1 .. Len(c[h]), j \in 1 .. Len(c[g]) :
    c[h][i] = c[g][j] => h = g /\ i = j

LEMMA NthFacts ==
    ASSUME S!PsdConstants, NEW s \in Seq(S!Entries), NEW i \in Nat \ {0}
    PROVE  /\ Len(s) \in Nat /\ S!Nth(s, i) \in 0 .. ListSize
           /\ i <= Len(s) => S!Nth(s, i) = s[i] /\ s[i] \in S!Entries
           /\ S!Nth(s, i) = 0 <=> i > Len(s)
<1>1. Len(s) \in Nat /\ ListSize \in Nat \ {0} /\ \A k \in 1 .. Len(s) : s[k] \in 1 .. ListSize
  BY DEF S!PsdConstants, S!Entries
<1>2. CASE i <= Len(s)
  <2>1. i \in 1 .. Len(s) /\ ~(i > Len(s))
    BY <1>1, <1>2
  <2>2. s[i] \in 1 .. ListSize
    BY <1>1, <2>1
  <2>3. s[i] \in 0 .. ListSize /\ s[i] # 0
    BY <1>1, <2>2
  <2> QED
    BY <1>1, <1>2, <2>1, <2>2, <2>3 DEF S!Nth, S!Entries
<1>3. CASE ~(i <= Len(s))
  BY <1>1, <1>3 DEF S!Nth
<1> QED
  BY <1>2, <1>3

\* A chain that is linked as s, without a repetition, is s.
LEMMA ChainIs ==
    ASSUME S!PsdConstants, NEW s \in Seq(S!Entries), NEW first, NEW link,
           \A i, j \in 1 .. Len(s) : s[i] = s[j] => i = j,
           first = S!Nth(s, 1), \A i \in 1 .. Len(s) : link[s[i]] = S!Nth(s, i + 1)
    PROVE  S!Chain(first, link) = s
<1> DEFINE n == Len(s)
           N == ListSize
           at[k \in 0 .. N] ==
             IF k = 0 THEN first ELSE IF at[k - 1] = 0 THEN 0 ELSE link[at[k - 1]]
           g == [k \in 0 .. N |-> S!Nth(s, k + 1)]
           ends == {k \in 0 .. N : at[k] = 0}
<1>1. n \in Nat /\ N \in Nat \ {0} /\ s \in [1 .. n -> 1 .. N]
  BY DEF S!PsdConstants, S!Entries
<1>2. n <= N
  <2> SUFFICES ASSUME N < n PROVE FALSE
    BY <1>1
  <2>1. \A l \in Nat : IsFiniteSet(1 .. l) /\ Cardinality(1 .. l) = l
    BY FS_Interval
  <2> HIDE DEF n, N
  <2>2. /\ IsFiniteSet(1 .. n) /\ IsFiniteSet(1 .. N) /\ s \in [1 .. n -> 1 .. N]
        /\ Cardinality(1 .. N) < Cardinality(1 .. n)
    BY <1>1, <2>1
  <2>3. \E x, y \in 1 .. n : x # y /\ s[x] = s[y]
    BY ONLY <2>2, FS_PigeonHole
  <2> QED
    BY <2>3 DEF n
<1>3. S!Chain(first, link) = [k \in 1 .. (IF ends = {} THEN N + 1 ELSE S!Min(ends)) |-> at[k - 1]]
  BY DEF S!Chain
<1> HIDE DEF N
<1>4. \A k \in 0 .. N : g[k] = IF k = 0 THEN first ELSE IF g[k - 1] = 0 THEN 0 ELSE link[g[k - 1]]
  <2> TAKE k \in 0 .. N
  <2>1. CASE k = 0
    <3>1. g[0] = S!Nth(s, 1)
      BY <1>1
    <3> QED
      BY <2>1, <3>1
  <2>2. CASE k # 0
    <3>1. k \in Nat \ {0} /\ k + 1 \in Nat \ {0} /\ k - 1 \in 0 .. N /\ (k - 1) + 1 = k
      BY <1>1, <2>2
    <3>2. g[k] = S!Nth(s, k + 1) /\ g[k - 1] = S!Nth(s, k)
      BY <3>1
    <3> HIDE DEF g
    <3>3. CASE k > n
      <4>1. S!Nth(s, k) = 0 /\ k + 1 > n
        BY <1>1, <3>1, <3>3, NthFacts
      <4>2. S!Nth(s, k + 1) = 0
        BY <3>1, <4>1, NthFacts
      <4> QED
        BY <2>2, <3>2, <4>1, <4>2
    <3>4. CASE ~(k > n)
      <4>1. k \in 1 .. n /\ k <= n
        BY <1>1, <3>1, <3>4
      <4>2. S!Nth(s, k) = s[k] /\ S!Nth(s, k) # 0
        BY <3>1, <3>4, <4>1, NthFacts
      <4> QED
        BY <2>2, <3>2, <4>1, <4>2
    <3> QED
      BY <3>3, <3>4
  <2> QED
    BY <2>1, <2>2
<1>5. at = [k \in 0 .. N |-> IF k = 0 THEN first ELSE IF at[k - 1] = 0 THEN 0 ELSE link[at[k - 1]]]
  <2>1. g = [k \in 0 .. N |-> IF k = 0 THEN first ELSE IF g[k - 1] = 0 THEN 0 ELSE link[g[k - 1]]]
    BY <1>4
  <2> HIDE DEF g
  <2> QED
    BY <2>1 DEF at
<1> HIDE DEF at
<1>6. \A k \in 0 .. N : at[k] = g[k]
  <2> DEFINE B == {k \in 0 .. N : at[k] = g[k]}
  <2>1. 0 \in B /\ 0 \in Nat
    <3>1. 0 \in 0 .. N
      BY <1>1
    <3>2. at[0] = first /\ g[0] = first
      BY <1>4, <1>5, <3>1
    <3> QED
      BY <3>1, <3>2
  <2>2. ASSUME NEW k \in 0 + 1 .. N, k - 1 \in B
        PROVE  k \in B
    <3>1. k \in 0 .. N /\ k # 0 /\ at[k - 1] = g[k - 1]
      BY <1>1, <2>2
    <3>2. at[k] = IF at[k - 1] = 0 THEN 0 ELSE link[at[k - 1]]
      BY <1>5, <3>1
    <3>3. g[k] = IF g[k - 1] = 0 THEN 0 ELSE link[g[k - 1]]
      BY <1>4, <3>1
    <3> QED
      BY <3>1, <3>2, <3>3
  <2> HIDE DEF B
  <2>3. \A k \in 0 .. N : k \in B
    BY <1>1, <2>1, <2>2, Stepwise
  <2> QED
    BY <2>3 DEF B
<1>7. \A k \in 0 .. N : at[k] = S!Nth(s, k + 1)
  BY <1>6
<1> HIDE DEF g
<1>8. \A k \in 0 .. N : at[k] = 0 <=> k >= n
  <2> TAKE k \in 0 .. N
  <2>1. k + 1 \in Nat \ {0} /\ (k + 1 > n <=> k >= n)
    BY <1>1
  <2> QED
    BY <1>7, <2>1, NthFacts
<1>9. n \in ends /\ \A k \in ends : k \in Int /\ n <= k
  <2>1. n \in 0 .. N /\ n >= n
    BY <1>1, <1>2
  <2>2. \A k \in 0 .. N : k \in Int /\ (k >= n => n <= k)
    BY <1>1
  <2> QED
    BY <1>8, <2>1, <2>2
<1> HIDE DEF ends
<1>10. S!Min(ends) = n
  <2>1. \E x \in ends : \A y \in ends : x <= y
    BY <1>9
  <2>2. S!Min(ends) \in ends /\ \A y \in ends : S!Min(ends) <= y
    BY <2>1 DEF S!Min
  <2>3. S!Min(ends) <= n /\ n <= S!Min(ends) /\ S!Min(ends) \in Int
    BY <1>9, <2>2
  <2> HIDE DEF n
  <2> QED
    BY <1>1, <2>3
<1>11. S!Chain(first, link) = [k \in 1 .. n |-> at[k - 1]]
  BY <1>3, <1>9, <1>10
<1>12. \A k \in 1 .. n : at[k - 1] = s[k]
  <2> TAKE k \in 1 .. n
  <2>1. k - 1 \in 0 .. N /\ (k - 1) + 1 = k /\ k \in Nat \ {0} /\ k <= n
    BY <1>1, <1>2
  <2> QED
    BY <1>7, <2>1, NthFacts
<1> QED
  BY <1>1, <1>11, <1>12

LEMMA SortedApart == ASSUME NEW c, NEW t, S!Sorted(c, t) PROVE Apart(c)
<1> SUFFICES ASSUME NEW h \in S!Values, NEW g \in S!Values,
                    NEW i \in 1 .. Len(c[h]), NEW j \in 1 .. Len(c[g]), c[h][i] = c[g][j]
             PROVE  h = g /\ i = j
  BY DEF Apart
<1>1. Hash[t.list[c[h][i]].saddr] = h /\ Hash[t.list[c[g][j]].saddr] = g
  BY DEF S!Sorted
<1>2. h = g
  BY <1>1
<1> QED
  BY <1>2 DEF S!Sorted

\* The chains that are meant are those that are found.
LEMMA ChainsAre ==
    ASSUME S!PsdConstants, NEW c, NEW t, S!Chained(c, t)
    PROVE  c = [h \in S!Values |-> S!Chain(t.head[h], t.next)]
<1>1. c \in [S!Values -> Seq(S!Entries)] /\ S!Linked(c, t) /\ Apart(c)
  BY SortedApart DEF S!Chained
<1>2. ASSUME NEW h \in S!Values PROVE S!Chain(t.head[h], t.next) = c[h]
  <2>1. c[h] \in Seq(S!Entries) /\ \A i, j \in 1 .. Len(c[h]) : c[h][i] = c[h][j] => i = j
    BY <1>1 DEF Apart
  <2>2. t.head[h] = S!Nth(c[h], 1) /\ \A i \in 1 .. Len(c[h]) : t.next[c[h][i]] = S!Nth(c[h], i + 1)
    BY <1>1 DEF S!Linked
  <2> QED
    BY <2>1, <2>2, ChainIs
<1> QED
  BY <1>1, <1>2

-----------------------------------------------------------------------------
(* An entry leaves a chain, and another comes to the front of one            *)

In(c, h) == {c[h][i] : i \in 1 .. Len(c[h])}
Skip(k, i) == IF i < k THEN i ELSE i + 1
Dropped(s, k) == [i \in 1 .. Len(s) - 1 |-> s[Skip(k, i)]]
Drop(c, h, k) == [c EXCEPT ![h] = Dropped(c[h], k)]
Pushed(s, e) == [i \in 1 .. Len(s) + 1 |-> IF i = 1 THEN e ELSE s[i - 1]]
Push(c, h, e) == [c EXCEPT ![h] = Pushed(c[h], e)]

LEMMA DroppedFacts ==
    ASSUME NEW s \in Seq(S!Entries), NEW k \in 1 .. Len(s)
    PROVE  /\ Dropped(s, k) \in Seq(S!Entries) /\ Len(Dropped(s, k)) = Len(s) - 1
           /\ Len(s) \in Nat
           /\ \A i \in 1 .. Len(s) - 1 :
                /\ Skip(k, i) \in 1 .. Len(s) /\ Skip(k, i) # k
                /\ Dropped(s, k)[i] = s[Skip(k, i)]
           /\ \A i, j \in 1 .. Len(s) - 1 : Skip(k, i) = Skip(k, j) => i = j
<1> DEFINE n == Len(s)
<1>1. n \in Nat /\ n - 1 \in Nat /\ k \in 1 .. n /\ \A i \in 1 .. n : s[i] \in S!Entries
  OBVIOUS
<1>2. \A i \in 1 .. n - 1 : Skip(k, i) \in 1 .. n /\ Skip(k, i) # k
  BY <1>1 DEF Skip
<1>3. \A i, j \in 1 .. n - 1 : Skip(k, i) = Skip(k, j) => i = j
  BY <1>1 DEF Skip
<1>4. Dropped(s, k) = [i \in 1 .. n - 1 |-> s[Skip(k, i)]]
  BY DEF Dropped
<1>5. Dropped(s, k) \in [1 .. n - 1 -> S!Entries]
  BY <1>1, <1>2, <1>4
<1> HIDE DEF n
<1>6. Dropped(s, k) \in Seq(S!Entries) /\ Len(Dropped(s, k)) = n - 1
  BY <1>1, <1>5
<1> QED
  BY <1>1, <1>2, <1>3, <1>4, <1>6 DEF n

\* Changing one place of a table changes nothing else.
LEMMA NextChanged ==
    ASSUME NEW t \in Table, NEW e \in S!Entries, NEW v \in 0 .. ListSize,
           NEW u, u = [t EXCEPT !.next[e] = v]
    PROVE  /\ u \in Table /\ u.list = t.list /\ u.head = t.head
           /\ u.next = [t.next EXCEPT ![e] = v]
<1>1. u.next = [t.next EXCEPT ![e] = v] /\ u.head = t.head /\ u.list = t.list
  BY DEF Table
<1>2. [t.next EXCEPT ![e] = v] \in [S!Entries -> 0 .. ListSize]
  BY DEF Table
<1>3. u = [t EXCEPT !.next = [t.next EXCEPT ![e] = v]]
  BY DEF Table
<1> QED
  BY <1>1, <1>2, <1>3 DEF Table

\* ht_unlink takes the entry at a place out of its chain.
LEMMA Unlinked ==
    ASSUME S!PsdConstants, NEW c \in [S!Values -> Seq(S!Entries)], NEW t \in Table,
           S!Linked(c, t), Apart(c), NEW h \in S!Values, NEW k \in 1 .. Len(c[h]),
           NEW u, u = S!Unlink(t, h, S!Before(c[h], k))
    PROVE  /\ u \in Table /\ u.list = t.list
           /\ Drop(c, h, k) \in [S!Values -> Seq(S!Entries)] /\ S!Linked(Drop(c, h, k), u)
<1> DEFINE s == c[h]
           n == Len(s)
           d == Drop(c, h, k)
<1>1. /\ s \in Seq(S!Entries) /\ n \in Nat /\ k \in 1 .. n /\ k \in Nat \ {0} /\ k + 1 \in Nat \ {0}
      /\ \A g \in S!Values : c[g] \in Seq(S!Entries)
  OBVIOUS
<1>2. /\ Dropped(s, k) \in Seq(S!Entries) /\ Len(Dropped(s, k)) = n - 1
      /\ \A i \in 1 .. n - 1 : /\ Skip(k, i) \in 1 .. n /\ Dropped(s, k)[i] = s[Skip(k, i)]
  BY <1>1, DroppedFacts
<1>3. /\ d \in [S!Values -> Seq(S!Entries)] /\ d[h] = Dropped(s, k)
      /\ \A g \in S!Values : g # h => d[g] = c[g]
  BY <1>2 DEF Drop
<1>4. /\ t.head \in [S!Values -> 0 .. ListSize] /\ t.next \in [S!Entries -> 0 .. ListSize]
      /\ t.list \in [S!Entries -> S!Entry]
  BY DEF Table
<1>5. /\ \A g \in S!Values : t.head[g] = S!Nth(c[g], 1)
      /\ \A g \in S!Values : \A i \in 1 .. Len(c[g]) : t.next[c[g][i]] = S!Nth(c[g], i + 1)
  BY DEF S!Linked
<1>6. s[k] \in S!Entries /\ t.next[s[k]] = S!Nth(s, k + 1) /\ S!Nth(s, k + 1) \in 0 .. ListSize
  <2>1. s[k] \in S!Entries /\ t.next[s[k]] = S!Nth(s, k + 1)
    BY <1>1, <1>5
  <2>2. S!Nth(s, k + 1) \in 0 .. ListSize
    BY <1>1, NthFacts
  <2> QED
    BY <2>1, <2>2
<1>7. \A i \in 1 .. n - 1 : S!Nth(Dropped(s, k), i) = s[Skip(k, i)]
  <2> TAKE i \in 1 .. n - 1
  <2>1. i <= Len(Dropped(s, k))
    BY <1>1, <1>2
  <2> QED
    BY <1>2, <2>1 DEF S!Nth
<1>8. S!Nth(Dropped(s, k), n) = 0
  <2>1. ~(n <= Len(Dropped(s, k)))
    BY <1>1, <1>2
  <2> QED
    BY <2>1 DEF S!Nth
<1>9. \A i \in 1 .. n : S!Nth(Dropped(s, k), i) = IF i < k THEN s[i] ELSE S!Nth(s, i + 1)
  <2> TAKE i \in 1 .. n
  <2>1. CASE i = n
    <3>1. ~(i < k) /\ i + 1 \in Nat \ {0} /\ i + 1 > n
      BY <1>1, <2>1
    <3>2. S!Nth(s, i + 1) = 0
      BY <1>1, <3>1, NthFacts
    <3> QED
      BY <1>8, <2>1, <3>1, <3>2
  <2>2. CASE i # n
    <3>1. i \in 1 .. n - 1 /\ i + 1 \in Nat \ {0} /\ i + 1 <= n
      BY <1>1, <2>2
    <3>2. S!Nth(s, i + 1) = s[i + 1]
      BY <1>1, <3>1, NthFacts
    <3> QED
      BY <1>7, <3>1, <3>2 DEF Skip
  <2> QED
    BY <2>1, <2>2
<1> HIDE DEF d, n
<1>10. CASE k = 1
  <2>1. S!Before(s, k) = 0 /\ t.head[h] = s[1] /\ s[1] # 0
    <3>1. S!Nth(s, 1) = s[1] /\ S!Nth(s, 1) # 0
      <4>1. 1 \in Nat \ {0} /\ 1 <= n /\ ~(1 > n)
        BY <1>1, <1>10
      <4> QED
        BY <1>1, <4>1, NthFacts DEF n
    <3> QED
      BY <1>5, <1>10, <3>1 DEF S!Before
  <2>2. u = [t EXCEPT !.head[h] = t.next[t.head[h]]]
    BY <2>1 DEF S!Unlink
  <2>3. /\ u \in Table /\ u.list = t.list /\ u.next = t.next
        /\ u.head = [t.head EXCEPT ![h] = S!Nth(s, 2)]
    <3>1. t.next[t.head[h]] = S!Nth(s, 2) /\ S!Nth(s, 2) \in 0 .. ListSize
      BY <1>6, <1>10, <2>1
    <3> DEFINE v == S!Nth(s, 2)
    <3>2. u = [t EXCEPT !.head[h] = v] /\ v \in 0 .. ListSize
      BY <2>2, <3>1
    <3> HIDE DEF v
    <3>3. /\ u.list = t.list /\ u.next = t.next /\ u.head = [t.head EXCEPT ![h] = v]
          /\ [t.head EXCEPT ![h] = v] \in [S!Values -> 0 .. ListSize]
      BY <3>2 DEF Table
    <3>4. u = [t EXCEPT !.head = [t.head EXCEPT ![h] = v]]
      BY <3>2 DEF Table
    <3>5. u \in Table
      BY <3>3, <3>4 DEF Table
    <3> QED
      BY <3>3, <3>5 DEF v
  <2>4. \A g \in S!Values : u.head[g] = S!Nth(d[g], 1)
    <3> TAKE g \in S!Values
    <3>1. CASE g = h
      <4>1. 1 \in 1 .. n /\ ~(1 < k)
        BY <1>1, <1>10
      <4>2. S!Nth(Dropped(s, k), 1) = S!Nth(s, 2)
        BY <1>9, <4>1
      <4> QED
        BY <1>3, <1>4, <2>3, <3>1, <4>2
    <3>2. CASE g # h
      BY <1>3, <1>4, <1>5, <2>3, <3>2
    <3> QED
      BY <3>1, <3>2
  <2>5. \A g \in S!Values : \A i \in 1 .. Len(d[g]) : u.next[d[g][i]] = S!Nth(d[g], i + 1)
    <3> TAKE g \in S!Values
    <3> TAKE i \in 1 .. Len(d[g])
    <3>1. CASE g = h
      <4>1. i \in 1 .. n - 1 /\ i + 1 \in 1 .. n /\ ~(i < k) /\ ~(i + 1 < k)
        BY <1>1, <1>2, <1>3, <1>10, <3>1
      <4>2. d[g][i] = s[i + 1]
        BY <1>2, <1>3, <3>1, <4>1 DEF Skip
      <4>3. S!Nth(d[g], i + 1) = S!Nth(s, (i + 1) + 1)
        BY <1>3, <1>9, <3>1, <4>1
      <4>4. t.next[s[i + 1]] = S!Nth(s, (i + 1) + 1)
        BY <1>5, <4>1 DEF n
      <4> QED
        BY <2>3, <4>2, <4>3, <4>4
    <3>2. CASE g # h
      BY <1>3, <1>5, <2>3, <3>2
    <3> QED
      BY <3>1, <3>2
  <2> QED
    BY <1>3, <2>3, <2>4, <2>5 DEF S!Linked, d
<1>11. CASE k # 1
  <2>1. k - 1 \in 1 .. n /\ k - 1 \in 1 .. Len(c[h]) /\ (k - 1) + 1 = k
    BY <1>1, <1>11 DEF n
  <2>2. S!Before(s, k) = s[k - 1] /\ s[k - 1] \in S!Entries /\ s[k - 1] # 0
    <3>1. s[k - 1] \in S!Entries
      BY <1>1, <2>1
    <3>2. \A e \in S!Entries : e # 0
      BY DEF S!Entries, S!PsdConstants
    <3> QED
      BY <1>11, <3>1, <3>2 DEF S!Before
  <2>3. t.next[s[k - 1]] = s[k]
    <3>1. t.next[s[k - 1]] = S!Nth(s, k)
      BY <1>5, <2>1
    <3> QED
      BY <1>1, <3>1 DEF S!Nth, n
  <2>4. u = [t EXCEPT !.next[s[k - 1]] = t.next[t.next[s[k - 1]]]]
    BY <2>2 DEF S!Unlink
  <2>5. /\ u \in Table /\ u.list = t.list /\ u.head = t.head
        /\ u.next = [t.next EXCEPT ![s[k - 1]] = S!Nth(s, k + 1)]
    BY <1>6, <2>2, <2>3, <2>4, NextChanged
  <2>6. \A g \in S!Values : u.head[g] = S!Nth(d[g], 1)
    <3> TAKE g \in S!Values
    <3>1. CASE g = h
      <4>1. 1 \in 1 .. n /\ 1 < k
        BY <1>1, <1>11
      <4>2. S!Nth(Dropped(s, k), 1) = s[1] /\ S!Nth(s, 1) = s[1]
        BY <1>9, <4>1 DEF S!Nth, n
      <4> QED
        BY <1>3, <1>5, <2>5, <3>1, <4>2
    <3>2. CASE g # h
      BY <1>3, <1>5, <2>5, <3>2
    <3> QED
      BY <3>1, <3>2
  <2>7. \A g \in S!Values : \A i \in 1 .. Len(c[g]) : c[g][i] = s[k - 1] => g = h /\ i = k - 1
    BY <2>1 DEF Apart
  <2>8. \A g \in S!Values : \A i \in 1 .. Len(d[g]) : u.next[d[g][i]] = S!Nth(d[g], i + 1)
    <3> TAKE g \in S!Values
    <3> TAKE i \in 1 .. Len(d[g])
    <3>1. CASE g # h
      <4>1. d[g] = c[g] /\ c[g][i] # s[k - 1] /\ c[g][i] \in S!Entries
        BY <1>1, <1>3, <2>7, <3>1
      <4>2. u.next[c[g][i]] = t.next[c[g][i]]
        BY <1>4, <2>5, <4>1
      <4> QED
        BY <1>5, <4>1, <4>2
    <3>2. CASE g = h
      <4>1. i \in 1 .. n - 1 /\ i + 1 \in 1 .. n /\ i \in 1 .. n
        BY <1>1, <1>2, <1>3, <3>2
      <4>2. d[g][i] = s[Skip(k, i)] /\ Skip(k, i) \in 1 .. n
        BY <1>2, <1>3, <3>2, <4>1
      <4>3. S!Nth(d[g], i + 1) = IF i + 1 < k THEN s[i + 1] ELSE S!Nth(s, (i + 1) + 1)
        BY <1>3, <1>9, <3>2, <4>1
      <4>4. CASE i = k - 1
        <5>1. Skip(k, i) = k - 1 /\ ~(i + 1 < k) /\ i + 1 = k
          BY <1>1, <4>1, <4>4 DEF Skip
        <5>2. u.next[s[k - 1]] = S!Nth(s, k + 1)
          BY <1>4, <2>2, <2>5
        <5> QED
          BY <4>2, <4>3, <5>1, <5>2
      <4>5. CASE i # k - 1
        <5>1. Skip(k, i) # k - 1
          BY <1>1, <4>1, <4>5 DEF Skip
        <5>2. s[Skip(k, i)] # s[k - 1] /\ s[Skip(k, i)] \in S!Entries
          BY <1>1, <2>7, <4>2, <5>1 DEF n
        <5>3. u.next[s[Skip(k, i)]] = S!Nth(s, Skip(k, i) + 1)
          BY <1>4, <1>5, <2>5, <4>2, <5>2 DEF n
        <5>4. CASE i < k
          <6>1. Skip(k, i) = i /\ i + 1 < k /\ i + 1 <= n
            BY <1>1, <4>1, <4>5, <5>4 DEF Skip
          <6>2. S!Nth(s, i + 1) = s[i + 1]
            BY <6>1 DEF S!Nth, n
          <6> QED
            BY <4>2, <4>3, <5>3, <6>1, <6>2
        <5>5. CASE ~(i < k)
          <6>1. Skip(k, i) = i + 1 /\ ~(i + 1 < k)
            BY <1>1, <4>1, <5>5 DEF Skip
          <6> QED
            BY <4>2, <4>3, <5>3, <6>1
        <5> QED
          BY <5>4, <5>5
      <4> QED
        BY <4>4, <4>5
    <3> QED
      BY <3>1, <3>2
  <2> QED
    BY <1>3, <2>5, <2>6, <2>8 DEF S!Linked, d
<1> QED
  BY <1>10, <1>11

\* What is left of the chains is sorted as they were.
LEMMA DropSorted ==
    ASSUME NEW c \in [S!Values -> Seq(S!Entries)], NEW t, S!Sorted(c, t),
           NEW h \in S!Values, NEW k \in 1 .. Len(c[h]), NEW u,
           \A g \in S!Values : \A e \in In(c, g) \ {c[h][k]} : u.list[e].saddr = t.list[e].saddr
    PROVE  /\ Drop(c, h, k) \in [S!Values -> Seq(S!Entries)]
           /\ S!Sorted(Drop(c, h, k), u)
           /\ \A g \in S!Values : \A e \in In(Drop(c, h, k), g) : e \in In(c, g) /\ e # c[h][k]
<1> DEFINE s == c[h]
           d == Drop(c, h, k)
           from(g, i) == IF g = h THEN Skip(k, i) ELSE i
<1>1. /\ Dropped(s, k) \in Seq(S!Entries) /\ Len(Dropped(s, k)) = Len(s) - 1
      /\ \A i \in 1 .. Len(s) - 1 :
           /\ Skip(k, i) \in 1 .. Len(s) /\ Skip(k, i) # k
           /\ Dropped(s, k)[i] = s[Skip(k, i)]
      /\ \A i, j \in 1 .. Len(s) - 1 : Skip(k, i) = Skip(k, j) => i = j
  BY DroppedFacts
<1>2. /\ d \in [S!Values -> Seq(S!Entries)] /\ d[h] = Dropped(s, k)
      /\ \A g \in S!Values : g # h => d[g] = c[g]
  BY <1>1 DEF Drop
<1> HIDE DEF d
<1>3. \A g \in S!Values : \A i \in 1 .. Len(d[g]) :
        /\ from(g, i) \in 1 .. Len(c[g]) /\ d[g][i] = c[g][from(g, i)]
        /\ g = h => from(g, i) # k
  BY <1>1, <1>2
<1>4. \A g \in S!Values : \A i, j \in 1 .. Len(d[g]) : from(g, i) = from(g, j) => i = j
  BY <1>1, <1>2
<1>5. Apart(c)
  BY SortedApart
<1> HIDE DEF from
<1>6. \A g \in S!Values : \A i \in 1 .. Len(d[g]) :
        /\ c[g][from(g, i)] # c[h][k]
        /\ u.list[d[g][i]].saddr = t.list[c[g][from(g, i)]].saddr
  <2> TAKE g \in S!Values
  <2> TAKE i \in 1 .. Len(d[g])
  <2>1. c[g][from(g, i)] # c[h][k]
    BY <1>3, <1>5 DEF Apart
  <2>2. d[g][i] \in In(c, g) \ {c[h][k]}
    BY <1>3, <2>1 DEF In
  <2> QED
    BY <1>3, <2>1, <2>2
<1>7. S!Sorted(d, u)
  <2> SUFFICES ASSUME NEW g \in S!Values, NEW i \in 1 .. Len(d[g])
               PROVE  /\ u.list[d[g][i]].saddr \in Source /\ Hash[u.list[d[g][i]].saddr] = g
                      /\ \A j \in 1 .. Len(d[g]) :
                           u.list[d[g][j]].saddr = u.list[d[g][i]].saddr => i = j
    BY DEF S!Sorted
  <2>1. t.list[c[g][from(g, i)]].saddr \in Source /\ Hash[t.list[c[g][from(g, i)]].saddr] = g
    BY <1>3 DEF S!Sorted
  <2>2. ASSUME NEW j \in 1 .. Len(d[g]), u.list[d[g][j]].saddr = u.list[d[g][i]].saddr
        PROVE  i = j
    <3>1. from(g, i) \in 1 .. Len(c[g]) /\ from(g, j) \in 1 .. Len(c[g])
      BY <1>3
    <3>2. t.list[c[g][from(g, j)]].saddr = t.list[c[g][from(g, i)]].saddr
      BY <1>6, <2>2
    <3>3. from(g, i) = from(g, j)
      BY <3>1, <3>2 DEF S!Sorted
    <3> QED
      BY <1>4, <3>3
  <2> QED
    BY <1>6, <2>1, <2>2
<1>8. \A g \in S!Values : \A e \in In(d, g) : e \in In(c, g) /\ e # c[h][k]
  BY <1>3, <1>6 DEF In
<1> QED
  BY <1>2, <1>7, <1>8 DEF d

LEMMA PushedFacts ==
    ASSUME NEW s \in Seq(S!Entries), NEW e \in S!Entries
    PROVE  /\ Pushed(s, e) \in Seq(S!Entries) /\ Len(Pushed(s, e)) = Len(s) + 1 /\ Len(s) \in Nat
           /\ Pushed(s, e)[1] = e
           /\ \A i \in 2 .. Len(s) + 1 : i - 1 \in 1 .. Len(s) /\ Pushed(s, e)[i] = s[i - 1]
<1> DEFINE n == Len(s)
<1>1. n \in Nat /\ \A i \in 1 .. n : s[i] \in S!Entries
  OBVIOUS
<1>2. \A i \in 1 .. n + 1 : i # 1 => i - 1 \in 1 .. n
  BY <1>1
<1>3. Pushed(s, e) = [i \in 1 .. n + 1 |-> IF i = 1 THEN e ELSE s[i - 1]]
  BY DEF Pushed
<1>4. Pushed(s, e) \in [1 .. n + 1 -> S!Entries]
  BY <1>1, <1>2, <1>3
<1>5. 1 \in 1 .. n + 1 /\ n + 1 \in Nat /\ \A i \in 2 .. n + 1 : i \in 1 .. n + 1 /\ i # 1
  BY <1>1
<1> HIDE DEF n
<1>6. Pushed(s, e) \in Seq(S!Entries) /\ Len(Pushed(s, e)) = n + 1
  BY <1>4, <1>5
<1> QED
  BY <1>1, <1>2, <1>3, <1>5, <1>6 DEF n

\* An entry that is in no chain comes to the front of the one of its address.
LEMMA PushedIn ==
    ASSUME S!PsdConstants, NEW c, NEW t \in Table, S!Chained(c, t),
           NEW e \in S!Entries, \A g \in S!Values : e \notin In(c, g),
           NEW a \in Source, \A f \in In(c, Hash[a]) : t.list[f].saddr # a,
           NEW v \in S!Entry, v.saddr = a,
           NEW u, u = [head |-> [t.head EXCEPT ![Hash[a]] = e],
                       next |-> [t.next EXCEPT ![e] = t.head[Hash[a]]],
                       list |-> [t.list EXCEPT ![e] = v]]
    PROVE  /\ u \in Table /\ S!Chained(Push(c, Hash[a], e), u)
           /\ \A g \in S!Values : \A f \in In(Push(c, Hash[a], e), g) : f \in In(c, g) \/ f = e
<1> DEFINE h == Hash[a]
           s == c[h]
           d == Push(c, h, e)
<1>1. h \in S!Values /\ c \in [S!Values -> Seq(S!Entries)] /\ S!Linked(c, t) /\ S!Sorted(c, t)
  BY DEF S!Values, S!Chained
<1>2. s \in Seq(S!Entries) /\ Len(s) \in Nat
  BY <1>1
<1>3. /\ Pushed(s, e) \in Seq(S!Entries) /\ Len(Pushed(s, e)) = Len(s) + 1
      /\ Pushed(s, e)[1] = e
      /\ \A i \in 2 .. Len(s) + 1 : i - 1 \in 1 .. Len(s) /\ Pushed(s, e)[i] = s[i - 1]
  BY <1>2, PushedFacts
<1> HIDE DEF h
<1>4. /\ d \in [S!Values -> Seq(S!Entries)] /\ d[h] = Pushed(s, e)
      /\ \A g \in S!Values : g # h => d[g] = c[g]
  BY <1>1, <1>3 DEF Push
<1> HIDE DEF d
<1>5. /\ t.head \in [S!Values -> 0 .. ListSize] /\ t.next \in [S!Entries -> 0 .. ListSize]
      /\ t.list \in [S!Entries -> S!Entry]
  BY DEF Table
<1>6. /\ u.head = [t.head EXCEPT ![h] = e] /\ u.next = [t.next EXCEPT ![e] = t.head[h]]
      /\ u.list = [t.list EXCEPT ![e] = v]
  BY DEF h
<1>7. u \in Table
  <2>1. e \in 0 .. ListSize /\ t.head[h] \in 0 .. ListSize
    BY <1>1, <1>5 DEF S!Entries, S!PsdConstants
  <2>2. /\ [t.head EXCEPT ![h] = e] \in [S!Values -> 0 .. ListSize]
        /\ [t.next EXCEPT ![e] = t.head[h]] \in [S!Entries -> 0 .. ListSize]
        /\ [t.list EXCEPT ![e] = v] \in [S!Entries -> S!Entry]
    BY <1>1, <1>5, <2>1
  <2> QED
    BY <2>2 DEF Table, h
<1>8. \A g \in S!Values : \A i \in 1 .. Len(c[g]) :
        /\ c[g][i] \in S!Entries /\ c[g][i] # e
        /\ u.next[c[g][i]] = S!Nth(c[g], i + 1) /\ u.list[c[g][i]] = t.list[c[g][i]]
  <2> TAKE g \in S!Values
  <2> TAKE i \in 1 .. Len(c[g])
  <2>1. c[g][i] \in S!Entries /\ c[g][i] \in In(c, g)
    BY <1>1 DEF In
  <2>2. t.next[c[g][i]] = S!Nth(c[g], i + 1)
    BY <1>1 DEF S!Linked
  <2> QED
    BY <1>5, <1>6, <2>1, <2>2
<1>9. \A i \in 1 .. Len(s) + 1 : i = 1 \/ i \in 2 .. Len(s) + 1
  BY <1>2
<1>10. S!Linked(d, u)
  <2> SUFFICES ASSUME NEW g \in S!Values
               PROVE  /\ u.head[g] = S!Nth(d[g], 1)
                      /\ \A i \in 1 .. Len(d[g]) : u.next[d[g][i]] = S!Nth(d[g], i + 1)
    BY DEF S!Linked
  <2>1. CASE g = h
    <3>1. 1 <= Len(Pushed(s, e)) /\ u.head[h] = e
      BY <1>1, <1>2, <1>3, <1>5, <1>6
    <3>2. u.head[g] = S!Nth(d[g], 1)
      BY <1>3, <1>4, <2>1, <3>1 DEF S!Nth
    <3>3. \A i \in Nat \ {0} : S!Nth(Pushed(s, e), i + 1) = S!Nth(s, i)
      <4> TAKE i \in Nat \ {0}
      <4>1. CASE i <= Len(s)
        <5>1. i + 1 \in 2 .. Len(s) + 1 /\ (i + 1) - 1 = i /\ i + 1 <= Len(s) + 1
          BY <1>2, <4>1
        <5> QED
          BY <1>3, <4>1, <5>1 DEF S!Nth
      <4>2. CASE ~(i <= Len(s))
        <5>1. ~(i + 1 <= Len(s) + 1)
          BY <1>2, <4>2
        <5> QED
          BY <1>3, <4>2, <5>1 DEF S!Nth
      <4> QED
        BY <4>1, <4>2
    <3>4. t.head[h] = S!Nth(s, 1)
      BY <1>1 DEF S!Linked
    <3>5. ASSUME NEW i \in 1 .. Len(d[g]) PROVE u.next[d[g][i]] = S!Nth(d[g], i + 1)
      <4>0. d[g] = Pushed(s, e) /\ i \in 1 .. Len(s) + 1
        BY <1>3, <1>4, <2>1
      <4>1. i \in 1 .. Len(s) + 1 /\ i \in Nat \ {0} /\ S!Nth(d[g], i + 1) = S!Nth(s, i)
        <5>1. i \in Nat \ {0}
          BY <1>2, <4>0
        <5> HIDE DEF s
        <5> QED
          BY <3>3, <4>0, <5>1
      <4>2. CASE i = 1
        <5>1. u.next[e] = t.head[h]
          BY <1>5, <1>6
        <5> QED
          BY <1>3, <1>4, <2>1, <3>4, <4>1, <4>2, <5>1
      <4>3. CASE i # 1
        <5>1. i \in 2 .. Len(s) + 1 /\ (i - 1) + 1 = i
          BY <1>9, <4>1, <4>3
        <5>2. d[g][i] = s[i - 1] /\ i - 1 \in 1 .. Len(s)
          BY <1>3, <1>4, <2>1, <5>1
        <5>3. u.next[s[i - 1]] = S!Nth(s, (i - 1) + 1)
          BY <1>1, <1>8, <5>2
        <5> QED
          BY <4>1, <5>1, <5>2, <5>3
      <4> QED
        BY <4>2, <4>3
    <3> QED
      BY <3>2, <3>5
  <2>2. CASE g # h
    <3>1. u.head[g] = t.head[g] /\ t.head[g] = S!Nth(c[g], 1)
      BY <1>1, <1>5, <1>6, <2>2 DEF S!Linked
    <3> QED
      BY <1>4, <1>8, <2>2, <3>1
  <2> QED
    BY <2>1, <2>2
<1>11. \A i \in 1 .. Len(s) : t.list[s[i]].saddr # a
  BY DEF In, h
<1>12. u.list[e] = v
  BY <1>5, <1>6
<1>13. S!Sorted(d, u)
  <2> SUFFICES ASSUME NEW g \in S!Values, NEW i \in 1 .. Len(d[g])
               PROVE  /\ u.list[d[g][i]].saddr \in Source /\ Hash[u.list[d[g][i]].saddr] = g
                      /\ \A j \in 1 .. Len(d[g]) :
                           u.list[d[g][j]].saddr = u.list[d[g][i]].saddr => i = j
    BY DEF S!Sorted
  <2>1. CASE g # h
    BY <1>1, <1>4, <1>8, <2>1 DEF S!Sorted
  <2>2. CASE g = h
    <3>1. \A j \in 1 .. Len(d[g]) :
            \/ j = 1 /\ u.list[d[g][j]].saddr = a
            \/ /\ j \in 2 .. Len(s) + 1 /\ j - 1 \in 1 .. Len(s)
               /\ u.list[d[g][j]].saddr = t.list[s[j - 1]].saddr
      <4> TAKE j \in 1 .. Len(d[g])
      <4>1. j = 1 \/ j \in 2 .. Len(s) + 1
        BY <1>3, <1>4, <1>9, <2>2
      <4>2. CASE j = 1
        BY <1>3, <1>4, <1>12, <2>2, <4>2
      <4>3. CASE j \in 2 .. Len(s) + 1
        <5>1. d[g][j] = s[j - 1] /\ j - 1 \in 1 .. Len(s)
          BY <1>3, <1>4, <2>2, <4>3
        <5> QED
          BY <1>1, <1>8, <4>3, <5>1
      <4> QED
        BY <4>1, <4>2, <4>3
    <3>2. \A j \in 1 .. Len(s) : t.list[s[j]].saddr \in Source /\ Hash[t.list[s[j]].saddr] = h
      BY <1>1 DEF S!Sorted
    <3>3. \A j, l \in 1 .. Len(s) : t.list[s[j]].saddr = t.list[s[l]].saddr => j = l
      BY <1>1 DEF S!Sorted
    <3>4. u.list[d[g][i]].saddr \in Source /\ Hash[u.list[d[g][i]].saddr] = g
      <4>1. CASE i = 1
        <5>1. u.list[d[g][i]].saddr = a
          BY <1>2, <3>1, <4>1
        <5> QED
          BY <2>2, <5>1 DEF h
      <4>2. CASE i # 1
        BY <2>2, <3>1, <3>2, <4>2
      <4> QED
        BY <4>1, <4>2
    <3>5. ASSUME NEW j \in 1 .. Len(d[g]), u.list[d[g][j]].saddr = u.list[d[g][i]].saddr
          PROVE  i = j
      <4>1. CASE i = 1
        <5>1. u.list[d[g][i]].saddr = a
          BY <1>2, <3>1, <4>1
        <5>2. j = 1
          BY <1>11, <3>1, <3>5, <5>1
        <5> QED
          BY <4>1, <5>2
      <4>2. CASE i # 1
        <5>1. /\ i \in 2 .. Len(s) + 1 /\ i - 1 \in 1 .. Len(s)
              /\ u.list[d[g][i]].saddr = t.list[s[i - 1]].saddr
          BY <3>1, <4>2
        <5>2. /\ j \in 2 .. Len(s) + 1 /\ j - 1 \in 1 .. Len(s)
              /\ u.list[d[g][j]].saddr = t.list[s[j - 1]].saddr
          BY <1>11, <3>1, <3>5, <5>1
        <5>3. i - 1 = j - 1
          BY <3>3, <3>5, <5>1, <5>2
        <5> QED
          BY <5>1, <5>2, <5>3
      <4> QED
        BY <4>1, <4>2
    <3> QED
      BY <3>4, <3>5
  <2> QED
    BY <2>1, <2>2
<1>14. \A g \in S!Values : \A f \in In(d, g) : f \in In(c, g) \/ f = e
  <2> SUFFICES ASSUME NEW g \in S!Values, NEW i \in 1 .. Len(d[g])
               PROVE  d[g][i] \in In(c, g) \/ d[g][i] = e
    BY DEF In
  <2>1. CASE g # h
    BY <1>4, <2>1 DEF In
  <2>2. CASE g = h
    <3>1. i = 1 \/ i \in 2 .. Len(s) + 1
      BY <1>3, <1>4, <1>9, <2>2
    <3>2. CASE i = 1
      BY <1>3, <1>4, <2>2, <3>2
    <3>3. CASE i \in 2 .. Len(s) + 1
      <4>1. d[g][i] = s[i - 1] /\ i - 1 \in 1 .. Len(s)
        BY <1>3, <1>4, <2>2, <3>3
      <4> QED
        BY <2>2, <4>1 DEF In
    <3> QED
      BY <3>1, <3>2, <3>3
  <2> QED
    BY <2>1, <2>2
<1> QED
  BY <1>4, <1>7, <1>10, <1>13, <1>14 DEF S!Chained, d, h

\* remove_oldest leaves the entry in no chain.
LEMMA OldestRemoved ==
    ASSUME S!PsdConstants, NEW c, NEW t \in Table, S!Chained(c, t), NEW e \in S!Entries,
           NEW r, r = S!RemoveOldest(t, e)
    PROVE  \E d : /\ r \in Table /\ r.list = t.list /\ S!Chained(d, r)
                  /\ \A g \in S!Values : e \notin In(d, g) /\ In(d, g) \subseteq In(c, g)
<1> DEFINE a == t.list[e].saddr
           h == Hash[a]
           links == S!Chain(t.head[h], t.next)
<1>1. c \in [S!Values -> Seq(S!Entries)] /\ S!Linked(c, t) /\ S!Sorted(c, t) /\ Apart(c)
  BY SortedApart DEF S!Chained
<1>2. a \in Source \cup {Unused} /\ Unused \notin Source
  BY DEF Table, S!Entry, S!PsdConstants
<1>3. \A g \in S!Values : e \in In(c, g) => a \in Source /\ g = h
  BY <1>1 DEF S!Sorted, In
<1>4. a \in Source => h \in S!Values /\ links = c[h]
  <2> SUFFICES ASSUME a \in Source PROVE h \in S!Values /\ links = c[h]
    OBVIOUS
  <2>1. h \in S!Values
    BY DEF S!Values
  <2>2. c = [g \in S!Values |-> S!Chain(t.head[g], t.next)]
    BY ChainsAre
  <2> HIDE DEF h
  <2> QED
    BY <2>1, <2>2
<1>5. r = IF a = Unused \/ e \notin {links[k] : k \in 1 .. Len(links)} THEN t
          ELSE S!Unlink(t, h, S!Before(links, S!Place(links, e)))
  BY DEF S!RemoveOldest
<1> HIDE DEF links, h, a
<1>6. CASE a = Unused \/ e \notin {links[k] : k \in 1 .. Len(links)}
  <2>1. r = t
    BY <1>5, <1>6
  <2>2. \A g \in S!Values : e \notin In(c, g)
    BY <1>2, <1>3, <1>4, <1>6 DEF In
  <2> QED
    BY <2>1, <2>2
<1>7. CASE ~(a = Unused \/ e \notin {links[k] : k \in 1 .. Len(links)})
  <2>1. h \in S!Values /\ links = c[h]
    BY <1>2, <1>4, <1>7
  <2>2. \E k \in 1 .. Len(links) : links[k] = e
    BY <1>7
  <2> DEFINE k == S!Place(links, e)
  <2>3. k \in 1 .. Len(c[h]) /\ c[h][k] = e
    BY <2>1, <2>2 DEF S!Place
  <2>4. r = S!Unlink(t, h, S!Before(c[h], k))
    BY <1>5, <1>7, <2>1
  <2> HIDE DEF k
  <2>5. /\ r \in Table /\ r.list = t.list
        /\ Drop(c, h, k) \in [S!Values -> Seq(S!Entries)] /\ S!Linked(Drop(c, h, k), r)
    BY <1>1, <2>1, <2>3, <2>4, Unlinked
  <2>6. /\ S!Sorted(Drop(c, h, k), r)
        /\ \A g \in S!Values : \A f \in In(Drop(c, h, k), g) : f \in In(c, g) /\ f # c[h][k]
    BY <1>1, <2>1, <2>3, <2>5, DropSorted
  <2>7. S!Chained(Drop(c, h, k), r)
    BY <2>5, <2>6 DEF S!Chained
  <2>8. \A g \in S!Values : e \notin In(Drop(c, h, k), g) /\ In(Drop(c, h, k), g) \subseteq In(c, g)
    BY <2>3, <2>6
  <2> QED
    BY <2>5, <2>7, <2>8
<1> QED
  BY <1>6, <1>7

\* What an entry is when it is made
Fresh(a, port) ==
  [saddr |-> a, stamp |-> clock, weight |-> Weight[port] % WeightMax, ports |-> {port}]

\* What is left in a field too narrow for a weight
LEMMA Wrapped ==
    ASSUME NEW v \in Nat, NEW m \in Nat \ {0}
    PROVE  v % m \in 0 .. m - 1 /\ v % m <= v
<1>1. v % m \in 0 .. m - 1
  OBVIOUS
<1>2. CASE v < m
  BY <1>2
<1>3. CASE ~(v < m)
  BY <1>1, <1>3
<1> QED
  BY <1>1, <1>2, <1>3

LEMMA FreshFacts ==
    ASSUME S!PsdConstants, clock \in Nat, NEW a \in Source, NEW port \in DOMAIN Weight
    PROVE  /\ Fresh(a, port) \in S!Entry /\ Fresh(a, port).saddr = a
           /\ Fresh(a, port).weight \in Nat /\ Fresh(a, port).weight <= Weight[port]
           /\ Weight[port] \in Nat /\ Fresh(a, port).ports = {port}
           /\ Cardinality({port}) = 1
<1>1. Weight[port] \in Nat /\ WeightMax \in Nat \ {0}
  BY DEF S!PsdConstants
<1>2. /\ Weight[port] % WeightMax \in 0 .. WeightMax - 1
      /\ Weight[port] % WeightMax <= Weight[port]
  BY <1>1, Wrapped
<1>3. Cardinality({port}) = 1
  BY FS_Singleton
<1>4. 0 .. WeightMax - 1 \subseteq Nat /\ clock \in 0 .. clock
  BY <1>1
<1> QED
  BY <1>1, <1>2, <1>3, <1>4 DEF Fresh, S!Entry

\* The next entry in the list is made for an address that has none.
LEMMA Entered ==
    ASSUME S!PsdConstants, S!PsdStateOK, NEW c, NEW t \in Table, S!Chained(c, t),
           NEW a \in Source, NEW port \in DOMAIN Weight,
           \A f \in In(c, Hash[a]) : t.list[f].saddr # a,
           NEW u, u = S!NewEntry(t, a, port)
    PROVE  \E d : /\ u \in Table /\ S!Chained(d, u)
                  /\ u.list = [t.list EXCEPT ![index] = Fresh(a, port)]
                  /\ \A g \in S!Values : \A f \in In(d, g) :
                       f = index \/ (f \in In(c, g) /\ f # index)
<1> DEFINE r == S!RemoveOldest(t, index)
<1>1. index \in S!Entries /\ clock \in Nat
  BY DEF S!PsdStateOK, S!PsdConstants
<1> HIDE DEF r
<1>2. PICK e : /\ r \in Table /\ r.list = t.list /\ S!Chained(e, r)
               /\ \A g \in S!Values : index \notin In(e, g) /\ In(e, g) \subseteq In(c, g)
  BY <1>1, OldestRemoved DEF r
<1>3. Fresh(a, port) \in S!Entry /\ Fresh(a, port).saddr = a
  BY <1>1, FreshFacts
<1>4. u = [head |-> [r.head EXCEPT ![Hash[a]] = index],
           next |-> [r.next EXCEPT ![index] = r.head[Hash[a]]],
           list |-> [r.list EXCEPT ![index] = Fresh(a, port)]]
  BY DEF S!NewEntry, Fresh, r
<1>5. \A f \in In(e, Hash[a]) : r.list[f].saddr # a
  <2>1. Hash[a] \in S!Values
    BY DEF S!Values
  <2> QED
    BY <1>2, <2>1
<1>6. /\ u \in Table /\ S!Chained(Push(e, Hash[a], index), u)
      /\ \A g \in S!Values : \A f \in In(Push(e, Hash[a], index), g) : f \in In(e, g) \/ f = index
  BY <1>1, <1>2, <1>3, <1>4, <1>5, PushedIn
<1>7. u.list = [t.list EXCEPT ![index] = Fresh(a, port)]
  BY <1>2, <1>4
<1>8. \A g \in S!Values : \A f \in In(Push(e, Hash[a], index), g) :
        f = index \/ (f \in In(c, g) /\ f # index)
  BY <1>2, <1>6
<1> QED
  BY <1>6, <1>7, <1>8

-----------------------------------------------------------------------------
(* What the entries weigh                                                    *)

Weighs(c, l, t) == \A h \in S!Values : \A f \in In(c, h) : S!Weighed(l[f], t[l[f].saddr])

LEMMA EnoughMore ==
    ASSUME S!PsdConstants, NEW P, NEW Q \in SUBSET DOMAIN Weight, P \subseteq Q
    PROVE  /\ Cardinality(P) \in Nat /\ Cardinality(Q) \in Nat /\ Cardinality(P) <= Cardinality(Q)
           /\ S!Enough(P) => S!Enough(Q)
           /\ IsFiniteSet(Q)
<1>1. S!Total(P) \in Nat /\ S!Total(Q) \in Nat /\ S!Total(P) <= S!Total(Q)
  BY TotalGrows
<1>2. Threshold \in Nat /\ PortMax \in Nat
  BY DEF S!PsdConstants
<1>3. IsFiniteSet(Q)
  <2>1. DOMAIN Weight = 1 .. Len(Weight) /\ Len(Weight) \in Nat
    BY SumFacts
  <2>2. IsFiniteSet(DOMAIN Weight)
    BY <2>1, FS_Interval
  <2> QED
    BY <2>2, FS_Subset
<1>4. Cardinality(P) \in Nat /\ Cardinality(Q) \in Nat /\ Cardinality(P) <= Cardinality(Q)
  BY <1>3, FS_Subset, FS_CardinalityType
<1> QED
  BY <1>1, <1>2, <1>3, <1>4, SameSizes DEF S!Enough

LEMMA WeighedMore ==
    ASSUME S!PsdConstants, NEW e, NEW P, NEW Q \in SUBSET DOMAIN Weight, P \subseteq Q,
           S!Weighed(e, P)
    PROVE  S!Weighed(e, Q)
<1>1. PortMax \in Nat
  BY DEF S!PsdConstants
<1> QED
  BY <1>1, EnoughMore, SameSizes DEF S!Weighed

LEMMA WeighedFresh ==
    ASSUME S!PsdConstants, clock \in Nat, NEW a \in Source, NEW port \in DOMAIN Weight
    PROVE  S!Weighed(Fresh(a, port), {port})
<1>1. S!Total({port}) = Weight[port]
  BY TotalOfOne
<1>2. Threshold \in Nat
  BY DEF S!PsdConstants
<1>3. /\ Fresh(a, port).weight \in Nat /\ Fresh(a, port).weight <= Weight[port]
      /\ Weight[port] \in Nat /\ Fresh(a, port).ports = {port}
  BY FreshFacts
<1> QED
  BY <1>1, <1>2, <1>3 DEF S!Weighed, S!Enough

\* Chains of the next state that are linked, sorted and weighed are its chains.
LEMMA Closes ==
    ASSUME S!PsdConstants, S!PsdStateOK', S!ScansAreScans,
           NEW c, S!Chained(c, S!Tables'), Weighs(c, list', tried')
    PROVE  S!PsdIInv'
<1>1. c = [h \in S!Values |-> S!Chain(S!Tables'.head[h], S!Tables'.next)]
  BY ChainsAre
<1>2. c = S!Chains'
  BY <1>1 DEF S!Chains, S!Tables
<1>3. S!Chained(S!Chains', S!Tables')
  BY <1>2
<1>4. \A h \in S!Values : \A i \in 1 .. Len(c[h]) : S!Weighed(list'[c[h][i]], tried'[list'[c[h][i]].saddr])
  BY DEF Weighs, In
<1>5. (\A h \in S!Values : \A i \in 1 .. Len(S!Chains[h]) :
         S!Weighed(list[S!Chains[h][i]], tried[list[S!Chains[h][i]].saddr]))'
  BY <1>2, <1>4 DEF S!Weighed, S!Enough
<1>6. S!Chained(S!Chains, S!Tables)'
  BY <1>3 DEF S!Chained, S!Linked, S!Sorted, S!Nth
<1>7. S!Founded'
  BY DEF S!Founded, S!ScansAreScans, S!Enough
<1> QED
  BY <1>5, <1>6, <1>7 DEF S!PsdIInv

-----------------------------------------------------------------------------
(* Packets                                                                   *)

Started ==
  S!PsdStateOK /\ S!Chained(S!Chains, S!Tables) /\ Weighs(S!Chains, list, tried) /\ S!Tables \in Table

LEMMA StartedFacts == ASSUME S!PsdIInv PROVE Started
<1>1. S!Tables \in Table
  BY DEF S!PsdIInv, S!PsdStateOK, S!Tables, Table
<1>2. Weighs(S!Chains, list, tried)
  BY DEF S!PsdIInv, Weighs, In
<1> QED
  BY <1>1, <1>2 DEF S!PsdIInv, Started

\* An entry that is made leaves the chains sound and the weights right, whatever
\* chains were left to it.
LEMMA EntryMade ==
    ASSUME S!PsdConstants, S!PsdStateOK, NEW c, NEW t \in Table, S!Chained(c, t),
           Weighs(c, t.list, tried), \A e \in S!Entries : Cardinality(t.list[e].ports) <= PortMax,
           NEW a \in Source, NEW port \in DOMAIN Weight,
           \A f \in In(c, Hash[a]) : t.list[f].saddr # a,
           S!Become(S!NewEntry(t, a, port)), index' = S!NextIndex(index), clock' = clock, scan' = {},
           tried' = [tried EXCEPT ![a] = IF index' # index THEN {port} ELSE @ \cup {port}]
    PROVE  S!PsdIInv'
<1> DEFINE u == S!NewEntry(t, a, port)
           v == Fresh(a, port)
<1>1. PICK d : /\ u \in Table /\ S!Chained(d, u)
               /\ u.list = [t.list EXCEPT ![index] = v]
               /\ \A g \in S!Values : \A f \in In(d, g) :
                    f = index \/ (f \in In(c, g) /\ f # index)
  BY Entered
<1>2. head' = u.head /\ next' = u.next /\ list' = u.list
  BY DEF S!Become
<1> HIDE DEF u, v
<1>3. /\ clock \in Nat /\ clock \in 0 .. MaxClock /\ index \in S!Entries
      /\ tried \in [Source -> SUBSET DOMAIN Weight]
  BY DEF S!PsdStateOK, S!PsdConstants
<1>4. /\ u.head \in [S!Values -> 0 .. ListSize] /\ u.next \in [S!Entries -> 0 .. ListSize]
      /\ u.list \in [S!Entries -> S!Entry] /\ t.list \in [S!Entries -> S!Entry]
  BY <1>1 DEF Table
<1>5. v.saddr = a /\ v.ports = {port} /\ Cardinality({port}) = 1 /\ S!Weighed(v, {port})
  BY <1>3, FreshFacts, WeighedFresh DEF v
<1>6. index' \in S!Entries
  <2>1. \A i, n \in Nat : n > 0 => (i % n) + 1 \in 1 .. n
    OBVIOUS
  <2>2. index \in Nat /\ ListSize \in Nat /\ ListSize > 0
    BY <1>3 DEF S!Entries, S!PsdConstants
  <2> QED
    BY <2>1, <2>2 DEF S!NextIndex, S!Entries
<1>7. /\ tried' \in [Source -> SUBSET DOMAIN Weight] /\ {port} \subseteq tried'[a]
      /\ tried'[a] \in SUBSET DOMAIN Weight
      /\ \A b \in Source : b # a => tried'[b] = tried[b]
  BY <1>3
<1>8. list'[index] = v /\ \A e \in S!Entries : e # index => list'[e] = t.list[e]
  BY <1>1, <1>2, <1>3, <1>4
<1>9. \A e \in S!Entries : Cardinality(list'[e].ports) <= PortMax
  <2> TAKE e \in S!Entries
  <2>1. CASE e = index
    <3>1. 1 <= PortMax
      BY DEF S!PsdConstants
    <3> QED
      BY <1>5, <1>8, <2>1, <3>1
  <2>2. CASE e # index
    BY <1>8, <2>2
  <2> QED
    BY <2>1, <2>2
<1>10. S!PsdStateOK'
  <2>1. S!Entry' = S!Entry
    BY DEF S!Entry
  <2> QED
    BY <1>2, <1>3, <1>4, <1>6, <1>7, <1>9, <2>1, SameSizes DEF S!PsdStateOK
<1>11. Weighs(d, list', tried')
  <2> SUFFICES ASSUME NEW g \in S!Values, NEW f \in In(d, g)
               PROVE  S!Weighed(list'[f], tried'[list'[f].saddr])
    BY DEF Weighs
  <2>1. CASE f = index
    <3>1. S!Weighed(v, tried'[a])
      BY <1>5, <1>7, WeighedMore
    <3> QED
      BY <1>5, <1>8, <2>1, <3>1
  <2>2. CASE f # index
    <3>1. f \in In(c, g)
      BY <1>1, <2>2
    <3>2. f \in S!Entries /\ t.list[f].saddr \in Source /\ Hash[t.list[f].saddr] = g
      BY <3>1 DEF In, S!Chained, S!Sorted
    <3>3. t.list[f].saddr # a
      BY <3>1, <3>2
    <3>4. S!Weighed(t.list[f], tried[t.list[f].saddr])
      BY <3>1 DEF Weighs
    <3>5. list'[f] = t.list[f]
      BY <1>8, <2>2, <3>2
    <3>6. tried'[t.list[f].saddr] = tried[t.list[f].saddr]
      BY <1>7, <3>2, <3>3
    <3> QED
      BY <3>4, <3>5, <3>6
  <2> QED
    BY <2>1, <2>2
<1>12. S!Chained(d, S!Tables')
  <2>1. S!Tables'.head = u.head /\ S!Tables'.next = u.next /\ S!Tables'.list = u.list
    BY <1>2 DEF S!Tables
  <2> QED
    BY <1>1, <2>1 DEF S!Chained, S!Linked, S!Sorted
<1> QED
  BY <1>10, <1>11, <1>12, Closes DEF S!ScansAreScans

\* A packet without ACK from an address that has no entry
LEMMA UnknownStep ==
    ASSUME S!PsdConstants, S!PsdIInv, NEW a \in Source, NEW port \in DOMAIN Weight,
           \A k \in 1 .. Len(S!Chains[Hash[a]]) : list[S!Chains[Hash[a]][k]].saddr # a,
           S!Unknown(a, port, S!Chains[Hash[a]]), clock' = clock, scan' = {},
           tried' = [tried EXCEPT ![a] = IF index' # index THEN {port} ELSE @ \cup {port}]
    PROVE  S!PsdIInv'
<1> DEFINE h == Hash[a]
           s == S!Chains[h]
           n == Len(s)
           last == IF n >= 2 THEN s[n - 1] ELSE 0
           cut == IF n >= HashMax /\ last # 0 THEN [S!Tables EXCEPT !.next[last] = 0] ELSE S!Tables
<1>1. Started
  BY StartedFacts
<1>2. h \in S!Values /\ s \in Seq(S!Entries) /\ n \in Nat /\ S!Chains \in [S!Values -> Seq(S!Entries)]
  BY <1>1 DEF Started, S!Chained, S!Values
<1>3. S!Become(S!NewEntry(cut, a, port)) /\ index' = S!NextIndex(index)
  BY DEF S!Unknown
<1>4. /\ \A f \in In(S!Chains, h) : list[f].saddr # a
      /\ \A e \in S!Entries : Cardinality(list[e].ports) <= PortMax
  BY <1>1, SameSizes DEF In, Started, S!PsdStateOK
<1>5. S!Tables.list = list
  BY DEF S!Tables
<1>6. CASE n >= HashMax /\ last # 0
  <2>1. n >= 2 /\ n \in 1 .. n /\ n - 1 \in 1 .. n /\ last = s[n - 1] /\ n # 1
    <3>1. n >= 2 /\ last = s[n - 1]
      BY <1>6
    <3> HIDE DEF n, last
    <3> QED
      BY <1>2, <3>1
  <2>2. S!Before(s, n) = s[n - 1] /\ s[n - 1] # 0
    BY <1>6, <2>1 DEF S!Before
  <2>3. S!Linked(S!Chains, S!Tables) /\ S!Sorted(S!Chains, S!Tables) /\ Apart(S!Chains) /\ S!Tables \in Table
    BY <1>1, SortedApart DEF Started, S!Chained
  <2>4. S!Tables.next[s[n - 1]] = s[n] /\ S!Tables.next[s[n]] = 0
    <3>1. /\ S!Tables.next[s[n - 1]] = S!Nth(s, (n - 1) + 1) /\ S!Tables.next[s[n]] = S!Nth(s, n + 1)
      BY <1>2, <2>1, <2>3 DEF S!Linked
    <3>2. (n - 1) + 1 = n /\ n <= n /\ ~(n + 1 <= n)
      BY <1>2
    <3> QED
      BY <3>1, <3>2 DEF S!Nth
  <2>5. cut = S!Unlink(S!Tables, h, S!Before(s, n))
    BY <1>6, <2>1, <2>2, <2>4 DEF S!Unlink
  <2> DEFINE d == Drop(S!Chains, h, n)
  <2> HIDE DEF cut, last, s, n, h
  <2>6. /\ cut \in Table /\ cut.list = S!Tables.list
        /\ d \in [S!Values -> Seq(S!Entries)] /\ S!Linked(d, cut)
    BY <1>2, <2>1, <2>3, <2>5, Unlinked DEF s, n
  <2>7. /\ S!Sorted(d, cut)
        /\ \A g \in S!Values : \A f \in In(d, g) : f \in In(S!Chains, g)
    BY <1>2, <2>1, <2>3, <2>6, DropSorted DEF s, n
  <2> HIDE DEF d
  <2>8. S!Chained(d, cut)
    BY <2>6, <2>7 DEF S!Chained
  <2>9. Weighs(d, cut.list, tried)
    BY <1>1, <1>5, <2>6, <2>7 DEF Weighs, Started
  <2>10. /\ \A f \in In(d, Hash[a]) : cut.list[f].saddr # a
         /\ \A e \in S!Entries : Cardinality(cut.list[e].ports) <= PortMax
    BY <1>2, <1>4, <1>5, <2>6, <2>7 DEF h
  <2>11. S!PsdStateOK
    BY <1>1 DEF Started
  <2> QED
    BY <1>3, <2>6, <2>8, <2>9, <2>10, <2>11, EntryMade
<1>7. CASE ~(n >= HashMax /\ last # 0)
  <2>1. cut = S!Tables
    BY <1>7
  <2> HIDE DEF cut
  <2>2. /\ S!PsdStateOK /\ S!Tables \in Table /\ S!Chained(S!Chains, S!Tables)
        /\ Weighs(S!Chains, S!Tables.list, tried) /\ S!Become(S!NewEntry(S!Tables, a, port))
    BY <1>1, <1>3, <1>5, <2>1 DEF Started
  <2>3. /\ \A e \in S!Entries : Cardinality(S!Tables.list[e].ports) <= PortMax
        /\ \A f \in In(S!Chains, Hash[a]) : S!Tables.list[f].saddr # a
    BY <1>4, <1>5
  <2> QED
    BY <1>3, <2>2, <2>3, EntryMade
<1> QED
  BY <1>6, <1>7

\* A packet from an address whose entry is too old: it is taken out of its chain,
\* and a new one is made unless the packet has ACK.
LEMMA OutdatedStep ==
    ASSUME S!PsdConstants, S!PsdIInv, NEW a \in Source, NEW port \in DOMAIN Weight,
           NEW ack \in BOOLEAN, NEW k \in 1 .. Len(S!Chains[Hash[a]]),
           list[S!Chains[Hash[a]][k]].saddr = a,
           S!Outdated(a, port, ack, S!Chains[Hash[a]], S!Chains[Hash[a]][k]),
           clock' = clock, scan' = {},
           tried' = IF ack THEN tried
                    ELSE [tried EXCEPT ![a] = IF index' # index THEN {port} ELSE @ \cup {port}]
    PROVE  S!PsdIInv'
<1> DEFINE h == Hash[a]
           s == S!Chains[h]
           e == s[k]
           blank == [S!Tables EXCEPT !.list[e].saddr = Unused]
           t == S!Unlink(blank, h, S!Before(s, S!Place(s, e)))
           d == Drop(S!Chains, h, k)
<1>1. Started
  BY StartedFacts
<1>2. /\ h \in S!Values /\ s \in Seq(S!Entries) /\ k \in 1 .. Len(s) /\ e \in S!Entries
      /\ S!Chains \in [S!Values -> Seq(S!Entries)]
  BY <1>1 DEF Started, S!Chained, S!Values
<1>3. /\ S!PsdStateOK /\ S!Linked(S!Chains, S!Tables) /\ S!Sorted(S!Chains, S!Tables) /\ Apart(S!Chains)
      /\ S!Tables \in Table /\ Weighs(S!Chains, list, tried)
  BY <1>1, SortedApart DEF Started, S!Chained
<1>4. IF ack THEN S!Become(t) /\ index' = index
      ELSE S!Become(S!NewEntry(t, a, port)) /\ index' = S!NextIndex(index)
  BY DEF S!Outdated
<1>5. S!Place(s, e) = k
  <2>1. \A j \in 1 .. Len(s) : s[j] = e => j = k
    BY <1>2, <1>3 DEF Apart
  <2>2. \E j \in 1 .. Len(s) : s[j] = e
    BY <1>2
  <2> HIDE DEF s, e
  <2>3. S!Place(s, e) \in 1 .. Len(s) /\ s[S!Place(s, e)] = e
    BY <2>2 DEF S!Place
  <2> QED
    BY <2>1, <2>3
<1> HIDE DEF h
<1>6. /\ blank \in Table /\ blank.head = S!Tables.head /\ blank.next = S!Tables.next
      /\ blank.list = [list EXCEPT ![e].saddr = Unused]
  <2>1. /\ blank.head = S!Tables.head /\ blank.next = S!Tables.next
        /\ blank.list = [list EXCEPT ![e].saddr = Unused]
    BY DEF S!Tables
  <2>2. [list EXCEPT ![e].saddr = Unused] \in [S!Entries -> S!Entry]
    BY <1>2, <1>3 DEF S!PsdStateOK, S!Entry
  <2>3. /\ head \in [S!Values -> 0 .. ListSize] /\ next \in [S!Entries -> 0 .. ListSize]
        /\ blank = [head |-> head, next |-> next, list |-> [list EXCEPT ![e].saddr = Unused]]
    BY <1>3 DEF S!PsdStateOK, S!Tables
  <2> QED
    BY <2>1, <2>2, <2>3 DEF Table
<1>7. S!Linked(S!Chains, blank)
  BY <1>3, <1>6 DEF S!Linked
<1>8. t = S!Unlink(blank, h, S!Before(s, k))
  BY <1>5
<1> HIDE DEF t, d, blank, s, e
<1>9. t \in Table /\ t.list = blank.list /\ d \in [S!Values -> Seq(S!Entries)] /\ S!Linked(d, t)
  <2>1. /\ S!Chains \in [S!Values -> Seq(S!Entries)] /\ h \in S!Values /\ k \in 1 .. Len(S!Chains[h])
        /\ t = S!Unlink(blank, h, S!Before(S!Chains[h], k))
    BY <1>2, <1>8 DEF s
  <2> QED
    BY <1>3, <1>6, <1>7, <2>1, Unlinked DEF d
<1>10. \A f \in S!Entries : /\ f # e => t.list[f] = list[f]
                          /\ t.list[f].ports = list[f].ports
  <2>1. list \in [S!Entries -> S!Entry] /\ t.list = [list EXCEPT ![e].saddr = Unused]
    BY <1>3, <1>6, <1>9 DEF S!PsdStateOK
  <2>2. \A f \in S!Entries : f # e => t.list[f] = list[f]
    BY <2>1
  <2>3. t.list[e].ports = list[e].ports
    BY <1>2, <2>1 DEF S!Entry
  <2> QED
    BY <2>2, <2>3
<1>11. \A g \in S!Values : \A f \in In(S!Chains, g) : f \in S!Entries
  BY <1>2 DEF In
<1>12. /\ S!Sorted(d, t)
       /\ \A g \in S!Values : \A f \in In(d, g) : f \in In(S!Chains, g) /\ f # e
  <2>1. \A g \in S!Values : \A f \in In(S!Chains, g) \ {e} : t.list[f].saddr = S!Tables.list[f].saddr
    BY <1>10, <1>11 DEF S!Tables
  <2> QED
    BY <1>2, <1>3, <2>1, DropSorted DEF d, s, e
<1>13. S!Chained(d, t)
  BY <1>9, <1>12 DEF S!Chained
<1>14. Weighs(d, t.list, tried)
  BY <1>3, <1>10, <1>11, <1>12 DEF Weighs
<1>15. \A f \in S!Entries : Cardinality(t.list[f].ports) <= PortMax
  BY <1>3, <1>10, SameSizes DEF S!PsdStateOK
<1>16. CASE ack
  <2>1. head' = t.head /\ next' = t.next /\ list' = t.list /\ index' = index /\ tried' = tried
    BY <1>4, <1>16 DEF S!Become
  <2>2. S!PsdStateOK'
    <3>1. S!Entry' = S!Entry
      BY DEF S!Entry
    <3>2. /\ t.head \in [S!Values -> 0 .. ListSize] /\ t.next \in [S!Entries -> 0 .. ListSize]
          /\ t.list \in [S!Entries -> S!Entry]
      BY <1>9 DEF Table
    <3> QED
      BY <1>3, <1>15, <2>1, <3>1, <3>2, SameSizes DEF S!PsdStateOK
  <2>3. S!Chained(d, S!Tables')
    <3>1. S!Tables'.head = t.head /\ S!Tables'.next = t.next /\ S!Tables'.list = t.list
      BY <2>1 DEF S!Tables
    <3> QED
      BY <1>13, <3>1 DEF S!Chained, S!Linked, S!Sorted
  <2>4. Weighs(d, list', tried')
    BY <1>14, <2>1
  <2> QED
    BY <2>2, <2>3, <2>4, Closes DEF S!ScansAreScans
<1>17. CASE ~ack
  <2>1. /\ S!Become(S!NewEntry(t, a, port)) /\ index' = S!NextIndex(index)
        /\ tried' = [tried EXCEPT ![a] = IF index' # index THEN {port} ELSE @ \cup {port}]
    BY <1>4, <1>17
  <2>2. \A f \in In(d, Hash[a]) : t.list[f].saddr # a
    <3> TAKE f \in In(d, Hash[a])
    <3>1. f \in In(S!Chains, h) /\ f # e
      BY <1>2, <1>12 DEF h
    <3>2. PICK j \in 1 .. Len(s) : f = s[j]
      BY <3>1 DEF In, s
    <3>3. S!Tables.list[s[j]].saddr = S!Tables.list[s[k]].saddr => j = k
      BY <1>2, <1>3 DEF S!Sorted, s
    <3>4. S!Tables.list[s[k]].saddr = a /\ S!Tables.list = list
      BY DEF S!Tables, h, s
    <3>5. list[f].saddr # a
      BY <3>1, <3>2, <3>3, <3>4 DEF e
    <3> QED
      BY <1>2, <1>10, <1>11, <3>1, <3>5
  <2> QED
    <3>1. /\ S!PsdConstants /\ S!PsdStateOK /\ t \in Table /\ S!Chained(d, t) /\ Weighs(d, t.list, tried)
          /\ \A f \in S!Entries : Cardinality(t.list[f].ports) <= PortMax
          /\ a \in Source /\ port \in DOMAIN Weight /\ clock' = clock /\ scan' = {}
      BY <1>3, <1>9, <1>13, <1>14, <1>15
    <3> QED
      BY ONLY <2>1, <2>2, <3>1, EntryMade
<1> QED
  BY <1>16, <1>17

\* A packet that is weighed
LEMMA PortscanStep ==
    ASSUME S!PsdConstants, S!PsdIInv, NEW a \in Source, NEW port \in DOMAIN Weight,
           NEW ack \in BOOLEAN, NEW k \in 1 .. Len(S!Chains[Hash[a]]),
           list[S!Chains[Hash[a]][k]].saddr = a,
           S!IsPortscan(S!Chains[Hash[a]][k], port, ack),
           UNCHANGED <<head, next, index, clock>>,
           tried' = IF ack THEN tried
                    ELSE [tried EXCEPT ![a] = IF index' # index THEN {port} ELSE @ \cup {port}]
    PROVE  S!PsdIInv' /\ S!ScansAreScans
<1> DEFINE h == Hash[a]
           e == S!Chains[h][k]
           w == list[e].weight
           P == list[e].ports
           more == (w + Weight[port]) % WeightMax
           matched == w >= Threshold
           weight == IF matched THEN w ELSE more
<1>1. Started
  BY StartedFacts
<1>2. h \in S!Values /\ e \in S!Entries /\ e \in In(S!Chains, h) /\ S!Chains \in [S!Values -> Seq(S!Entries)]
  BY <1>1 DEF Started, S!Chained, S!Values, In
<1>3. /\ S!PsdStateOK /\ S!Linked(S!Chains, S!Tables) /\ S!Sorted(S!Chains, S!Tables) /\ Apart(S!Chains)
      /\ Weighs(S!Chains, list, tried)
  BY <1>1, SortedApart DEF Started, S!Chained
<1>4. /\ list \in [S!Entries -> S!Entry] /\ tried \in [Source -> SUBSET DOMAIN Weight]
      /\ clock \in 0 .. MaxClock /\ clock \in 0 .. clock
  BY <1>3 DEF S!PsdStateOK, S!PsdConstants
<1>5. /\ w \in 0 .. WeightMax - 1 /\ P \in SUBSET DOMAIN Weight /\ IsFiniteSet(P)
      /\ list[e].saddr = a /\ S!Weighed(list[e], tried[a])
  <2>1. w \in 0 .. WeightMax - 1 /\ P \in SUBSET DOMAIN Weight
    BY <1>2, <1>4 DEF S!Entry
  <2>2. IsFiniteSet(DOMAIN Weight)
    <3>1. DOMAIN Weight = 1 .. Len(Weight) /\ Len(Weight) \in Nat
      BY SumFacts
    <3> QED
      BY <3>1, FS_Interval
  <2>3. S!Weighed(list[e], tried[a])
    BY <1>2, <1>3 DEF Weighs
  <2> QED
    BY <2>1, <2>2, <2>3, FS_Subset
<1>6. /\ Weight[port] \in Nat /\ Threshold \in Nat /\ WeightMax \in Nat \ {0} /\ PortMax \in Nat
  BY DEF S!PsdConstants
<1>9. more = (w + Weight[port]) % WeightMax /\ (matched <=> w >= Threshold)
  OBVIOUS
<1> HIDE DEF e, h
<1>7. CASE port \in P \/ ack
  <2>1. scan' = {} /\ list' = list
    BY <1>7 DEF S!IsPortscan, e, h
  <2>2. S!ScansAreScans
    BY <2>1 DEF S!ScansAreScans
  <2>3. /\ tried' \in [Source -> SUBSET DOMAIN Weight] /\ \A b \in Source : tried[b] \subseteq tried'[b]
    BY <1>4
  <2>4. S!PsdStateOK'
    <3>1. S!Entry' = S!Entry
      BY DEF S!Entry
    <3> QED
      BY <1>3, <2>1, <2>3, <3>1 DEF S!PsdStateOK
  <2>5. S!Chained(S!Chains, S!Tables')
    BY <1>2, <1>3, <2>1 DEF S!Chained, S!Linked, S!Sorted, S!Tables
  <2>6. Weighs(S!Chains, list', tried')
    <3> SUFFICES ASSUME NEW g \in S!Values, NEW f \in In(S!Chains, g)
                 PROVE  S!Weighed(list[f], tried'[list[f].saddr])
      BY <2>1 DEF Weighs
    <3>1. list[f].saddr \in Source
      BY <1>3 DEF S!Sorted, In, S!Tables
    <3>2. S!Weighed(list[f], tried[list[f].saddr])
      BY <1>3 DEF Weighs
    <3> QED
      <4>1. tried'[list[f].saddr] \in SUBSET DOMAIN Weight
        BY <2>3, <3>1
      <4> QED
        BY <2>3, <3>1, <3>2, <4>1, WeighedMore
  <2> QED
    BY <2>2, <2>4, <2>5, <2>6, Closes
<1>8. CASE port \notin P /\ ~ack
  <2> DEFINE found == matched \/ more >= Threshold
             ports == IF found \/ ~S!Room(e) THEN P ELSE P \cup {port}
             T == tried[a] \cup {port}
  <2>1. /\ scan' = IF found THEN {a} ELSE {}
        /\ list' = [list EXCEPT ![e].stamp = clock, ![e].weight = IF matched THEN @ ELSE more,
                      ![e].ports = IF found \/ ~S!Room(e) THEN @ ELSE @ \cup {port}]
    BY <1>5, <1>8 DEF S!IsPortscan, e, h
  <2>2. tried' = [tried EXCEPT ![a] = T]
    BY <1>8
  <2>3. more \in 0 .. WeightMax - 1 /\ more \in Nat /\ more <= w + Weight[port] /\ w \in Nat
    <3>1. w \in Nat
      BY <1>5, <1>6
    <3> HIDE DEF w
    <3>2. w + Weight[port] \in Nat
      BY <1>6, <3>1
    <3> HIDE DEF more
    <3>3. more \in 0 .. WeightMax - 1 /\ more <= w + Weight[port]
      BY <1>6, <1>9, <3>2, Wrapped
    <3> QED
      BY <1>6, <3>1, <3>3
  <2>4. /\ P \subseteq tried[a] /\ P \subseteq T /\ T \in SUBSET DOMAIN Weight
        /\ ~matched => w <= S!Total(P) \/ Cardinality(tried[a]) > PortMax
        /\ matched => S!Enough(tried[a])
    BY <1>4, <1>5, <1>6, SameSizes DEF S!Weighed
  <2>5. S!Total(P \cup {port}) = S!Total(P) + Weight[port] /\ P \cup {port} \subseteq T
    BY <1>8, <2>4, TotalAdds
  <2>6. /\ S!Total(P) \in Nat /\ S!Total(P \cup {port}) \in Nat /\ S!Total(T) \in Nat
        /\ S!Total(tried[a]) \in Nat
        /\ S!Total(P \cup {port}) <= S!Total(T) /\ S!Total(tried[a]) <= S!Total(T)
    <3>1. tried[a] \subseteq T
      OBVIOUS
    <3> QED
      BY <2>5, <3>1, TotalGrows
  <2>22. /\ Cardinality(tried[a]) \in Nat /\ Cardinality(T) \in Nat
         /\ Cardinality(tried[a]) <= Cardinality(T)
         /\ S!Enough(tried[a]) => S!Enough(T)
    BY <2>4, EnoughMore
  <2>23. ~matched => more <= S!Total(P \cup {port}) \/ Cardinality(T) > PortMax
    <3> HIDE DEF w, P, T, more, matched
    <3> QED
      BY <1>6, <2>3, <2>4, <2>5, <2>6, <2>22
  <2>7. found => S!Enough(T)
    <3>1. CASE matched
      BY <2>4, <2>22, <3>1
    <3>2. CASE ~matched /\ more >= Threshold
      <4> HIDE DEF w, P, T, more, matched
      <4> QED
        BY <1>6, <2>3, <2>6, <2>23, <3>2, SameSizes DEF S!Enough
    <3> QED
      BY <3>1, <3>2
  <2>8. tried' \in [Source -> SUBSET DOMAIN Weight] /\ tried'[a] = T
        /\ \A b \in Source : b # a => tried'[b] = tried[b]
    BY <1>4, <2>2
  <2>9. S!ScansAreScans
    BY <2>1, <2>7, <2>8 DEF S!ScansAreScans
  <2>10. Cardinality(P) \in Nat /\ Cardinality(P \cup {port}) = Cardinality(P) + 1
    BY <1>5, <1>8, FS_AddElement, FS_CardinalityType
  <2> DEFINE v == [list[e] EXCEPT !.stamp = clock, !.weight = weight, !.ports = ports]
  <2>11. list' = [list EXCEPT ![e] = v]
    BY <1>2, <1>4, <2>1
  <2>12. /\ v \in S!Entry /\ v.saddr = a /\ v.ports = ports
         /\ v.weight = weight
    <3>1. ports \in SUBSET DOMAIN Weight
      BY <1>5
    <3>2. weight \in 0 .. WeightMax - 1
      BY <1>5, <2>3
    <3>3. list[e] \in S!Entry
      BY <1>2, <1>4
    <3> HIDE DEF ports, weight
    <3> QED
      BY <1>4, <1>5, <3>1, <3>2, <3>3 DEF S!Entry
  <2>13. S!Room(e) <=> Cardinality(P) < PortMax
    BY SameSizes DEF S!Room
  <2>14. Cardinality(ports) <= PortMax
    <3>1. Cardinality(P) <= PortMax
      BY <1>2, <1>3, SameSizes DEF S!PsdStateOK
    <3> QED
      BY <1>6, <2>10, <2>13, <3>1
  <2> HIDE DEF v
  <2>15. /\ list'[e] = v /\ \A f \in S!Entries : f # e => list'[f] = list[f]
         /\ list' \in [S!Entries -> S!Entry]
    BY <1>2, <1>4, <2>11, <2>12
  <2>16. S!PsdStateOK'
    <3>1. S!Entry' = S!Entry
      BY DEF S!Entry
    <3>2. scan' \subseteq Source
      BY <2>1
    <3>3. \A f \in S!Entries : Cardinality(list'[f].ports) <= PortMax
      BY <1>3, <2>12, <2>14, <2>15, SameSizes DEF S!PsdStateOK
    <3> QED
      BY <1>3, <2>8, <2>15, <3>1, <3>2, <3>3, SameSizes DEF S!PsdStateOK
  <2>17. \A f \in S!Entries : list'[f].saddr = list[f].saddr
    BY <1>5, <2>12, <2>15
  <2>18. S!Chained(S!Chains, S!Tables')
    <3>1. /\ S!Tables'.head = S!Tables.head /\ S!Tables'.next = S!Tables.next
          /\ \A f \in S!Entries : S!Tables'.list[f].saddr = S!Tables.list[f].saddr
      BY <2>17 DEF S!Tables
    <3>2. \A g \in S!Values : \A i \in 1 .. Len(S!Chains[g]) : S!Chains[g][i] \in S!Entries
      BY <1>2
    <3> QED
      <4>1. S!Linked(S!Chains, S!Tables')
        BY <1>3, <3>1 DEF S!Linked
      <4>2. S!Sorted(S!Chains, S!Tables')
        BY <1>3, <3>1, <3>2 DEF S!Sorted
      <4> QED
        BY <1>2, <4>1, <4>2 DEF S!Chained
  <2>21. ports = IF found \/ ~S!Room(e) THEN P ELSE P \cup {port}
    OBVIOUS
  <2>19. S!Weighed(v, T)
    <3> USE DEF weight
    <3> HIDE DEF w, P, T, more, matched, ports
    <3>1. CASE matched
      <4>1. v.weight = w /\ v.ports = P
        BY <2>12, <2>21, <3>1
      <4> QED
        BY <1>5, <1>6, <1>9, <2>4, <2>7, <3>1, <4>1 DEF S!Weighed
    <3>2. CASE ~matched /\ more >= Threshold
      <4>1. v.weight = more /\ v.ports = P
        BY <2>12, <2>21, <3>2
      <4> QED
        BY <1>6, <2>3, <2>4, <2>7, <3>2, <4>1 DEF S!Weighed
    <3>3. CASE ~matched /\ ~(more >= Threshold) /\ S!Room(e)
      <4>1. v.ports = P \cup {port} /\ v.weight = more
        BY <2>12, <2>21, <3>3
      <4> QED
        BY <1>6, <2>3, <2>5, <2>23, <3>3, <4>1, SameSizes DEF S!Weighed
    <3>4. CASE ~matched /\ ~(more >= Threshold) /\ ~S!Room(e)
      <4>1. v.ports = P /\ v.weight = more
        BY <2>12, <2>21, <3>4
      <4>2. Cardinality(P \cup {port}) <= Cardinality(T)
        BY <2>4, <2>5, EnoughMore
      <4>3. Cardinality(T) > PortMax
        BY <1>6, <2>10, <2>13, <2>22, <3>4, <4>2
      <4> QED
        BY <1>6, <2>3, <2>4, <3>4, <4>1, <4>3, SameSizes DEF S!Weighed
    <3> QED
      BY <3>1, <3>2, <3>3, <3>4
  <2>20. Weighs(S!Chains, list', tried')
    <3> SUFFICES ASSUME NEW g \in S!Values, NEW f \in In(S!Chains, g)
                 PROVE  S!Weighed(list'[f], tried'[list'[f].saddr])
      BY DEF Weighs
    <3>1. f \in S!Entries /\ list[f].saddr \in Source
      BY <1>2, <1>3 DEF S!Sorted, In, S!Tables
    <3>2. CASE f = e
      BY <2>8, <2>12, <2>15, <2>19, <3>2
    <3>3. CASE f # e
      <4>1. S!Weighed(list[f], tried[list[f].saddr])
        BY <1>3 DEF Weighs
      <4>2. tried[list[f].saddr] \subseteq tried'[list[f].saddr]
        BY <2>8, <3>1
      <4>4. tried'[list[f].saddr] \in SUBSET DOMAIN Weight
        BY <2>8, <3>1
      <4>3. S!Weighed(list[f], tried'[list[f].saddr])
        BY <4>1, <4>2, <4>4, WeighedMore
      <4> QED
        BY <2>15, <3>1, <3>3, <4>3
    <3> QED
      BY <3>2, <3>3
  <2> QED
    BY <2>9, <2>16, <2>18, <2>20, Closes
<1> QED
  BY <1>7, <1>8

LEMMA PsdInit0 == S!PsdConstants /\ S!PsdInit => S!PsdIInv
<1> SUFFICES ASSUME S!PsdConstants, S!PsdInit PROVE S!PsdIInv
  OBVIOUS
<1> DEFINE c == [h \in S!Values |-> <<>>]
<1>1. /\ ListSize \in Nat \ {0} /\ MaxClock \in Nat /\ WeightMax \in Nat /\ WeightMax > 0
      /\ PortMax \in Nat
  <2>1. Threshold \in Nat
    BY DEF S!PsdConstants
  <2>2. /\ ListSize \in Nat \ {0} /\ MaxClock \in Nat /\ WeightMax \in Nat \ {0}
        /\ PortMax \in Nat \ {0}
    BY DEF S!PsdConstants
  <2> QED
    BY <2>2
<1>2. S!Blank \in S!Entry /\ Cardinality(S!Blank.ports) <= PortMax
  <2>1. clock = 0 /\ 0 \in 0 .. clock /\ 0 \in 0 .. WeightMax - 1
    BY <1>1 DEF S!PsdInit
  <2>2. Cardinality({}) = 0
    BY FS_EmptySet
  <2> QED
    BY <1>1, <2>1, <2>2 DEF S!Blank, S!Entry
<1>3. S!PsdStateOK
  <2>1. 0 \in 0 .. ListSize /\ 0 \in 0 .. MaxClock /\ 1 \in S!Entries
    BY <1>1 DEF S!Entries
  <2> QED
    BY <1>2, <2>1, SameSizes DEF S!PsdInit, S!PsdStateOK
<1>4. S!Chained(c, S!Tables)
  <2>1. c \in [S!Values -> Seq(S!Entries)] /\ \A h \in S!Values : c[h] = <<>> /\ Len(c[h]) = 0
    OBVIOUS
  <2>2. \A h \in S!Values : S!Tables.head[h] = 0 /\ S!Nth(c[h], 1) = 0
    BY DEF S!Tables, S!PsdInit, S!Nth
  <2>3. \A h \in S!Values : 1 .. Len(c[h]) = {}
    BY <2>1
  <2> HIDE DEF c
  <2> QED
    BY <2>1, <2>2, <2>3 DEF S!Chained, S!Linked, S!Sorted
<1>5. c = S!Chains
  <2>1. c = [h \in S!Values |-> S!Chain(S!Tables.head[h], S!Tables.next)]
    BY <1>4, ChainsAre
  <2> HIDE DEF c
  <2> QED
    BY <2>1 DEF S!Chains, S!Tables
<1>6. \A h \in S!Values : 1 .. Len(S!Chains[h]) = {}
  BY <1>5
<1>7. S!Chained(S!Chains, S!Tables)
  BY <1>4, <1>5
<1>8. S!Founded
  BY DEF S!Founded, S!PsdInit
<1> QED
  BY <1>3, <1>6, <1>7, <1>8 DEF S!PsdIInv

LEMMA MatchStep ==
    ASSUME S!PsdConstants, S!PsdIInv, NEW a \in Source, NEW port \in DOMAIN Weight,
           NEW ack \in BOOLEAN, S!PsdMatch(a, port, ack)
    PROVE  S!PsdIInv' /\ S!ScansAreScans
<1> DEFINE h == Hash[a]
           s == S!Chains[h]
           known == {k \in 1 .. Len(s) : list[s[k]].saddr = a}
<1>1. Started
  BY StartedFacts
<1>2. /\ h \in S!Values /\ s \in Seq(S!Entries) /\ Len(s) \in Nat /\ S!Chain(head[h], next) = s
      /\ S!PsdStateOK /\ clock' = clock
  BY <1>1 DEF Started, S!Chained, S!Values, S!Chains, S!PsdMatch
<1>3. tried' = IF ack THEN tried
               ELSE [tried EXCEPT ![a] = IF index' # index THEN {port} ELSE @ \cup {port}]
  BY DEF S!PsdMatch
<1>4. /\ IF known = {}
         THEN IF ack THEN UNCHANGED <<list, head, next, index>> ELSE S!Unknown(a, port, s)
         ELSE IF S!Recent(s[S!Min(known)]) THEN UNCHANGED <<head, next, index>>
              ELSE S!Outdated(a, port, ack, s, s[S!Min(known)])
      /\ IF known # {} /\ S!Recent(s[S!Min(known)]) THEN S!IsPortscan(s[S!Min(known)], port, ack)
         ELSE scan' = {}
  BY <1>2 DEF S!PsdMatch
<1>5. known # {} => S!Min(known) \in known
  <2> SUFFICES ASSUME known # {} PROVE S!Min(known) \in known
    OBVIOUS
  <2>1. known \in SUBSET Nat /\ IsFiniteSet(known)
    <3>1. known \subseteq 1 .. Len(s)
      OBVIOUS
    <3> HIDE DEF s, known
    <3>2. IsFiniteSet(1 .. Len(s)) /\ 1 .. Len(s) \subseteq Nat
      BY <1>2, FS_Interval
    <3> QED
      BY <3>1, <3>2, FS_Subset
  <2> HIDE DEF known
  <2>2. \E i \in known : \A k \in known : i <= k
    BY <2>1, Least
  <2> QED
    BY <2>2 DEF S!Min
<1>6. scan' = {} => S!ScansAreScans
  BY DEF S!ScansAreScans
<1>7. CASE known = {} /\ ack
  <2>1. UNCHANGED <<list, head, next, index, clock, tried>> /\ scan' = {}
    BY <1>2, <1>3, <1>4, <1>7
  <2>2. S!Chains' = S!Chains /\ S!Tables' = S!Tables
    BY <2>1 DEF S!Chains, S!Tables
  <2>3. S!PsdStateOK'
    BY <1>2, <2>1 DEF S!PsdStateOK, S!Entry
  <2>4. S!Chained(S!Chains, S!Tables)'
    BY <1>1, <2>2 DEF Started, S!Chained, S!Linked, S!Sorted, S!Nth
  <2>5. (\A g \in S!Values : \A i \in 1 .. Len(S!Chains[g]) :
           S!Weighed(list[S!Chains[g][i]], tried[list[S!Chains[g][i]].saddr]))'
    BY <2>1, <2>2 DEF S!PsdIInv, S!Weighed, S!Enough
  <2> QED
    BY <1>6, <2>1, <2>3, <2>4, <2>5 DEF S!PsdIInv, S!Founded, S!Enough
<1>8. CASE known = {} /\ ~ack
  <2>1. S!Unknown(a, port, s) /\ scan' = {}
    BY <1>4, <1>8
  <2>2. \A k \in 1 .. Len(s) : list[s[k]].saddr # a
    BY <1>8
  <2> HIDE DEF known
  <2>3. S!PsdIInv'
    BY <1>2, <1>3, <1>8, <2>1, <2>2, UnknownStep
  <2> QED
    BY <1>6, <2>1, <2>3
<1>9. CASE known # {} /\ S!Recent(s[S!Min(known)])
  <2> DEFINE k == S!Min(known)
  <2>1. k \in 1 .. Len(s) /\ list[s[k]].saddr = a
    BY <1>5, <1>9
  <2>2. S!IsPortscan(s[k], port, ack) /\ UNCHANGED <<head, next, index, clock>>
    BY <1>2, <1>4, <1>9
  <2> HIDE DEF known, k
  <2> QED
    BY <1>3, <2>1, <2>2, PortscanStep
<1>10. CASE known # {} /\ ~S!Recent(s[S!Min(known)])
  <2> DEFINE k == S!Min(known)
  <2>1. k \in 1 .. Len(s) /\ list[s[k]].saddr = a
    BY <1>5, <1>10
  <2>2. S!Outdated(a, port, ack, s, s[k]) /\ scan' = {}
    BY <1>4, <1>10
  <2> HIDE DEF known, k
  <2>3. S!PsdIInv'
    BY <1>2, <1>3, <2>1, <2>2, OutdatedStep
  <2> QED
    BY <1>6, <2>2, <2>3
<1> QED
  BY <1>7, <1>8, <1>9, <1>10

LEMMA PsdTickStep == ASSUME S!PsdConstants, S!PsdIInv, S!PsdTick PROVE S!PsdIInv' /\ S!ScansAreScans
<1>1. /\ clock \in 0 .. MaxClock /\ MaxClock \in Nat /\ clock' = clock + 1 /\ clock < MaxClock
      /\ UNCHANGED <<list, head, next, index, tried, scan>> /\ S!PsdStateOK
  BY DEF S!PsdTick, S!PsdIInv, S!PsdStateOK, S!PsdConstants
<1>2. clock' \in 0 .. MaxClock /\ 0 .. clock \subseteq 0 .. clock'
  BY <1>1
<1>3. S!Entry \subseteq S!Entry'
  BY <1>2 DEF S!Entry
<1>4. S!PsdStateOK'
  BY <1>1, <1>2, <1>3 DEF S!PsdStateOK
<1>5. S!Chains' = S!Chains /\ S!Tables' = S!Tables
  BY <1>1 DEF S!Chains, S!Tables
<1>6. S!Chained(S!Chains, S!Tables)'
  BY <1>5 DEF S!PsdIInv, S!Chained, S!Linked, S!Sorted, S!Nth
<1>7. (\A g \in S!Values : \A i \in 1 .. Len(S!Chains[g]) :
         S!Weighed(list[S!Chains[g][i]], tried[list[S!Chains[g][i]].saddr]))'
  BY <1>1, <1>5 DEF S!PsdIInv, S!Weighed, S!Enough
<1>8. S!Founded' /\ S!ScansAreScans
  BY <1>1 DEF S!PsdIInv, S!Founded, S!ScansAreScans, S!Enough
<1> QED
  BY <1>4, <1>6, <1>7, <1>8 DEF S!PsdIInv

LEMMA PsdStuttering == ASSUME S!PsdIInv, UNCHANGED S!psdVars PROVE S!PsdIInv' /\ S!ScansAreScans
<1>1. UNCHANGED <<list, head, next, index, clock, tried, scan>>
  BY DEF S!psdVars
<1>2. S!Chains' = S!Chains /\ S!Tables' = S!Tables
  BY <1>1 DEF S!Chains, S!Tables
<1>3. S!PsdStateOK'
  BY <1>1 DEF S!PsdIInv, S!PsdStateOK, S!Entry
<1>4. S!Chained(S!Chains, S!Tables)'
  BY <1>2 DEF S!PsdIInv, S!Chained, S!Linked, S!Sorted, S!Nth
<1>5. (\A g \in S!Values : \A i \in 1 .. Len(S!Chains[g]) :
         S!Weighed(list[S!Chains[g][i]], tried[list[S!Chains[g][i]].saddr]))'
  BY <1>1, <1>2 DEF S!PsdIInv, S!Weighed, S!Enough
<1>6. S!Founded' /\ S!ScansAreScans
  BY <1>1 DEF S!PsdIInv, S!Founded, S!ScansAreScans, S!Enough
<1> QED
  BY <1>3, <1>4, <1>5, <1>6 DEF S!PsdIInv

\* xt_psd.c: the inductive invariant, and what the verdicts mean.
LEMMA PsdSteps ==
    ASSUME S!PsdConstants, S!PsdIInv, [S!PsdNext]_psdVars
    PROVE  S!PsdIInv' /\ S!ScansAreScans
<1>1. ASSUME NEW a \in Source, NEW port \in DOMAIN Weight, NEW ack \in BOOLEAN,
             S!PsdMatch(a, port, ack)
      PROVE  S!PsdIInv' /\ S!ScansAreScans
  BY <1>1, MatchStep
<1>2. CASE S!PsdTick
  BY <1>2, PsdTickStep
<1>3. CASE UNCHANGED psdVars
  BY <1>3, PsdStuttering DEF psdVars, S!psdVars
<1>4. \A a \in Source : Reached[a] \subseteq DOMAIN Weight
  BY DEF S!PsdConstants
<1> QED
  BY <1>1, <1>2, <1>3, <1>4 DEF S!PsdNext

\* In a sound state chains end, and hold every address at most once.
LEMMA PsdSound == ASSUME S!PsdConstants, S!PsdIInv PROVE S!ChainsSound
<1>1. /\ S!Chains \in [S!Values -> Seq(S!Entries)] /\ S!Sorted(S!Chains, S!Tables) /\ Apart(S!Chains)
  BY SortedApart DEF S!PsdIInv, S!Chained
<1> SUFFICES ASSUME NEW h \in S!Values
             PROVE  LET links == S!Chain(head[h], next) IN
                    /\ Len(links) <= ListSize
                    /\ \A k \in 1 .. Len(links) :
                         list[links[k]].saddr # Unused /\ Hash[list[links[k]].saddr] = h
                    /\ \A j, k \in 1 .. Len(links) :
                         list[links[j]].saddr = list[links[k]].saddr => j = k
  BY DEF S!ChainsSound
<1> DEFINE s == S!Chains[h]
           n == Len(s)
           N == ListSize
<1>2. S!Chain(head[h], next) = s /\ s \in Seq(S!Entries) /\ S!Tables.list = list
  BY <1>1 DEF S!Chains, S!Tables
<1>3. n \in Nat /\ N \in Nat /\ s \in [1 .. n -> 1 .. N]
  BY <1>2 DEF S!PsdConstants, S!Entries
<1>4. n <= N
  <2> SUFFICES ASSUME N < n PROVE FALSE
    BY <1>3
  <2>1. \A l \in Nat : IsFiniteSet(1 .. l) /\ Cardinality(1 .. l) = l
    BY FS_Interval
  <2> HIDE DEF n, N, s
  <2>2. /\ IsFiniteSet(1 .. n) /\ IsFiniteSet(1 .. N) /\ s \in [1 .. n -> 1 .. N]
        /\ Cardinality(1 .. N) < Cardinality(1 .. n)
    BY <1>3, <2>1
  <2>3. \E x, y \in 1 .. n : x # y /\ s[x] = s[y]
    BY ONLY <2>2, FS_PigeonHole
  <2> QED
    BY <1>1, <2>3 DEF n, s, Apart
<1>5. \A k \in 1 .. n : list[s[k]].saddr \in Source /\ Hash[list[s[k]].saddr] = h
  BY <1>1, <1>2 DEF S!Sorted
<1>6. \A j, k \in 1 .. n : list[s[j]].saddr = list[s[k]].saddr => j = k
  BY <1>1, <1>2 DEF S!Sorted
<1> HIDE DEF s
<1> QED
  BY <1>2, <1>4, <1>5, <1>6 DEF S!PsdConstants
=============================================================================
