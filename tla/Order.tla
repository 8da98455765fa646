------------------------------- MODULE Order --------------------------------
(***************************************************************************)
(* What a loop over a list meets, one after the other: the positions of a    *)
(* set in increasing order, and the elements of a sequence that lie in a set. *)
(* (SelectSeq says the same by recursion, which no proof here can unfold.)    *)
(***************************************************************************)
EXTENDS Integers, FiniteSets, Sequences

\* The numbers of a finite set, the smallest first
InOrder(S) ==
    [k \in 1 .. Cardinality(S) |->
        CHOOSE i \in S : Cardinality({j \in S : j < i}) = k - 1]

\* The elements of s that are in T, in the order of s
Kept(s, T) ==
    LET places == InOrder({i \in DOMAIN s : s[i] \in T})
    IN  [k \in DOMAIN places |-> s[places[k]]]
=============================================================================
