------------------------------ MODULE MultiMap ------------------------------
(***************************************************************************)
(* What a constant database promises.  Records are added, a key may have    *)
(* many; once the database is sealed a search for a key yields the data     *)
(* stored under it, one per call and in the order of the additions, and      *)
(* then says that there is no more.                                          *)
(***************************************************************************)
EXTENDS Order, SequencesExt

CONSTANTS Key, Data

VARIABLES
    added,          \* the records in the order they were added
    open,           \* TRUE until the database is sealed or given up
    left,           \* what the search under way has still to yield
    reply           \* what the last call of the search yielded

vars == <<added, open, left, reply>>

\* Replies: nothing asked yet, or call under way; a datum; no more.
NoReply == <<"none">>
NoMore == <<"no">>
Yield(d) == <<"yes", d>>

DataOf(s, k) ==
    LET hits == Kept(s, {r \in ToSet(s) : r.key = k})
    IN  [i \in DOMAIN hits |-> hits[i].data]

Init ==
    /\ added = <<>>
    /\ open = TRUE
    /\ left = <<>>
    /\ reply = NoReply

Add(k, d) ==
    /\ open
    /\ added' = Append(added, [key |-> k, data |-> d])
    /\ UNCHANGED <<open, left, reply>>

Seal ==
    /\ open
    /\ open' = FALSE
    /\ UNCHANGED <<added, left, reply>>

\* Begin a search, or ask for the next datum of the search under way.
Search(k) ==
    /\ ~open
    /\ left' = DataOf(added, k)
    /\ reply' = NoReply
    /\ UNCHANGED <<added, open>>

Ask ==
    /\ reply' = NoReply
    /\ UNCHANGED <<added, open, left>>

Answer ==
    /\ reply = NoReply
    /\ IF left = <<>>
       THEN reply' = NoMore /\ UNCHANGED left
       ELSE reply' = Yield(Head(left)) /\ left' = Tail(left)
    /\ UNCHANGED <<added, open>>

Next ==
    \/ \E k \in Key, d \in Data : Add(k, d)
    \/ Seal
    \/ \E k \in Key : Search(k)
    \/ Ask
    \/ Answer

Spec == Init /\ [][Next]_vars
=============================================================================
