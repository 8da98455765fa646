------------------------------- MODULE Service -------------------------------
(***************************************************************************)
(* What a group of name servers that share one published database owes    *)
(* its clients.  Versions of the database are published one after the      *)
(* other (and the current one may be withdrawn); a server turns to the      *)
(* version that is current at that moment, or stops serving; whatever it    *)
(* answers, it answers from the version it has turned to.                   *)
(***************************************************************************)
EXTENDS Naturals

CONSTANTS
    Proc,           \* the server processes
    MaxVersion      \* how many versions are ever published (a bound)

VARIABLES
    current,        \* the version published under the name, 0 when none is
    newest,         \* the last version published so far
    serves,         \* serves[p]: the version p answers from, 0 when silent
    answered        \* answered[p]: the version of p's last answer, 0 at first

vars == <<current, newest, serves, answered>>

Init ==
    /\ current = 1
    /\ newest = 1
    /\ serves = [p \in Proc |-> 0]
    /\ answered = [p \in Proc |-> 0]

Publish ==
    /\ newest < MaxVersion
    /\ newest' = newest + 1
    /\ current' = newest + 1
    /\ UNCHANGED <<serves, answered>>

Withdraw ==
    /\ current' = 0
    /\ UNCHANGED <<newest, serves, answered>>

\* p turns to the current version; there may be none, then it falls silent.
Turn(p) ==
    /\ serves' = [serves EXCEPT ![p] = current]
    /\ UNCHANGED <<current, newest, answered>>

Stop(p) ==
    /\ serves' = [serves EXCEPT ![p] = 0]
    /\ UNCHANGED <<current, newest, answered>>

Answer(p) ==
    /\ serves[p] # 0
    /\ answered' = [answered EXCEPT ![p] = serves[p]]
    /\ UNCHANGED <<current, newest, serves>>

Next ==
    \/ Publish
    \/ Withdraw
    \/ \E p \in Proc : Turn(p) \/ Stop(p) \/ Answer(p)

Spec == Init /\ [][Next]_vars
=============================================================================
