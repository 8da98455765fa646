------------------------------- MODULE GeoMap -------------------------------
(***************************************************************************)
(* What a geo map promises: an address is mapped to the place of the last   *)
(* exception it falls under; without one, to the place of a mapping that     *)
(* covers it; and to nothing when no mapping does.                           *)
(***************************************************************************)
EXTENDS Naturals, Sequences

CONSTANTS Address, MapName, Place, NoMatch

VARIABLES
    asked,          \* what the configuration asks for, in its order
    sealed,         \* TRUE once the maps are in use
    answer          \* the last lookup: map, address, place

vars == <<asked, sealed, answer>>

Kind == {"mapit", "except"}

\* The requests of the kind that concern address a in map m.
Covers(kind, m, a) ==
    {i \in 1 .. Len(asked) :
        asked[i].kind = kind /\ asked[i].map = m /\ a \in asked[i].range}

Wanted(m, a) ==
    LET last == {i \in Covers("except", m, a) :
                    \A j \in Covers("except", m, a) : j <= i}
        any == Covers("mapit", m, a)
    IN  IF last # {} THEN {asked[i].to : i \in last}
        ELSE IF any # {} THEN {asked[i].to : i \in any}
        ELSE {NoMatch}

Init == asked = <<>> /\ sealed = FALSE /\ answer = <<>>

Request == [kind : Kind, map : MapName, range : SUBSET Address, to : Place]

\* One more request, whichever it is
Ask ==
    /\ ~sealed
    /\ asked' # <<>>
    /\ asked' = Append(asked, asked'[Len(asked')])
    /\ asked'[Len(asked')] \in Request
    /\ UNCHANGED <<sealed, answer>>

Seal == ~sealed /\ sealed' = TRUE /\ UNCHANGED <<asked, answer>>

Lookup(m, a) ==
    /\ sealed
    /\ \E p \in Wanted(m, a) : answer' = <<m, a, p>>
    /\ UNCHANGED <<asked, sealed>>

Next ==
    \/ Ask
    \/ Seal
    \/ \E m \in MapName, a \in Address : Lookup(m, a)

Spec == Init /\ [][Next]_vars
=============================================================================
