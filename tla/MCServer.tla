------------------------------ MODULE MCServer ------------------------------
(***************************************************************************)
(* The server, in two parts: its event loop (two TCP clients and a UDP       *)
(* client, two descriptors, three events per epoll_wait), and the search for  *)
(* one answer (one zone with a child, a wildcard, a geo name, a mail          *)
(* exchanger, records that end and start; every file of the zone's two lines  *)
(* and some others).                                                         *)
(***************************************************************************)
EXTENDS Lookup, EventLoop, TLC

CONSTANTS
    here, there, m1, m2, a1, a2, a3, a4, a5,
    c1, c2, d1

VARIABLE side       \* "loop" or "lookup", fixed

apex == <<"z">>
web == <<"w", "z">>
deep == <<"x", "w", "z">>
server == <<"n", "z">>

Base == <<Line("Z", apex, server, NoAddress, 9, 0, Anywhere, m1),
          Line("&", apex, <<"n">>, a1, 8, 0, Anywhere, m1)>>

Pool == <<
    Line("+", web, <<>>, a2, 7, 0, here, m1),
    Line("+", web, <<>>, a3, 7, 0, NoMatch, m1),
    Line("+", <<"*", "z">>, <<>>, a3, 7, 0, Anywhere, m1),
    Line("C", web, deep, NoAddress, 7, 0, NoMatch, m2),
    Line("@", web, <<>>, NoAddress, 7, 0, Anywhere, m1),
    Line("&", web, deep, a4, 7, 0, Anywhere, m1),
    Line("+", web, <<>>, a4, 0, 4, Anywhere, m1),
    Line("=", web, <<>>, a5, 7, 4, Anywhere, m1),
    Line(".", web, deep, a4, 7, 0, NoMatch, m2),
    Line("'", web, <<>>, a5, 0, 4, Anywhere, m1),
    Line("^", deep, apex, NoAddress, 7, 0, here, m1),
    Line("+", web, <<>>, a1, 7, 0, Anywhere, m1),
    Line(":", web, <<"SRV">>, a1, 7, 0, Anywhere, m1)>>

\* The lines of the pool that are chosen, in its order
Pick(chosen) ==
    [i \in 1 .. Cardinality(chosen) |-> Pool[InOrder(chosen)[i]]]

CONSTANT MaxLines

\* Three addresses, two of them at once, and more than a message holds
Large == {{1, 8, 12}, {5, 7, 12, 13}, {5, 7, 10, 12, 13}, {4, 5, 7, 10, 12, 13}}

Files ==
    {Base \o Pick(s) : s \in
        {s \in SUBSET (1 .. 11) : Cardinality(s) <= MaxLines} \cup Large}

Queries ==
    [name : {apex, web, deep, <<>>}, type : {"A", "NS", "MX", "ANY", "AXFR"},
     class : {"IN"}, opcode : {0}, proper : {TRUE},
     client : {"c1"}, time : {1, 4, 5}, udp : {TRUE}]
    \cup
    [name : {web, <<"v", "w", "z">>, <<"o">>}, type : {"A", "PTR", "CNAME"},
     class : {"IN", "ANY", "HS"}, opcode : {0}, proper : {TRUE},
     client : {"c1", "c2"}, time : {4}, udp : {FALSE}]
    \cup
    [name : {web}, type : {"A"}, class : {"IN", "HS"}, opcode : {0, 1},
     proper : BOOLEAN, client : {"c1"}, time : {4}, udp : {TRUE}]

GeoOf == [c1 |-> (m1 :> here @@ m2 :> there), c2 |-> (m1 :> there @@ m2 :> NoMatch)]

LookupOnly == side = "lookup" /\ Next /\ UNCHANGED <<side, loopVars>>
LoopOnly == side = "loop" /\ LoopNext /\ UNCHANGED <<side, vars>>

\* The part that does not run has one initial state.
ServerInit ==
    /\ side \in {"loop", "lookup"}
    /\ Init /\ LoopInit
    /\ side = "lookup" => sclen = "right"
    /\ side = "loop" => /\ query = CHOOSE q \in Query : TRUE
                       /\ db = RecordsOf(Base) /\ loq = LoqsOf(Base)

ServerSpec == ServerInit /\ [][LookupOnly \/ LoopOnly]_<<side, vars, loopVars>>

Symmetry == Permutations(Conn)

-----------------------------------------------------------------------------
\* The types of both parts.
ServerTypeOK == IF side = "loop" THEN LoopTypeOK ELSE TypeOK
=============================================================================
