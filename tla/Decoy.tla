-------------------------------- MODULE Decoy --------------------------------
(* The targets of iptables that answer TCP in the place of a server: TARPIT    *)
(* (xt_TARPIT.c), DELUDE (xt_DELUDE.c) and CHAOS, which draws one of them       *)
(* (xt_CHAOS.c).  They remember nothing: an answer is made of the packet that   *)
(* it answers.  What becomes of a connection shows on the other side, a client  *)
(* whose TCP goes by RFC 793 (external).                                        *)
EXTENDS Integers, FiniteSets

CONSTANTS
  Rules,     \* [target, variant, family]
  Space,     \* sequence numbers are 0 .. Space - 1, the code's 2^32
  First,     \* the window a tarpit opens: 5 bytes
  Enough,    \* a honeypot takes payloads of more than these: 100 bytes
  DeadBeef,
  Random,    \* what net_random gives for a sequence number
  Isns, Window, Lengths, Options, \* of clients; Options are bytes in the TCP header
  MaxSent, MaxFlight  \* bounds: packets a client sends, packets on their way

VARIABLES
  rule,      \* the rule the client's packets come to
  tcp,       \* the client's connection
  asked, answers, \* packets on their way to the target and back
  sent

decoyVars == <<rule, tcp, asked, answers, sent>>

Flags == {"syn", "ack", "fin", "rst", "psh"}
Seqs == 0 .. Space - 1
Plus(n, k) == (n + k) % Space

Has(p, flags) == flags \subseteq p.flags
Opens(p) == Has(p, {"syn"}) /\ ~Has(p, {"ack"})
\* What a SYN and a FIN count for
Phantom(p, flags) == Cardinality(p.flags \cap flags)

\* The copy of a packet that tarpit_tcp4 and _tcp6 turn into the answer
Blank(p) == [p EXCEPT !.flags = {}, !.len = 0, !.opts = 0]

-----------------------------------------------------------------------------
\* The sets of possible answers to a packet

xttarpit_tarpit(p) ==
  LET answer == [Blank(p) EXCEPT !.seq = IF Has(p, {"ack"}) THEN p.ack_seq ELSE 0,
                                 !.window = IF Opens(p) THEN First ELSE 0]
  IN IF p.flags \cap {"rst", "fin"} # {} \/ p.flags \cap {"syn", "ack"} = {} THEN {}
     ELSE IF Has(p, {"syn", "ack"}) THEN {[answer EXCEPT !.flags = {"rst"}, !.ack_seq = 0]}
     ELSE {[answer EXCEPT !.flags = {"ack"} \cup (p.flags \cap {"syn"}),
                          !.ack_seq = Plus(p.seq, Phantom(p, {"syn"}))]}

\* The window is some of the bits of the client's; the payload is all that
\* follows twenty bytes of header, the options too.
Played(p) ==
  LET payload == p.len + p.opts IN
  CASE Has(p, {"syn", "ack"}) ->
         {[Blank(p) EXCEPT !.flags = {"psh", "rst"}, !.window = 0, !.seq = p.ack_seq,
                           !.ack_seq = DeadBeef]}
    [] Opens(p) ->
         {[Blank(p) EXCEPT !.flags = {"syn", "ack"}, !.window = w, !.seq = s,
                           !.ack_seq = Plus(p.seq, 1)] : w \in 0 .. p.window, s \in Random}
    [] Has(p, {"ack"}) /\ ~Has(p, {"fin"}) ->
         {[Blank(p) EXCEPT !.flags = {"ack"}, !.window = w, !.seq = p.ack_seq,
             !.ack_seq = IF payload > Enough THEN Plus(p.seq, payload) ELSE p.seq]
          : w \in 0 .. p.window}
    [] OTHER -> {Blank(p)}

xttarpit_honeypot(p) ==
  IF Has(p, {"rst"}) \/ p.seq = DeadBeef THEN {}
  ELSE IF Has(p, {"fin"})
  THEN {[a EXCEPT !.flags = (@ \ {"fin", "ack"}) \cup {"rst"}, !.window = 0,
                  !.seq = p.ack_seq, !.ack_seq = p.ack_seq] : a \in Played(p)}
  ELSE Played(p)

xttarpit_reset(p) ==
  {[Blank(p) EXCEPT !.flags = {"rst"}, !.window = 0, !.seq = p.ack_seq, !.ack_seq = p.seq]}

tarpit_generic(p, variant) ==
  CASE variant = "tarpit" -> xttarpit_tarpit(p)
    [] variant = "honeypot" -> xttarpit_honeypot(p)
    [] variant = "reset" -> xttarpit_reset(p)

\* tarpit_generic is given the two headers the wrong way round: it judges the
\* answer, which has no flags, and changes the copy of the question.
tarpit_tcp6(p, variant) == IF tarpit_generic(Blank(p), variant) = {} THEN {} ELSE {Blank(p)}

tarpit_tcp4(p, variant) == tarpit_generic(p, variant)

delude_send_reset(p) ==
  LET zero == [Blank(p) EXCEPT !.seq = 0, !.ack_seq = 0, !.window = 0]
      past == Plus(p.seq, Phantom(p, {"syn", "fin"}) + p.len)
  IN CASE Has(p, {"rst"}) -> {}
       [] Opens(p) /\ ~Has(p, {"rst"}) /\ ~Has(p, {"fin"}) ->
            {[zero EXCEPT !.flags = {"syn", "ack"}, !.ack_seq = past]}
       [] Has(p, {"ack"}) /\ ~Has(p, {"rst"}) -> {[zero EXCEPT !.flags = {"rst"}, !.seq = p.ack_seq]}
       [] OTHER -> {[zero EXCEPT !.flags = {"rst", "ack"}, !.ack_seq = past]}

\* The information of the rule goes to TARPIT as it is: CHAOS's number for
\* "tarpit" is TARPIT's for "honeypot".
xt_chaos_total(p, variant) ==
  IF variant = "tarpit" THEN tarpit_tcp4(p, "honeypot") ELSE delude_send_reset(p)

\* A REJECT sends no TCP.
chaos_tg(p, variant) == IF variant = "normal" THEN {} ELSE xt_chaos_total(p, variant)

Replies(p) ==
  CASE rule.target = "TARPIT" /\ rule.family = 4 -> tarpit_tcp4(p, rule.variant)
    [] rule.target = "TARPIT" /\ rule.family = 6 -> tarpit_tcp6(p, rule.variant)
    [] rule.target = "DELUDE" -> delude_send_reset(p)
    [] rule.target = "CHAOS" -> chaos_tg(p, rule.variant)

\* A packet comes to the target and is dropped.
Answer ==
  \E p \in asked :
    /\ asked' = asked \ {p}
    /\ \E a \in Replies(p) : answers' = answers \cup {a}
    /\ UNCHANGED <<rule, tcp, sent>>

\* tarpit_tg4, tarpit_tg6 and the three senders say nothing to fragments, options
\* of IP, groups, wrong checksums, or without a route or memory; CHAOS as it
\* likes; and a network loses packets.
Unanswered ==
  /\ \/ \E p \in asked : asked' = asked \ {p} /\ UNCHANGED answers
     \/ \E a \in answers : answers' = answers \ {a} /\ UNCHANGED asked
  /\ UNCHANGED <<rule, tcp, sent>>

-----------------------------------------------------------------------------
\* The client

Segment(c, flags, seq, len) ==
  [flags |-> flags, seq |-> seq, ack_seq |-> c.rcv, window |-> Window, len |-> len, opts |-> c.opts]
Ack(c) == Segment(c, {"ack"}, c.nxt, 0)

Sends(c, p) ==
  /\ sent < MaxSent /\ Cardinality(asked \cup answers) < MaxFlight
  /\ sent' = sent + 1 /\ tcp' = c /\ asked' = asked \cup {p}
  /\ UNCHANGED <<rule, answers>>

\* How far a number is from the first of the connection
Since(n) == (n - tcp.iss) % Space
Outstanding == (tcp.nxt - tcp.una) % Space
Open == tcp.state = "estab"

Connect ==
  /\ tcp.state = "new"
  /\ Sends([tcp EXCEPT !.state = "synsent", !.una = tcp.iss, !.nxt = Plus(tcp.iss, 1)],
           Segment(tcp, {"syn"}, tcp.iss, 0))

Resend ==
  \/ tcp.state = "synsent" /\ Sends(tcp, Segment(tcp, {"syn"}, tcp.iss, 0))
  \/ /\ Open /\ Outstanding > 0
     /\ Sends(tcp, IF tcp.fin THEN Segment(tcp, {"ack", "fin"}, tcp.una, Outstanding - 1)
                   ELSE Segment(tcp, {"ack", "psh"}, tcp.una, Outstanding))

SendData ==
  /\ Open /\ ~tcp.fin
  /\ \E n \in Lengths :
       /\ Outstanding + n <= tcp.wnd
       /\ Sends([tcp EXCEPT !.nxt = Plus(@, n)], Segment(tcp, {"ack", "psh"}, tcp.nxt, n))

\* A closed window is probed with a byte that has been acknowledged.
Probe == Open /\ tcp.wnd = 0 /\ Sends(tcp, Segment(tcp, {"ack"}, Plus(tcp.una, -1), 0))

Close ==
  /\ Open /\ ~tcp.fin
  /\ Sends([tcp EXCEPT !.nxt = Plus(@, 1), !.fin = TRUE], Segment(tcp, {"ack", "fin"}, tcp.nxt, 0))

Takes(c, a, reply) ==
  /\ answers' = answers \ {a} /\ tcp' = c /\ asked' = asked \cup reply
  /\ UNCHANGED <<rule, sent>>

Receive ==
  \E a \in answers :
    LET mine == Has(a, {"ack"}) /\ a.ack_seq = tcp.nxt
        made == [tcp EXCEPT !.state = "estab", !.una = tcp.nxt, !.rcv = Plus(a.seq, 1), !.wnd = a.window]
        inOrder == a.seq = tcp.rcv
        known == (a.ack_seq - tcp.una) % Space <= Outstanding
    IN CASE tcp.state = "synsent" /\ Has(a, {"ack"}) /\ ~mine ->
              Takes(tcp, a, IF Has(a, {"rst"}) THEN {} ELSE {Segment(tcp, {"rst"}, a.ack_seq, 0)})
         [] tcp.state = "synsent" /\ mine /\ Has(a, {"rst"}) ->
              Takes([tcp EXCEPT !.state = "refused"], a, {})
         [] tcp.state = "synsent" /\ mine /\ Has(a, {"syn"}) /\ ~Has(a, {"rst"}) ->
              Takes(made, a, {Ack(made)})
         [] Open /\ inOrder /\ Has(a, {"rst"}) -> Takes([tcp EXCEPT !.state = "reset"], a, {})
         [] Open /\ ~Has(a, {"rst"}) /\ (~inOrder \/ Has(a, {"syn"})) -> Takes(tcp, a, {Ack(tcp)})
         [] Open /\ inOrder /\ a.flags \cap {"rst", "syn"} = {} /\ Has(a, {"ack"}) ->
              IF known THEN Takes([tcp EXCEPT !.una = a.ack_seq, !.wnd = a.window], a, {})
              ELSE Takes(tcp, a, IF (a.ack_seq - tcp.nxt) % Space < Space \div 2 THEN {Ack(tcp)} ELSE {})
         [] OTHER -> Takes(tcp, a, {})

\* A client that starts, or one that had a connection before the rule was there
DecoyInit ==
  /\ rule \in Rules
  /\ \E iss \in Isns, opts \in Options :
       LET new == [state |-> "new", early |-> FALSE, fin |-> FALSE, opts |-> opts, iss |-> iss,
                   una |-> iss, nxt |-> iss, rcv |-> 0, wnd |-> 0]
       IN \/ tcp = new
          \/ \E r \in Random : tcp = [new EXCEPT !.state = "estab", !.early = TRUE, !.rcv = r,
                                        !.una = Plus(iss, 1), !.nxt = Plus(iss, 1), !.wnd = Window]
  /\ asked = {} /\ answers = {} /\ sent = 0

DecoyNext ==
  Connect \/ Resend \/ SendData \/ Probe \/ Close \/ Receive \/ Answer \/ Unanswered

-----------------------------------------------------------------------------
DecoyTypeOK ==
  /\ rule \in Rules /\ sent \in 0 .. MaxSent
  /\ tcp.state \in {"new", "synsent", "estab", "refused", "reset"}
  /\ {tcp.una, tcp.nxt, tcp.rcv} \subseteq Seqs
  /\ \A p \in asked \cup answers : p.flags \subseteq Flags /\ {p.seq, p.ack_seq} \subseteq Seqs

Is(target, variant) == rule.target = target /\ rule.variant = variant /\ rule.family = 4

\* xt_TARPIT.c, --tarpit: a connection is held: it is never broken, whatever the
\* client does to close it, it gets off no more than its first window had room
\* for, and the first thing it sends shuts the window for good.
Held ==
  Is("TARPIT", "tarpit") =>
    /\ tcp.state \notin {"refused", "reset"}
    /\ Open => Since(tcp.una) <= (IF tcp.early THEN Window ELSE First) + IF tcp.fin THEN 2 ELSE 1
    /\ Open /\ tcp.wnd > 0 =>
         tcp.una = Plus(tcp.iss, 1) /\ tcp.wnd = IF tcp.early THEN Window ELSE First

\* xt_TARPIT.c, --honeypot: a connection is broken only after the client has closed
\* it, and nothing is acknowledged that was not sent, except as many bytes as there
\* are options.
PlayedAlong ==
  Is("TARPIT", "honeypot") =>
    /\ tcp.state # "refused" /\ (tcp.state = "reset" => tcp.fin)
    /\ \A a \in answers : Has(a, {"ack"}) => Since(a.ack_seq) <= Since(tcp.nxt) + tcp.opts

\* xt_TARPIT.c, --reset: no connection is made, and one that was there before the
\* rule is broken by the first answer.
Broken ==
  Is("TARPIT", "reset") =>
    /\ Open => tcp.early
    /\ Open => \A a \in answers : Has(a, {"rst"}) /\ a.seq = tcp.rcv

\* xt_DELUDE.c: a client gets a connection and loses it at its next packet, with
\* nothing acknowledged; two deluded sides do not go on answering one another.
Deluded ==
  (rule.target = "DELUDE" \/ Is("CHAOS", "delude")) =>
    /\ Open => /\ tcp.una = Plus(tcp.iss, 1)
               /\ \A a \in answers : Has(a, {"syn"}) \/ (Has(a, {"rst"}) /\ a.seq = tcp.rcv)
    /\ \A a \in answers : \A b \in delude_send_reset(a) : delude_send_reset(b) = {}

\* The connection of a client is held, played along with, broken or deluded as the
\* rule says, and nothing that is not to break it does.  Not claimed, because the
\* code does otherwise than libxt_CHAOS.man:10-12 and libxt_TARPIT.man:17-34 say:
\* that CHAOS --tarpit holds a connection, that TARPIT holds, plays along with or
\* breaks one of IPv6, and that TARPIT --reset refuses one that is being made.
DecoysDoAsSaid ==
  /\ Held /\ PlayedAlong /\ Broken /\ Deluded
  /\ rule.variant \in {"tarpit", "honeypot"} =>
       tcp.state # "refused" /\ (tcp.state = "reset" => tcp.fin)
  /\ rule.variant = "normal" => tcp.state \in IF tcp.early THEN {"estab"} ELSE {"new", "synsent"}
=============================================================================
