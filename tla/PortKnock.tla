------------------------------ MODULE PortKnock ------------------------------
(* The match pknock of the kernel (xt_pknock.c): a source address that sends  *)
(* packets to the ports of a rule, in order and in time, is let in.  Several  *)
(* iptables rules share the state of one rule name.  A timer collects peers   *)
(* that are too old without the lock that packets are judged under: when a    *)
(* packet or the end of the rule frees a peer the collector has in hand, the  *)
(* memory of the kernel is corrupt and the model stops.                       *)
EXTENDS Naturals, Sequences, FiniteSets

CONSTANTS
  Addr, Port,    \* source addresses and destination ports that occur
  Knocks,        \* the iptables rules with this name: records of xt_pknock_mtinfo
  Minute, GcExpir, \* a minute and gc_expir_time, in ticks
  NoRule,        \* the name has no rule
  MaxTick, MaxLoads \* bounds: ticks, and rules that are loaded

\* libxt_pknock.c: one to 15 ports after --knockports, numbers that are not negative.
KnockConstants ==
  /\ Minute \in Nat /\ GcExpir \in Nat
  /\ NoRule \notin [ref : Nat, max : Nat, autoclose : Nat]
  /\ \A info \in Knocks :
       /\ info.port \in Seq(Port) /\ info.max \in Nat /\ info.autoclose \in Nat
       /\ "KNOCKPORT" \in info.option => Len(info.port) \in 1 .. 15

VARIABLES
  rule,          \* the rule of the name: ref_count, max_time, autoclose_time
  loaded,        \* the iptables rules in the table
  peers,         \* the addresses that have a peer
  gc,            \* rule->timer: 0, or the tick it expires at
  todo, doomed,  \* the peers the running collector has to look at, and has judged
  corrupt,       \* a peer was freed twice
  tick, loads,   \* jiffies; how many rules were loaded
  sent,          \* history: the ports of the last packets of an address
  elder,         \* history: the addresses that knocked before the rule with ports
                 \* was loaded, and still have the peer with the count
  passed         \* the address whose packet has just matched, in a set

ruleVars == <<rule, loaded, loads>>
gcVars == <<todo, doomed>>
histVars == <<sent, elder>>
knockVars == <<ruleVars, peers, gc, gcVars, corrupt, tick, histVars, passed>>

Has(info, option) == option \in info.option
Present == DOMAIN peers
Without(a) == [b \in Present \ {a} |-> peers[b]]
With(a, p) == [b \in Present \cup {a} |-> IF b = a THEN p ELSE peers[b]]
Begun(ps) == {a \in DOMAIN ps : ps[a].count > 0}

\* pknock_mt_check: which rules may be loaded
CheckEntry(info) ==
  /\ Has(info, "OPENSECRET") => Len(info.port) = 1 /\ info.open # info.close
  /\ Has(info, "KNOCKPORT") =>
       /\ ~Has(info, "CHECKIP")
       /\ Has(info, "OPENSECRET") <=> Has(info, "CLOSESECRET")
  /\ Has(info, "CHECKIP") =>
       info.option \cap {"OPENSECRET", "CLOSESECRET", "TIME", "AUTOCLOSE"} = {}
  /\ ~Has(info, "CHECKIP") => info.option \cap {"OPENSECRET", "TIME"} # {}

\* A name has one rule with --knockports: two would share the counts of their
\* peers, and the documentation has no such use.
Alone(info) == Has(info, "KNOCKPORT") => \A other \in loaded : ~Has(other, "KNOCKPORT")

\* add_rule: only a rule with a secret changes the times of a known name.
AddRule(info) ==
  LET ref == IF rule = NoRule THEN 1 ELSE rule.ref + 1
  IN IF rule = NoRule \/ Has(info, "OPENSECRET")
     THEN [ref |-> ref, max |-> info.max, autoclose |-> info.autoclose]
     ELSE [rule EXCEPT !.ref = ref]

Load(info) ==
  /\ loads < MaxLoads /\ info \notin loaded /\ CheckEntry(info) /\ Alone(info)
  /\ rule' = AddRule(info) /\ loaded' = loaded \cup {info} /\ loads' = loads + 1
  /\ elder' = IF Has(info, "KNOCKPORT") THEN Begun(peers) ELSE elder
  /\ UNCHANGED <<peers, gc, gcVars, corrupt, tick, sent, passed>>

\* remove_rule: the last rule takes the peers and the timer with it.
RemoveRule(info) ==
  /\ info \in loaded /\ loaded' = loaded \ {info}
  /\ IF rule.ref = 1
     THEN /\ rule' = NoRule /\ peers' = <<>> /\ gc' = 0
          /\ corrupt' = (todo \cup doomed # {}) /\ todo' = {} /\ doomed' = {}
     ELSE /\ rule' = [rule EXCEPT !.ref = @ - 1]
          /\ UNCHANGED <<peers, gc, gcVars, corrupt>>
  /\ elder' = elder \cap Begun(peers')
  /\ UNCHANGED <<loads, tick, sent, passed>>

NewPeer(proto) ==
  [count |-> 0, status |-> "INIT", stamp |-> tick, login |-> 0, proto |-> proto]

Allowed(a) == a \in Present /\ peers[a].status = "ALLOWED"
LoggedThisMinute(p) == p.login \div Minute = tick \div Minute
AutoclosePassed(p) == rule.autoclose # 0 /\ tick > p.login + rule.autoclose

\* pass_security: the payload is the secret's digest of this address and minute.
PassSecurity(p, info, payload) == ~LoggedThisMinute(p) /\ payload = info.open

\* The places behind the last port of a rule hold 0.
WrongKnock(p, info, port) ==
  p.count >= Len(info.port) \/ info.port[p.count + 1] # port

SecurityFails(p, info, proto, payload) ==
  Has(info, "OPENSECRET") /\ (proto # "UDP" \/ ~PassSecurity(p, info, payload))

\* update_peer, for a right knock: the last, one too late, or one more
RightKnock(a, p, info) ==
  LET counted == [p EXCEPT !.count = @ + 1]
  IN IF counted.count = Len(info.port)
     THEN With(a, [counted EXCEPT !.status = "ALLOWED", !.login = tick])
     ELSE IF Has(info, "TIME") /\ tick > p.stamp + info.max THEN Without(a)
     ELSE With(a, [counted EXCEPT !.status = "MATCHING",
                                  !.stamp = IF Has(info, "TIME") THEN tick ELSE @])

\* Slip: a wrong port is passed over even when the rule is strict.
Update_Lenient(a, p, info, port, proto, payload) ==
  IF WrongKnock(p, info, port) \/ SecurityFails(p, info, proto, payload)
  THEN peers' = With(a, p) /\ UNCHANGED gc
  ELSE peers' = RightKnock(a, p, info) /\ gc' = tick + GcExpir

\* update_peer, for a peer that is known or was made just now
Update(a, p, info, port, proto, payload) ==
  IF WrongKnock(p, info, port)
  THEN /\ peers' = IF Has(info, "STRICT") THEN Without(a) ELSE With(a, p)
       /\ UNCHANGED gc
  ELSE IF SecurityFails(p, info, proto, payload)
  THEN peers' = With(a, p) /\ UNCHANGED gc
  ELSE peers' = RightKnock(a, p, info) /\ gc' = tick + GcExpir

Refuse == passed' = {}

\* What is left to do for a packet that is let in: autoclose_time.
Admit(a, proto) ==
  IF AutoclosePassed(peers[a])
  THEN /\ Refuse
       /\ peers' = IF proto = "TCP" \/ ~LoggedThisMinute(peers[a]) THEN Without(a) ELSE peers
  ELSE passed' = {a} /\ UNCHANGED peers

CheckIp(a, info, proto) ==
  /\ Has(info, "CHECKIP") /\ UNCHANGED gc
  /\ IF Allowed(a) THEN Admit(a, proto) ELSE Refuse /\ UNCHANGED peers

\* reset_knock_status for the close secret; the login stays on record.
Close(a) ==
  Refuse /\ peers' = With(a, [peers[a] EXCEPT !.count = 0, !.status = "INIT"])

FromAllowed(a, info, proto, payload) ==
  /\ UNCHANGED gc
  /\ IF Has(info, "CLOSESECRET") /\ proto = "UDP" /\ payload = info.close
     THEN Close(a) ELSE Admit(a, proto)

Knock(a, info, port, proto, payload) ==
  /\ Has(info, "KNOCKPORT")
  /\ IF Allowed(a) THEN FromAllowed(a, info, proto, payload)
     ELSE /\ Refuse
          /\ IF a \in Present THEN Update(a, peers[a], info, port, proto, payload)
             ELSE IF port = info.port[1]
             THEN Update(a, NewPeer(proto), info, port, proto, payload)
             ELSE UNCHANGED <<peers, gc>>

Recent(s, n) == SubSeq(s, IF Len(s) > n THEN Len(s) - n + 1 ELSE 1, Len(s))

\* pknock_mt: one packet and one rule that looks at it
PknockMt(a, port, proto, payload) ==
  \E info \in loaded :
    /\ CheckIp(a, info, proto) \/ Knock(a, info, port, proto, payload)
    /\ sent' = IF Has(info, "CHECKIP") THEN sent
               ELSE [sent EXCEPT ![a] = Recent(Append(@, port), Len(info.port))]
    /\ elder' = elder \cap Begun(peers')
    /\ corrupt' = (doomed \ DOMAIN peers' # {})
    /\ UNCHANGED <<ruleVars, gcVars, tick>>

\* peer_gc, peer by peer.
Expired(p) ==
  IF p.status = "ALLOWED" THEN AutoclosePassed(p) ELSE tick > p.stamp + rule.max

GcStart ==
  /\ gc # 0 /\ tick >= gc /\ gc' = 0 /\ todo' = Present
  /\ UNCHANGED <<ruleVars, peers, doomed, corrupt, tick, histVars, passed>>

GcJudge(a) ==
  /\ doomed = {} /\ todo' = todo \ {a}
  /\ doomed' = IF a \in Present /\ Expired(peers[a]) THEN {a} ELSE {}
  /\ UNCHANGED <<ruleVars, peers, gc, corrupt, tick, histVars, passed>>

GcDelete(a) ==
  /\ doomed' = doomed \ {a} /\ peers' = Without(a) /\ elder' = elder \ {a}
  /\ UNCHANGED <<ruleVars, gc, todo, corrupt, tick, sent, passed>>

\* Timers are not late: the collector has ended before the tick after its own.
Tick ==
  /\ tick < MaxTick /\ (gc # 0 => tick < gc) /\ todo \cup doomed = {}
  /\ tick' = tick + 1
  /\ UNCHANGED <<ruleVars, peers, gc, gcVars, corrupt, histVars, passed>>

KnockInit ==
  /\ rule = NoRule /\ loaded = {} /\ loads = 0 /\ peers = <<>> /\ gc = 0
  /\ todo = {} /\ doomed = {} /\ corrupt = FALSE /\ tick = Minute
  /\ sent = [a \in Addr |-> <<>>] /\ elder = {} /\ passed = {}

KnockNext ==
  /\ ~corrupt
  /\ \/ \E info \in Knocks : Load(info) \/ RemoveRule(info)
     \/ \E a \in Addr, port \in Port, proto \in {"TCP", "UDP"} :
          \E payload \in IF proto = "UDP" THEN {"none", "open", "close"} ELSE {"none"} :
            PknockMt(a, port, proto, payload)
     \/ GcStart
     \/ \E a \in todo : GcJudge(a)
     \/ \E a \in doomed : GcDelete(a)
     \/ Tick

KnockSpec == KnockInit /\ [][KnockNext]_knockVars
-----------------------------------------------------------------------------
KnockTypeOK ==
  /\ Present \subseteq Addr /\ passed \subseteq Addr
  /\ \A a \in Present :
       /\ peers[a].status \in {"INIT", "MATCHING", "ALLOWED"}
       /\ peers[a].count \in 0 .. 15 /\ peers[a].stamp <= tick /\ peers[a].login <= tick

\* add_rule, remove_rule: the state of a name lives as long as a rule with it.
RuleCounted ==
  /\ rule = NoRule <=> loaded = {}
  /\ rule # NoRule => rule.ref = Cardinality(loaded)
  /\ rule = NoRule => Present = {} /\ gc = 0

\* update_peer: who is let in has just sent the last port of the rule; with --strict
\* it has sent the ports of the rule, all of them, in order, and nothing to another
\* port in between.  The exception: while a rule of the name is there the counts
\* stay, so that who knocked on the ports of a rule that is gone goes on from
\* there on those of the next.
KnockedInOrder ==
  \A a \in Addr :
    Allowed(a)' /\ ~Allowed(a) =>
      \E info \in loaded :
        /\ Has(info, "KNOCKPORT") /\ sent'[a] # <<>>
        /\ sent'[a][Len(sent'[a])] = info.port[Len(info.port)]
        /\ Has(info, "STRICT") /\ a \notin elder => sent'[a] = info.port
-----------------------------------------------------------------------------
\* The inductive invariant.  Every rule in the table was admitted, and at most one
\* has ports.
Peer ==
  [count : 0 .. 15, status : {"INIT", "MATCHING", "ALLOWED"}, stamp : 0 .. tick,
   login : 0 .. tick, proto : {"TCP", "UDP"}]

RuleStateOK ==
  /\ rule \in {NoRule} \cup [ref : Nat, max : Nat, autoclose : Nat]
  /\ loaded \subseteq Knocks /\ IsFiniteSet(loaded)
  /\ tick \in Nat /\ gc \in Nat /\ passed \subseteq Addr /\ sent \in [Addr -> Seq(Port)]
  /\ Present \subseteq Addr /\ peers \in [Present -> Peer]
  /\ elder \subseteq Begun(peers)

Admitted ==
  /\ \A info \in loaded : CheckEntry(info)
  /\ \A info, other \in loaded :
       Has(info, "KNOCKPORT") /\ Has(other, "KNOCKPORT") => info = other

\* The last of s are the first c of ports.
Credited(s, c, ports) ==
  Len(s) - c \in Nat /\ \A i \in 1 .. c : s[(Len(s) - c) + i] = ports[i]

\* Whoever is on the way through the ports of a strict rule has sent those it is
\* credited with, and they are the last it sent.
OnTheWay ==
  \A info \in loaded, a \in Present \ elder :
    Has(info, "KNOCKPORT") /\ Has(info, "STRICT") /\ peers[a].status # "ALLOWED" =>
      peers[a].count < Len(info.port) /\ Credited(sent[a], peers[a].count, info.port)

KnockIInv == RuleStateOK /\ RuleCounted /\ Admitted /\ OnTheWay
=============================================================================
