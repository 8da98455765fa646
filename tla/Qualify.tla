------------------------------ MODULE Qualify -------------------------------
(***************************************************************************)
(* Host names as people give them.  dns_ip4_qualify rewrites a name by rules *)
(* and asks for one alternative after the other until one has an address;    *)
(* dns_resolve puts the questions to the configured servers.  The rules       *)
(* (dns_rcrw.c) and the servers (dns_rcip.c) come from files that others edit  *)
(* while the process runs, and are kept for a time and a number of uses.      *)
(* A text is a sequence of words and of the characters that mean something.  *)
(***************************************************************************)
EXTENDS Integers, FiniteSets, SequencesExt

CONSTANTS
    HostNames,      \* texts that are qualified
    Exact,          \* texts that are asked for as they are
    Envs,           \* [localdomain, cacheip, host]: the environment, the own domain
    Files,          \* [rewrite, resolv]: /etc/dnsrewrite and /etc/resolv.conf
    Missing, Unread,
    Numbers,        \* the words that are numbers
    Packets,        \* answers: Unread, or their records [type, data]
    Life, Uses,     \* 600 seconds, 10000 questions
    MaxTime, MaxEdits, MaxCalls     \* bounds: seconds, edits, calls

QualifyConstants ==
    /\ Uses \in Nat \ {0} /\ Life \in Nat /\ MaxTime \in Nat
    /\ \A f \in Files : f.resolv \in {Missing, Unread} \/ f.resolv.servers \in Seq(STRING)

VARIABLES
    env, files, clock,
    rules, resolvers,   \* the two caches: [ok, uses, deadline, value]
    call,               \* the call in progress
    was,                \* history: the files that were there in each second
    edits, calls

qualifyVars == <<env, files, clock, rules, resolvers, call, was, edits, calls>>

-----------------------------------------------------------------------------
(* dns_ipq.c: rules                                                        *)

Rule(kind, from, to) == [kind |-> kind, from |-> from, to |-> to]

Matches(text, rule) ==
    LET n == Len(text) - Len(rule.from) IN
    /\ rule.kind \in {"?", "=", "*", "-"}
    /\ n >= 0 /\ (rule.kind = "=" => n = 0)
    /\ SubSeq(text, n + 1, Len(text)) = rule.from
    /\ rule.kind = "?" => \A i \in 1 .. n : text[i] \notin {".", "[", "]"}

doit(text, rule) ==
    IF ~Matches(text, rule) THEN text
    ELSE (IF rule.kind = "-" THEN <<>> ELSE SubSeq(text, 1, Len(text) - Len(rule.from)))
         \o rule.to

Rewritten(text, by) == FoldLeft(doit, text, by)

\* dns_rcrw.c: a name without dots is tried in each domain, and a dot at the
\* end is taken off.
Strip == Rule("*", <<".">>, <<>>)
SearchIn(domains) ==
    <<Rule("?", <<>>, FlattenSeq([i \in DOMAIN domains |-> <<"+", ".">> \o domains[i]])), Strip>>

SearchLine(f) == f.resolv \notin {Missing, Unread} /\ f.resolv.search # Missing

\* dns_rcrw.c init: a rule file that cannot be read fails, as resolv.conf does.
RulesOf(f) ==
    CASE f.rewrite = Unread -> Unread
      [] f.rewrite \notin {Missing, Unread} -> f.rewrite
      [] f.rewrite = Missing /\ env.localdomain # Missing -> SearchIn(env.localdomain)
      [] f.rewrite = Missing /\ env.localdomain = Missing ->
            IF f.resolv = Unread THEN Unread
            ELSE IF SearchLine(f) THEN SearchIn(f.resolv.search)
            ELSE IF env.host = <<>> THEN <<Strip>> ELSE <<Rule("?", <<>>, env.host), Strip>>

\* dns_rcip.c: 0.0.0.0 stands for the own address.
Here == "127.0.0.1"
ServersOf(f) ==
    IF env.cacheip # <<>> THEN env.cacheip
    ELSE IF f.resolv = Unread THEN Unread
    ELSE IF f.resolv = Missing \/ f.resolv.servers = <<>> THEN <<Here>>
    ELSE [i \in DOMAIN f.resolv.servers |->
            IF f.resolv.servers[i] = "0.0.0.0" THEN Here ELSE f.resolv.servers[i]]

-----------------------------------------------------------------------------
(* The caches                                                              *)

Empty == [ok |-> FALSE, uses |-> 0, deadline |-> -1, value |-> Unread]
Valid(c) == c.ok /\ c.deadline >= clock /\ c.uses > 0

\* What the cache is after a call, and whether the call fails (~ok): value is
\* what its files say now.
Fetched(c, value) ==
    IF Valid(c) THEN [c EXCEPT !.uses = @ - 1]
    ELSE IF value = Unread THEN [c EXCEPT !.ok = FALSE, !.value = value]
    ELSE [ok |-> TRUE, uses |-> Uses - 1, deadline |-> clock + Life, value |-> value]

dns_resolvconfrewrite == Fetched(rules, RulesOf(files))
dns_resolvconfip == Fetched(resolvers, ServersOf(files))

-----------------------------------------------------------------------------
(* What the records of an answer give                                      *)

Of(type, answers) ==
    LET those == SelectSeq(answers, LAMBDA r : r.type = type)
    IN  [i \in DOMAIN those |-> those[i].data]

dns_sortip(addresses) == {s \in [DOMAIN addresses -> ToSet(addresses)] :
                            \E p \in [DOMAIN addresses -> DOMAIN addresses] :
                                /\ \A i, j \in DOMAIN p : i # j => p[i] # p[j]
                                /\ \A i \in DOMAIN p : s[i] = addresses[p[i]]}

dns_ip4_packet(answers) == dns_sortip(Of("A", answers))
dns_mx_packet(answers) == {Of("MX", answers)}
dns_txt_packet(answers) == {FlattenSeq(Of("TXT", answers))}
dns_name_packet(answers) ==
    LET names == Of("PTR", answers) IN {SubSeq(names, 1, Min({1, Len(names)}))}

Outs(type, answers) ==
    CASE type = "A" -> dns_ip4_packet(answers)
      [] type = "MX" -> dns_mx_packet(answers)
      [] type = "TXT" -> dns_txt_packet(answers)
      [] type = "PTR" -> dns_name_packet(answers)

-----------------------------------------------------------------------------
(* A call.  s is the static text that the alternatives are copied in, plus    *)
(* and i count its characters as in the code; names and outs are history.     *)

Idle == [stage |-> "idle"]
Returned == call.stage \in {"idle", "done", "failed"}

Called(type, host, s, plus, i) ==
    [stage |-> "name", type |-> type, host |-> host, s |-> s, plus |-> plus, i |-> i,
     using |-> <<>>, names |-> <<>>, outs |-> <<>>, began |-> clock, asked |-> clock]

Fails == call' = [call EXCEPT !.stage = "failed"]

\* byte_chr(s + i, n - i, '+'), and the whole rest without one
UpToPlus(s, i) ==
    LET there == {k \in 0 .. Len(s) - i - 1 : s[i + k + 1] = "+"}
    IN  CHOOSE k \in there \cup {Len(s) - i} : \A l \in there : k <= l

dns_ip4_qualify(h) ==
    /\ Returned /\ calls < MaxCalls
    /\ calls' = calls + 1
    /\ rules' = dns_resolvconfrewrite
    /\ IF rules'.ok
       THEN LET s == Rewritten(h, rules'.value)
                plus == UpToPlus(s, 0)
            IN  call' = Called("A", h, s, plus, plus + 1)
       ELSE call' = [Called("A", h, <<>>, 0, 1) EXCEPT !.stage = "failed"]
    /\ UNCHANGED <<env, files, clock, resolvers, was, edits>>

\* dns_mx, dns_txt and dns_name4 ask for one name as it is.
Simple(type, h) ==
    /\ Returned /\ calls < MaxCalls
    /\ calls' = calls + 1
    /\ call' = Called(type, h, h, Len(h), Len(h) + 1)
    /\ UNCHANGED <<env, files, clock, rules, resolvers, was, edits>>

dns_mx(h) == Simple("MX", h)
dns_txt(h) == Simple("TXT", h)
dns_name4(h) == Simple("PTR", h)

\* The name has given out: the end, or the next one.
Got(c, out) ==
    [c EXCEPT !.outs = Append(@, out), !.using = <<>>, !.i = @ + 1,
              !.stage = IF out # <<>> \/ c.i >= Len(c.s) THEN "done" ELSE "name"]

\* An address in numbers: four bytes, or eight, or none; a dot ends a byte.
Literal(text) == \A i \in DOMAIN text : text[i] \in Numbers \cup {".", "[", "]"}
Address(text) ==
    LET bytes == 1 + Cardinality({i \in DOMAIN text : text[i] = "."})
    IN  [n \in 1 .. bytes \div 4 |-> <<text, n>>]

\* byte_copy(s + plus, j, s + i)
Shifted(s, plus, i, j) ==
    [k \in DOMAIN s |-> IF k \in plus + 1 .. plus + j THEN s[k - plus + i] ELSE s[k]]

\* The next alternative, and dns_ip4 or dns_resolve up to its question
Name ==
    /\ call.stage = "name"
    /\ LET j == IF call.i > Len(call.s) THEN 0 ELSE UpToPlus(call.s, call.i)
           s == Shifted(call.s, call.plus, call.i, j)
           name == SubSeq(s, 1, call.plus + j)
           c == [call EXCEPT !.s = s, !.i = @ + j, !.names = Append(@, name)]
       IN  IF call.type = "A" /\ Literal(name)
           THEN call' = Got(c, Address(name)) /\ UNCHANGED resolvers
           ELSE /\ resolvers' = dns_resolvconfip
                /\ IF resolvers'.ok
                   THEN call' = [c EXCEPT !.stage = "wait", !.using = resolvers'.value,
                                          !.asked = clock]
                   ELSE Fails
    /\ UNCHANGED <<env, files, clock, rules, was, edits, calls>>

\* dns_transmit_get: a packet, which may not be readable, or none
Answered ==
    /\ call.stage = "wait"
    /\ \E p \in Packets :
        IF p = Unread THEN Fails
        ELSE \E out \in Outs(call.type, p) : call' = Got(call, out)
    /\ UNCHANGED <<env, files, clock, rules, resolvers, was, edits, calls>>

\* Others edit the files; time passes.
EditFiles ==
    /\ edits < MaxEdits
    /\ edits' = edits + 1
    /\ files' \in Files \ {files}
    /\ was' = [was EXCEPT ![clock] = @ \cup {files'}]
    /\ UNCHANGED <<env, clock, rules, resolvers, call, calls>>

Tick ==
    /\ clock < MaxTime
    /\ clock' = clock + 1
    /\ was' = [was EXCEPT ![clock'] = {files}]
    /\ UNCHANGED <<env, files, rules, resolvers, call, edits, calls>>

-----------------------------------------------------------------------------
QualifyInit ==
    /\ env \in Envs /\ files \in Files
    /\ clock = 0 /\ edits = 0 /\ calls = 0
    /\ rules = Empty /\ resolvers = Empty
    /\ call = Idle
    /\ was = [t \in 0 .. MaxTime |-> IF t = 0 THEN {files} ELSE {}]

QualifyNext ==
    \/ \E h \in HostNames : dns_ip4_qualify(h)
    \/ \E h \in Exact : dns_mx(h) \/ dns_txt(h) \/ dns_name4(h)
    \/ Name \/ Answered \/ EditFiles \/ Tick

QualifySpec == QualifyInit /\ [][QualifyNext]_qualifyVars

-----------------------------------------------------------------------------
Sound(c) == c.uses \in 0 .. Uses - 1 /\ (c.ok => c.value # Unread)

QualifyTypeOK ==
    /\ Sound(rules) /\ Sound(resolvers)
    /\ call.stage \in {"idle", "name", "wait", "done", "failed"}
    /\ call.stage = "wait" => call.using # <<>>

\* The seconds whose files may still be in use in second t
Recent(t) == {u \in 0 .. t : u + Life >= t}

\* dns_rcip.c, dns_rcrw.c: a question goes to servers that the files named at
\* most Life seconds ago, whatever happened to the files since.
AsksRecentServers ==
    call.stage = "wait" =>
        \E t \in Recent(call.asked) : \E f \in was[t] : call.using = ServersOf(f)

\* The text between two pluses goes behind what precedes the first.
Alternatives(text) ==
    LET pluses == {k \in DOMAIN text : text[k] = "+"}
        at == SetToSortSeq(pluses, <)
        end(n) == IF n = Len(at) THEN Len(text) ELSE at[n + 1] - 1
    IN  IF pluses = {} THEN <<text>>
        ELSE [n \in DOMAIN at |-> SubSeq(text, 1, at[1] - 1) \o SubSeq(text, at[n] + 1, end(n))]

SearchList(f) ==
    LET domains == IF env.localdomain # Missing THEN env.localdomain
                   ELSE IF SearchLine(f) THEN f.resolv.search ELSE <<>>
    IN  IF env.localdomain = Missing /\ ~SearchLine(f)
        THEN (IF env.host = <<>> THEN <<>> ELSE <<env.host>>)
        ELSE [i \in DOMAIN domains |-> <<".">> \o domains[i]]

Undotted(text) == IF text # <<>> /\ Last(text) = "." THEN Front(text) ELSE text

\* What a user means by a name: without rules of his own, a name with no dot is
\* meant in each domain of the list, and any other as it is.
Meant(h, f) ==
    IF f.rewrite # Missing THEN Alternatives(Rewritten(h, f.rewrite))
    ELSE IF SearchList(f) = <<>> \/ ToSet(h) \cap {".", "[", "]"} # {}
         THEN Alternatives(Undotted(h))
    ELSE [i \in DOMAIN SearchList(f) |-> h \o SearchList(f)[i]]

\* dns_ipq.c: the names that are asked for are those that the user meant by
\* files of the last Life seconds, in their order, and the call ends with what
\* the first of them has that has anything, or after all of them.
FirstThatAnswers ==
    (call.stage # "idle" /\ call.type = "A" /\ call.names # <<>>) =>
        \E t \in Recent(call.began) : \E f \in {g \in was[t] : RulesOf(g) # Unread} :
            LET meant == Meant(call.host, f)
                n == Len(call.names)
            IN  /\ n <= Len(meant)
                /\ \A k \in 1 .. n : Undotted(call.names[k]) = Undotted(meant[k])
                /\ \A k \in DOMAIN call.outs : k < n => call.outs[k] = <<>>
                /\ call.stage = "done" => call.outs[n] # <<>> \/ n = Len(meant)
-----------------------------------------------------------------------------
(* The inductive invariant: what a cache holds was read at a time it may      *)
(* still be used by, or its question is not put.                             *)
Fields == {"stage", "type", "host", "s", "plus", "i", "using", "names", "outs", "began", "asked"}
Cached(c) ==
    /\ c = [ok |-> c.ok, uses |-> c.uses, deadline |-> c.deadline, value |-> c.value]
    /\ c.ok \in BOOLEAN /\ c.uses \in 0 .. Uses - 1 /\ c.deadline \in Int
    /\ c.ok => c.value # Unread

CallOK ==
    /\ call.stage \in {"idle", "name", "wait", "done", "failed"}
    /\ call.stage \in {"name", "wait"} => call = [f \in Fields |-> call[f]]

\* was[t] had files that named these servers
NamedIn(t, these) == \E f \in was[t] : these = ServersOf(f)

HostIInv ==
    /\ clock \in 0 .. MaxTime /\ files \in Files
    /\ was \in [0 .. MaxTime -> SUBSET Files] /\ files \in was[clock]
    /\ Cached(rules) /\ Cached(resolvers) /\ CallOK
    /\ resolvers.ok =>
        /\ resolvers.value # <<>>
        /\ \E t \in 0 .. clock : resolvers.deadline = t + Life /\ NamedIn(t, resolvers.value)
    /\ call.stage = "wait" =>
        /\ call.using # <<>> /\ call.asked \in 0 .. clock
        /\ \E t \in Recent(call.asked) : NamedIn(t, call.using)
=============================================================================
