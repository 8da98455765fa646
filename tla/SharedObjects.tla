----------------------------- MODULE SharedObjects -----------------------------
(* What rules of iptables share in the kernel: counters (xt_quota2.c),          *)
(* conditions (xt_condition.c) and countries (xt_geoip.c).  An object is found  *)
(* by name or made when a rule is checked, counted, and freed when the last     *)
(* rule that has it is destroyed.  iptables reads a table, changes it and puts  *)
(* the whole of it back: the kernel checks all new rules, puts them in place of *)
(* the old ones, and destroys those.                                            *)
EXTENDS Integers, Sequences, FiniteSets, FiniteSetsExt, SequencesExt, TLC

CONSTANTS
  Procs,      \* runs of iptables at the same time
  Rulesets,   \* sets of rules that are added: [kind, keys, opts, quota]
  Ranges,     \* the subnets of a country, in order: pairs of addresses
  Addresses,  \* of packets
  Lengths,    \* of packets
  Given,      \* values written to /proc
  MaxQuota, MaxObjects, MaxRules, MaxEdits, MaxPackets  \* bounds

VARIABLES
  ruleset,    \* the rules of this behaviour
  objects,    \* id -> [kind, key, ref, val, given, passed]
  table,      \* the rules in force: [kind, keys, opts, quota, mem]
  run,        \* proc -> [pc, rules, based, at]: the table it reads and puts back
  leaked,     \* references that no rule holds
  edits, packets

sharedVars == <<ruleset, objects, table, run, leaked, edits, packets>>

Idle == [pc |-> "idle", rules |-> <<>>, based |-> 0, at |-> 1]
Named(kind, key) == {o \in DOMAIN objects : objects[o].kind = kind /\ objects[o].key = key}
NewId == CHOOSE o \in 1 .. MaxObjects : o \notin DOMAIN objects
Drop(f, gone) == [o \in DOMAIN f \ gone |-> f[o]]

\* quota_mt2_destroy, condition_mt_destroy, xt_geoip_mt_destroy for rules that are
\* taken away, each reference once: mem holds what each key got.
Held(rules) == FoldLeft(LAMBDA s, r : s \o r.mem, <<>>, rules)
Uses(ids, o) == Cardinality({k \in DOMAIN ids : ids[k] = o})
Destroy(obj, rules) ==
  LET ids == Held(rules)
      gone == {o \in DOMAIN obj : obj[o].ref = Uses(ids, o)}
  IN Drop([o \in DOMAIN obj |-> [obj[o] EXCEPT !.ref = @ - Uses(ids, o)]], gone)

New(kind, key, quota) ==
  [kind |-> kind, key |-> key, ref |-> 1, val |-> quota, given |-> quota, passed |-> 0]

\* iptables reads the table (and with it what is left of each quota) and changes it.
Fetch(p) ==
  /\ run[p].pc = "idle" /\ edits < MaxEdits /\ edits' = edits + 1
  /\ LET read == [k \in DOMAIN table |-> [table[k] EXCEPT !.mem = <<>>]]
     IN \E rules \in {Append(read, r @@ [mem |-> <<>>]) : r \in ruleset}
                       \cup {RemoveAt(read, k) : k \in DOMAIN read} :
          /\ Len(rules) <= MaxRules
          /\ run' = [run EXCEPT ![p] = [pc |-> "check", rules |-> rules, based |-> Len(table), at |-> 1]]
  /\ UNCHANGED <<ruleset, objects, table, leaked, packets>>

Rule(p) == run[p].rules[run[p].at]
NextKey(p) == Rule(p).keys[Len(Rule(p).mem) + 1]

\* The rule has its object; with all of them it is checked, and the next is.
Got(p, o) ==
  LET r == Rule(p) IN
  run' = [run EXCEPT ![p].rules[run[p].at].mem = Append(@, o),
                     ![p].pc = "check",
                     ![p].at = IF Len(r.mem) + 1 = Len(r.keys) THEN @ + 1 ELSE @]

\* The rules before it are taken back; what this one has already is forgotten.
Failed(p) ==
  /\ objects' = Destroy(objects, SubSeq(run[p].rules, 1, run[p].at - 1))
  /\ leaked' = leaked \o Rule(p).mem
  /\ run' = [run EXCEPT ![p] = Idle]

Checking(p) == run[p].pc = "check" /\ run[p].at <= Len(run[p].rules)

\* q2_get_counter, condition_mt_check: under a lock, found or made.  A counter
\* with no name belongs to its rule.
CheckNamed(p) ==
  /\ Checking(p) /\ Rule(p).kind # "geoip"
  /\ LET r == Rule(p)
         found == IF NextKey(p) = "" THEN {} ELSE Named(r.kind, NextKey(p))
     IN \/ \E o \in found : objects' = [objects EXCEPT ![o].ref = @ + 1] /\ Got(p, o) /\ UNCHANGED leaked
        \/ found = {} /\ objects' = objects @@ (NewId :> New(r.kind, NextKey(p), r.quota))
             /\ Got(p, NewId) /\ UNCHANGED leaked
        \/ found = {} /\ Failed(p)
  /\ UNCHANGED <<ruleset, table, edits, packets>>

\* find_node, under the lock ...
FindNode(p) ==
  /\ Checking(p) /\ Rule(p).kind = "geoip"
  /\ LET found == Named("geoip", NextKey(p)) IN
     IF found = {} THEN run' = [run EXCEPT ![p].pc = "add"] /\ UNCHANGED objects
     ELSE \E o \in {Min(found)} : objects' = [objects EXCEPT ![o].ref = @ + 1] /\ Got(p, o)
  /\ UNCHANGED <<ruleset, table, leaked, edits, packets>>

\* ... and geoip_add_node, after it was let go.  A rule that was read from the
\* kernel has a pointer there that is no good.
AddNode(p) ==
  /\ run[p].pc = "add"
  /\ \/ run[p].at > run[p].based /\ objects' = objects @@ (NewId :> New("geoip", NextKey(p), 0))
          /\ Got(p, NewId) /\ UNCHANGED leaked
     \/ Failed(p)
  /\ UNCHANGED <<ruleset, table, edits, packets>>

\* The new rules take the place of the old ones, if the table has as many rules
\* as iptables had read.
Replace(p) ==
  /\ run[p].pc = "check" /\ run[p].at > Len(run[p].rules)
  /\ IF Len(table) = run[p].based
     THEN table' = run[p].rules /\ objects' = Destroy(objects, table)
     ELSE objects' = Destroy(objects, run[p].rules) /\ UNCHANGED table
  /\ run' = [run EXCEPT ![p] = Idle] /\ UNCHANGED <<ruleset, leaked, edits, packets>>

\* A search for an address among the subnets lo .. hi - 1 of a country, counted
\* from 0: one step of it, and as many as it can need.
InRange(a, range) == range[1] <= a /\ a <= range[2]
Halves(range, a, lo, hi) ==
  LET mid == (lo + hi) \div 2 IN
  CASE hi <= lo \/ InRange(a, range[mid + 1]) -> <<lo, hi>>
    [] range[mid + 1][1] > a -> <<lo, mid>>
    [] OTHER -> <<mid + 1, hi>>
geoip_bsearch(range, a) ==
  LET ends == FoldLeft(LAMBDA e, r : Halves(range, a, e[1], e[2]), <<0, Len(range)>>, range)
  IN ends[1] < ends[2] /\ InRange(a, range[(ends[1] + ends[2]) \div 2 + 1])

GeoVerdict(r, a) ==
  (\E k \in DOMAIN r.mem : geoip_bsearch(Ranges[objects[r.mem[k]].key], a)) # ("invert" \in r.opts)

\* quota_mt2.  What is let through as part of the quota is booked in passed.
Cost(r, len) == IF "packets" \in r.opts THEN 1 ELSE len
Quota(r, o, len) ==
  LET e == objects[o] IN
  CASE "grow" \in r.opts /\ "no-change" \in r.opts -> e
    [] "grow" \in r.opts -> [e EXCEPT !.val = @ + Cost(r, len), !.given = @ + Cost(r, len)]
    [] e.val < len -> [e EXCEPT !.val = 0]
    [] "no-change" \in r.opts -> e
    [] OTHER -> [e EXCEPT !.val = @ - Cost(r, len), !.passed = @ + Cost(r, len)]

\* A packet meets a rule; the counter is also noted in the rule.
Match ==
  /\ packets < MaxPackets /\ packets' = packets + 1
  /\ \E k \in DOMAIN table, len \in Lengths :
       LET o == table[k].mem[1] IN
       /\ table[k].kind = "quota2" /\ Quota(table[k], o, len).val <= MaxQuota
       /\ objects' = [objects EXCEPT ![o] = Quota(table[k], o, len)]
       /\ table' = [table EXCEPT ![k].quota =
                      IF {"grow", "no-change"} \subseteq table[k].opts THEN @ ELSE objects'[o].val]
  /\ UNCHANGED <<ruleset, run, leaked, edits>>

\* quota_proc_write and condition_proc_write
ProcWrite ==
  /\ packets < MaxPackets /\ packets' = packets + 1
  /\ \E o \in DOMAIN objects, v \in Given :
       /\ objects[o].kind # "geoip" /\ objects[o].key # ""
       /\ objects[o].kind = "condition" => v \in {0, 1}
       /\ objects' = [objects EXCEPT ![o].val = v, ![o].given = v, ![o].passed = 0]
  /\ UNCHANGED <<ruleset, table, run, leaked, edits>>

SharedInit ==
  /\ ruleset \in Rulesets /\ objects = <<>> /\ table = <<>> /\ run = [p \in Procs |-> Idle]
  /\ leaked = <<>> /\ edits = 0 /\ packets = 0
SharedNext ==
  \/ \E p \in Procs : Fetch(p) \/ CheckNamed(p) \/ FindNode(p) \/ AddNode(p) \/ Replace(p)
  \/ Match \/ ProcWrite

-----------------------------------------------------------------------------
SharedTypeOK ==
  /\ DOMAIN objects \subseteq 1 .. MaxObjects /\ Len(table) <= MaxRules
  /\ \A o \in DOMAIN objects : objects[o].ref > 0 /\ objects[o].val \in 0 .. MaxQuota
  /\ \A p \in Procs : run[p].pc \in {"idle", "check", "add"}

\* xt_quota2.c, xt_condition.c, xt_geoip.c: every rule in force has a live object
\* for each of its names, which counts exactly the rules that hold it, those that
\* are being put in and those that a failed check forgot; two rules with the same
\* name of a counter or a condition have the same one.
RefsCounted ==
  LET all == Held(table) \o leaked \o FoldSet(LAMBDA p, s : s \o Held(run[p].rules), <<>>, Procs) IN
  /\ \A o \in DOMAIN objects : objects[o].ref = Uses(all, o)
  /\ \A k \in DOMAIN table : \A n \in DOMAIN table[k].keys :
       LET o == table[k].mem[n] IN
       o \in DOMAIN objects /\ objects[o].kind = table[k].kind /\ objects[o].key = table[k].keys[n]
  /\ \A o, q \in DOMAIN objects :
       objects[o].kind # "geoip" /\ objects[o].key # "" /\ objects[o].key = objects[q].key
         /\ objects[o].kind = objects[q].kind => o = q

\* xt_quota2.c: whatever rules share a counter and however tables are put back,
\* no more passes as part of a quota than was given by the rule that made the
\* counter, by /proc and by the rules that grow it.  (Not claimed: that a packet
\* never changes the counter of a rule with --no-change, libxt_quota2.man:13-17;
\* one that is too large for what is left empties it.)
QuotaNotExceeded ==
  \A o \in DOMAIN objects :
    objects[o].kind = "quota2" => objects[o].passed + objects[o].val <= objects[o].given

\* xt_geoip.c: a rule matches the addresses of its countries, or all others.
GeoJudgedRight ==
  \A k \in DOMAIN table, a \in Addresses :
    table[k].kind = "geoip" =>
      (GeoVerdict(table[k], a) <=>
        (\E n \in DOMAIN table[k].keys : \E i \in DOMAIN Ranges[table[k].keys[n]] :
           InRange(a, Ranges[table[k].keys[n]][i])) # ("invert" \in table[k].opts))
=============================================================================
