------------------------------- MODULE Dnetmap -------------------------------
(* The target DNETMAP of the kernel (xt_DNETMAP.c): inside (prenat) addresses  *)
(* are bound to addresses of public prefixes, from the least recently used     *)
(* one, for as long as their packets keep the binding alive or for good when   *)
(* the administrator made it static through the file of the prefix.  Some      *)
(* writes to that file, and a prefix with static entries only, leave lists and *)
(* tables wrong (broken); there the model stops.                               *)
EXTENDS Integers, Order, SequencesExt

CONSTANTS
  Inside, Prefix, \* prenat addresses; prefixes
  Pool,           \* the entries of a prefix, a sequence
  PostNat,        \* the postnat address of an entry
  Rules,          \* iptables rules: records of prefix, ttl and flags; POSTROUTING
  Nobody,         \* prenat_addr 0
  MaxNow, MaxMade \* bounds: jiffies, rules that are loaded

Slots == UNION {Range(Pool[p]) : p \in Prefix}
Outside == {PostNat[d] : d \in Slots}

\* Every prefix has entries of its own, one for an address.  Prefixes of different
\* rules may overlap, and have entries for the same address.
MapConstants ==
  /\ Pool \in [Prefix -> Seq(Slots)] /\ \A p \in Prefix : IsInjective(Pool[p])
  /\ \A p, q \in Prefix : p # q => Range(Pool[p]) \cap Range(Pool[q]) = {}
  /\ \A p \in Prefix : \A d, e \in Range(Pool[p]) : PostNat[d] = PostNat[e] => d = e
  /\ \A r \in Rules : r.prefix \in Prefix /\ r.ttl \in Int
  /\ Nobody \notin Inside /\ MaxNow \in Nat /\ MaxMade \in Nat

VARIABLES
  prefixes,       \* refcnt and the persistent flag of every prefix that exists
  active,         \* the rules in the table
  entry,          \* the entries that exist: prenat, static, stamp
  hashed,         \* the entries in the two hash tables
  lru,            \* of every prefix: its entries that are not static
  broken,
  now, made

mapVars == <<prefixes, active, entry, hashed, lru, broken, now, made>>

PrefixOf(d) == CHOOSE p \in Prefix : d \in Range(Pool[p])
Exists(p) == p \in DOMAIN prefixes
Free(stamp) == [prenat |-> Nobody, static |-> FALSE, stamp |-> stamp]
Unbound == Free(now - 1)
Others(s, d) == Kept(s, Range(s) \ {d})
MoveToTail(s, d) == Append(Others(s, d), d)
Add(f, x, v) == [y \in DOMAIN f \cup {x} |-> IF y = x THEN v ELSE f[y]]
Less(f, S) == [y \in DOMAIN f \ S |-> f[y]]

\* dnetmap_tg_check: the first rule makes the prefix, and decides persistency.
Check(r) ==
  LET p == r.prefix IN
  /\ made < MaxMade /\ r \notin active
  /\ made' = made + 1 /\ active' = active \cup {r}
  /\ IF Exists(p)
     THEN prefixes' = [prefixes EXCEPT ![p].ref = @ + 1] /\ UNCHANGED <<entry, lru>>
     ELSE /\ prefixes' = Add(prefixes, p, [ref |-> 1, persistent |-> "PERSISTENT" \in r.flags])
          /\ entry' = [d \in DOMAIN entry \cup Range(Pool[p]) |->
                        IF d \in DOMAIN entry THEN entry[d] ELSE Free(now)]
          /\ lru' = Add(lru, p, Pool[p])
  /\ UNCHANGED <<hashed, broken, now>>

\* dnetmap_prefix_destroy
PrefixDestroy(p) ==
  /\ prefixes' = Less(prefixes, {p}) /\ lru' = Less(lru, {p})
  /\ entry' = Less(entry, Range(Pool[p])) /\ hashed' = hashed \ Range(Pool[p])

\* dnetmap_tg_destroy
Destroy(r) ==
  LET p == r.prefix IN
  /\ r \in active /\ active' = active \ {r}
  /\ IF prefixes[p].ref = 1 /\ ~prefixes[p].persistent THEN PrefixDestroy(p)
     ELSE prefixes' = [prefixes EXCEPT ![p].ref = @ - 1] /\ UNCHANGED <<entry, hashed, lru>>
  /\ UNCHANGED <<broken, now, made>>

\* bind_new_prefix: the least recently used entry of p, unless its binding is
\* alive; gone is the entry the address was bound to until now, if any.  Without
\* an entry in the list, the prefix itself is taken for one.
Bind(p, a, ttl, gone) ==
  LET clean == [d \in DOMAIN entry |-> IF d \in gone THEN [entry[d] EXCEPT !.prenat = Nobody] ELSE entry[d]]
      d == Head(lru[p])
  IN IF lru[p] = <<>> \/ (clean[d].prenat # Nobody /\ now < clean[d].stamp)
     THEN broken' \in {FALSE, lru[p] = <<>>} /\ entry' = clean /\ hashed' = hashed \ gone /\ UNCHANGED lru
     ELSE /\ UNCHANGED broken
          /\ entry' = [clean EXCEPT ![d].prenat = a, ![d].stamp = now + ttl]
          /\ hashed' = (hashed \ gone) \cup {d}
          /\ lru' = [lru EXCEPT ![p] = MoveToTail(@, d)]

\* An entry that is used lives on, unless it is static or ttl is negative.
Refresh(d, ttl) ==
  /\ IF ttl < 0 \/ entry[d].static THEN UNCHANGED <<entry, lru>>
     ELSE /\ entry' = [entry EXCEPT ![d].stamp = now + ttl]
          /\ lru' = [lru EXCEPT ![PrefixOf(d)] = MoveToTail(@, d)]
  /\ UNCHANGED <<hashed, broken>>

\* dnetmap_entry_lookup, dnetmap_entry_rlookup: of several, any may come first.
Lookup(a) == {d \in hashed : entry[d].prenat = a}
Rlookup(x) == {d \in hashed : PostNat[d] = x}

\* dnetmap_tg in POSTROUTING
PostRouting(a, r) ==
  LET p == r.prefix IN
  /\ r \in active
  /\ IF Lookup(a) = {}
     THEN IF "STATIC" \in r.flags THEN UNCHANGED <<entry, hashed, lru, broken>>
          ELSE Bind(p, a, r.ttl, {})
     ELSE \E d \in Lookup(a) :
            IF /\ "REUSE" \notin r.flags /\ ~entry[d].static
               /\ entry[d].stamp < now /\ PrefixOf(d) # p
            THEN Bind(p, a, r.ttl, {d}) ELSE Refresh(d, r.ttl)
  /\ UNCHANGED <<prefixes, active, now, made>>

\* dnetmap_tg in PREROUTING, by a rule without a prefix
PreRouting(x, ttl) ==
  /\ \E d \in Rlookup(x) : Refresh(d, ttl)
  /\ UNCHANGED <<prefixes, active, now, made>>

\* "flush", dnetmap_prefix_softflush: static entries become dynamic ones, at the
\* tail in the order of their addresses.
SoftFlush(p) ==
  LET static == Kept(Pool[p], {d \in DOMAIN entry : entry[d].static}) IN
  /\ Exists(p) /\ hashed' = hashed \ Range(Pool[p])
  /\ lru' = [lru EXCEPT ![p] = @ \o static]
  /\ entry' = [d \in DOMAIN entry |-> IF d \in Range(Pool[p]) THEN Unbound ELSE entry[d]]
  /\ UNCHANGED <<prefixes, active, broken, now, made>>

\* "+persistent" and "-persistent"
SetPersistent(p, persistent) ==
  /\ Exists(p) /\ prefixes[p].persistent # persistent
  /\ prefixes' = [prefixes EXCEPT ![p].persistent = persistent]
  /\ UNCHANGED <<active, entry, hashed, lru, broken, now, made>>

\* "+prenat:postnat", written to the file of p: an entry that is bound to the
\* address already, maybe one of another prefix, or that of p.  That the host is
\* bound elsewhere is not noticed, and an entry that is static already is taken
\* out of the list a second time.
AddStatic(p, a, x) ==
  /\ Exists(p)
  /\ \E d \in IF Rlookup(x) # {} THEN Rlookup(x) ELSE Range(Pool[p]) :
       /\ PostNat[d] = x
       /\ entry' = [entry EXCEPT ![d].prenat = a, ![d].static = TRUE]
       /\ hashed' = hashed \cup {d}
       /\ lru' = [lru EXCEPT ![PrefixOf(d)] = Others(@, d)]
       /\ broken' = (entry[d].static \/ ~(Lookup(a) \subseteq {d}))
  /\ x \in {PostNat[d] : d \in Range(Pool[p])}
  /\ UNCHANGED <<prefixes, active, now, made>>

\* "-address", inside or outside, written to the file of p: a static entry goes
\* back to the list of p, whosever it is.
Removed(p, d) ==
  /\ hashed' = hashed \ {d}
  /\ entry' = [entry EXCEPT ![d] = Unbound]
  /\ lru' = IF entry[d].static THEN [lru EXCEPT ![p] = Append(@, d)] ELSE lru
  /\ broken' = (entry[d].static /\ p # PrefixOf(d))

Unbind(p, x) ==
  /\ Exists(p)
  /\ \E d \in IF Rlookup(x) # {} THEN Rlookup(x) ELSE Lookup(x) : Removed(p, d)
  /\ UNCHANGED <<prefixes, active, now, made>>

Jiffy ==
  /\ now < MaxNow /\ now' = now + 1
  /\ UNCHANGED <<prefixes, active, entry, hashed, lru, broken, made>>

MapInit ==
  /\ prefixes = <<>> /\ active = {} /\ entry = <<>> /\ hashed = {} /\ lru = <<>>
  /\ broken = FALSE /\ now = 0 /\ made = 0

Packet ==
  \/ \E a \in Inside, r \in Rules : PostRouting(a, r)
  \/ \E x \in Outside, r \in Rules : PreRouting(x, r.ttl)

MapNext ==
  /\ ~broken
  /\ \/ Packet
     \/ \E r \in Rules : Check(r) \/ Destroy(r)
     \/ \E p \in Prefix :
          \/ SoftFlush(p)
          \/ \E persistent \in BOOLEAN : SetPersistent(p, persistent)
          \/ \E x \in Inside \cup Outside : Unbind(p, x)
          \/ \E a \in Inside, x \in Outside : AddStatic(p, a, x)
     \/ Jiffy

-----------------------------------------------------------------------------
MapTypeOK ==
  /\ DOMAIN entry = UNION {Range(Pool[p]) : p \in DOMAIN prefixes}
  /\ DOMAIN lru = DOMAIN prefixes /\ hashed \subseteq DOMAIN entry
  /\ \A d \in DOMAIN entry : entry[d].prenat \in Inside \cup {Nobody}

\* xt_DNETMAP.c: until something is broken, a host has one entry and an entry one
\* host, and two hosts have the same address only from prefixes that overlap; the
\* hash tables hold the bound entries and no other, the list of a prefix every entry
\* of it that is not static, once, and a prefix counts the rules that name it.
BindingsOneToOne ==
  ~broken =>
  /\ hashed = {d \in DOMAIN entry : entry[d].prenat # Nobody}
  /\ \A d, e \in hashed : entry[d].prenat = entry[e].prenat => d = e
  /\ \A d, e \in hashed : PostNat[d] = PostNat[e] => d = e \/ PrefixOf(d) # PrefixOf(e)
  /\ \A p \in DOMAIN lru :
       /\ Range(lru[p]) = {d \in Range(Pool[p]) : ~entry[d].static}
       /\ Cardinality(Range(lru[p])) = Len(lru[p])
  /\ \A d \in DOMAIN entry : entry[d].static => d \in hashed
  /\ \A p \in DOMAIN prefixes : prefixes[p].ref = Cardinality({r \in active : r.prefix = p})
  /\ \A r \in active : Exists(r.prefix)

\* dnetmap_tg: a packet takes no address from a binding that is alive or static.
LiveBindingsKept ==
  Packet =>
    \A d \in hashed :
      entry[d].static \/ now < entry[d].stamp => entry'[d].prenat = entry[d].prenat
-----------------------------------------------------------------------------
(* The inductive invariant: with the types, and what the lists have not twice. *)
Binding == [prenat : Inside \cup {Nobody}, static : BOOLEAN, stamp : Int]

MapStateOK ==
  /\ prefixes \in [DOMAIN prefixes -> [ref : Nat, persistent : BOOLEAN]]
  /\ DOMAIN prefixes \subseteq Prefix
  /\ active \subseteq Rules /\ IsFiniteSet(active) /\ now \in Nat
  /\ entry \in [UNION {Range(Pool[p]) : p \in DOMAIN prefixes} -> Binding]
  /\ lru \in [DOMAIN prefixes -> Seq(Slots)] /\ \A p \in DOMAIN lru : IsInjective(lru[p])

MapIInv == ~broken => MapStateOK /\ BindingsOneToOne
=============================================================================
