--------------------------------- MODULE Psd ---------------------------------
(* The match psd of the kernel (xt_psd.c): a fixed list of source addresses,  *)
(* reused in turn, with a hash table of chains of limited length into it.  An *)
(* address whose packets reach new ports of enough weight, none too long      *)
(* after the one before, scans.  Entry 0 is the null pointer.                 *)
EXTENDS Integers, Sequences, FiniteSets, FiniteSetsExt

CONSTANTS
  Source,        \* source addresses
  Hash,          \* the hash value of an address (hashfunc)
  Weight,        \* the weight of a port under 1024 or not
  ListSize, HashMax, PortMax, \* LIST_SIZE, HASH_MAX, SCAN_MAX_COUNT - 1
  WeightMax,     \* one more than a uint8_t holds
  Threshold, Delay, \* weight_threshold, delay_threshold in ticks
  Unused,        \* the address 0.0.0.0
  Reached,       \* the ports that the packets of an address go to
  MaxClock

\* psd_mt_check: the threshold and one of the weights are not 0.  A weight or the
\* threshold may be more than an entry's weight can hold, and the threshold more
\* than the ports of an entry weigh.
PsdConstants ==
  /\ ListSize \in Nat \ {0} /\ HashMax \in Nat /\ PortMax \in Nat \ {0} /\ MaxClock \in Nat
  /\ Delay \in Nat /\ Threshold \in Nat \ {0} /\ WeightMax \in Nat \ {0}
  /\ Weight \in Seq(Nat) /\ \E port \in DOMAIN Weight : Weight[port] > 0
  /\ Reached \in [Source -> SUBSET DOMAIN Weight]
  /\ Unused \notin Source /\ Source \subseteq DOMAIN Hash

VARIABLES
  list,          \* saddr, timestamp, weight and ports of every entry
  head, next,    \* the hash table and the chains
  index,         \* the entry to be used next
  clock,
  tried, scan    \* history: ports since the entry was made; the last verdict

psdVars == <<list, head, next, index, clock, tried, scan>>

Entries == 1 .. ListSize
Values == {Hash[a] : a \in Source}
Blank == [saddr |-> Unused, stamp |-> 0, weight |-> 0, ports |-> {}]

\* A chain as a sequence; one that never ends is longer than the list.
Chain(first, link) ==
  LET at[k \in 0 .. ListSize] ==
        IF k = 0 THEN first ELSE IF at[k - 1] = 0 THEN 0 ELSE link[at[k - 1]]
      ends == {k \in 0 .. ListSize : at[k] = 0}
  IN [k \in 1 .. (IF ends = {} THEN ListSize + 1 ELSE Min(ends)) |-> at[k - 1]]

Place(chain, e) == CHOOSE k \in 1 .. Len(chain) : chain[k] = e
Before(chain, k) == IF k = 1 THEN 0 ELSE chain[k - 1]

\* ht_unlink, with the tables as a record
Unlink(t, h, last) ==
  IF last # 0 THEN [t EXCEPT !.next[last] = t.next[t.next[last]]]
  ELSE IF t.head[h] # 0 THEN [t EXCEPT !.head[h] = t.next[t.head[h]]] ELSE t

\* Slip: the entry that is used again is left in the chain it was in.
RemoveOldest_Not(t, e) == t

\* remove_oldest, for an entry that is used
RemoveOldest(t, e) ==
  LET a == t.list[e].saddr
      chain == Chain(t.head[Hash[a]], t.next)
  IN IF a = Unused \/ e \notin {chain[k] : k \in 1 .. Len(chain)} THEN t
     ELSE Unlink(t, Hash[a], Before(chain, Place(chain, e)))

\* Link the next entry for a into the hash table and fill it in
NewEntry(t, a, port) ==
  LET r == RemoveOldest(t, index) IN
  [head |-> [r.head EXCEPT ![Hash[a]] = index],
   next |-> [r.next EXCEPT ![index] = r.head[Hash[a]]],
   list |-> [r.list EXCEPT ![index] =
              [saddr |-> a, stamp |-> clock, weight |-> Weight[port] % WeightMax, ports |-> {port}]]]

Recent(e) == clock - list[e].stamp <= Delay

Room(e) == Cardinality(list[e].ports) < PortMax

\* is_portscan
IsPortscan(e, port, ack) ==
  LET more == (list[e].weight + Weight[port]) % WeightMax
      matched == list[e].weight >= Threshold
  IN IF port \in list[e].ports \/ ack
     THEN scan' = {} /\ UNCHANGED list
     ELSE /\ scan' = IF matched \/ more >= Threshold THEN {list[e].saddr} ELSE {}
          /\ list' = [list EXCEPT ![e].stamp = clock,
                        ![e].weight = IF matched THEN @ ELSE more,
                        ![e].ports = IF matched \/ more >= Threshold \/ ~Room(e) THEN @ ELSE @ \cup {port}]

Tables == [head |-> head, next |-> next, list |-> list]
Become(t) == head' = t.head /\ next' = t.next /\ list' = t.list

\* Slip: the list is taken for an endless one.
NextIndex_NoWrap(i) == i + 1

NextIndex(i) == (i % ListSize) + 1

\* handle_packet4 for an address that has no entry: too long a chain loses its
\* last one.
Unknown(a, port, chain) ==
  LET last == IF Len(chain) >= 2 THEN chain[Len(chain) - 1] ELSE 0
      cut == IF Len(chain) >= HashMax /\ last # 0 THEN [Tables EXCEPT !.next[last] = 0] ELSE Tables
  IN Become(NewEntry(cut, a, port)) /\ index' = NextIndex(index)

\* handle_packet4 for an entry that is too old
Outdated(a, port, ack, chain, e) ==
  LET t == Unlink([Tables EXCEPT !.list[e].saddr = Unused], Hash[a], Before(chain, Place(chain, e)))
  IN IF ack THEN Become(t) /\ UNCHANGED index
     ELSE Become(NewEntry(t, a, port)) /\ index' = NextIndex(index)

\* xt_psd_match; ack stands for a TCP packet with ACK.
PsdMatch(a, port, ack) ==
  LET chain == Chain(head[Hash[a]], next)
      known == {k \in 1 .. Len(chain) : list[chain[k]].saddr = a}
  IN /\ IF known = {}
        THEN IF ack THEN UNCHANGED <<list, head, next, index>> ELSE Unknown(a, port, chain)
        ELSE LET e == chain[Min(known)] IN
             IF Recent(e) THEN UNCHANGED <<head, next, index>> ELSE Outdated(a, port, ack, chain, e)
     /\ IF known # {} /\ Recent(chain[Min(known)]) THEN IsPortscan(chain[Min(known)], port, ack)
        ELSE scan' = {}
     /\ tried' = IF ack THEN tried
                 ELSE [tried EXCEPT ![a] = IF index' # index THEN {port} ELSE @ \cup {port}]
     /\ UNCHANGED clock

PsdTick ==
  /\ clock < MaxClock /\ clock' = clock + 1
  /\ UNCHANGED <<list, head, next, index, tried, scan>>

PsdInit ==
  /\ list = [e \in Entries |-> Blank] /\ head = [h \in Values |-> 0] /\ next = [e \in Entries |-> 0]
  /\ index = 1 /\ clock = 0 /\ tried = [a \in Source |-> {}] /\ scan = {}

PsdNext ==
  \/ \E a \in Source : \E port \in Reached[a], ack \in BOOLEAN : PsdMatch(a, port, ack)
  \/ PsdTick

-----------------------------------------------------------------------------
PsdTypeOK ==
  /\ index \in Entries /\ clock \in 0 .. MaxClock /\ scan \subseteq Source
  /\ \A e \in Entries : next[e] \in 0 .. ListSize /\ list[e].weight < WeightMax
  /\ \A e \in Entries : Cardinality(list[e].ports) <= PortMax

\* xt_psd.c: every chain ends, holds entries of addresses with its hash, and no
\* address twice, so that a packet always finds the entry of its address.
ChainsSound ==
  \A h \in Values :
    LET chain == Chain(head[h], next) IN
    /\ Len(chain) <= ListSize
    /\ \A k \in 1 .. Len(chain) :
         list[chain[k]].saddr # Unused /\ Hash[list[chain[k]].saddr] = h
    /\ \A j, k \in 1 .. Len(chain) : list[chain[j]].saddr = list[chain[k]].saddr => j = k

\* The weight of ports, each once
Total(ports) ==
  LET sum[n \in 0 .. Len(Weight)] ==
        IF n = 0 THEN 0 ELSE sum[n - 1] + IF n \in ports THEN Weight[n] ELSE 0
  IN sum[Len(Weight)]

\* An entry holds PortMax ports; one more is counted each time a packet goes there.
Enough(ports) == Total(ports) >= Threshold \/ Cardinality(ports) > PortMax

\* is_portscan: only an address that tried different ports whose weights reach
\* the threshold, or more ports than an entry holds, since its entry was made, is
\* said to scan.
ScansAreScans ==
  \A a \in scan' : Enough(tried'[a])
-----------------------------------------------------------------------------
(* The inductive invariant: the chains are linked as they should be, and what *)
(* an entry in one of them weighs is the weight of ports that were tried.     *)
Chains == [h \in Values |-> Chain(head[h], next)]

\* The entry at a place of a chain, and the null pointer after the last
Nth(s, i) == IF i <= Len(s) THEN s[i] ELSE 0

Linked(c, t) ==
  \A h \in Values :
    t.head[h] = Nth(c[h], 1) /\ \A i \in 1 .. Len(c[h]) : t.next[c[h][i]] = Nth(c[h], i + 1)

Sorted(c, t) ==
  \A h \in Values : \A i \in 1 .. Len(c[h]) :
    /\ t.list[c[h][i]].saddr \in Source /\ Hash[t.list[c[h][i]].saddr] = h
    /\ \A j \in 1 .. Len(c[h]) : t.list[c[h][j]].saddr = t.list[c[h][i]].saddr => i = j

Chained(c, t) == c \in [Values -> Seq(Entries)] /\ Linked(c, t) /\ Sorted(c, t)

Entry == [saddr : Source \cup {Unused}, stamp : 0 .. clock, weight : 0 .. WeightMax - 1,
          ports : SUBSET DOMAIN Weight]

\* Until it is found out, an address weighs at most what its ports do, unless it
\* tried more than are remembered.
Weighed(e, ports) ==
  /\ e.ports \subseteq ports
  /\ e.weight < Threshold => e.weight <= Total(e.ports) \/ Cardinality(ports) > PortMax
  /\ e.weight >= Threshold => Enough(ports)

PsdStateOK ==
  /\ index \in Entries /\ clock \in 0 .. MaxClock /\ scan \subseteq Source
  /\ next \in [Entries -> 0 .. ListSize] /\ head \in [Values -> 0 .. ListSize]
  /\ list \in [Entries -> Entry] /\ tried \in [Source -> SUBSET DOMAIN Weight]
  /\ \A e \in Entries : Cardinality(list[e].ports) <= PortMax

\* Who was found out has tried ports enough.
Founded == \A a \in scan : Enough(tried[a])

PsdIInv ==
  /\ PsdStateOK /\ Founded /\ Chained(Chains, Tables)
  /\ \A h \in Values : \A i \in 1 .. Len(Chains[h]) :
       Weighed(list[Chains[h][i]], tried[list[Chains[h][i]].saddr])
=============================================================================
