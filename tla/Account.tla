------------------------------- MODULE Account -------------------------------
(* The target ACCOUNT of the kernel (xt_ACCOUNT.c): packets are counted per   *)
(* address of a network in a tree of pages that grows as addresses occur,     *)
(* under a spinlock; programs take snapshots of the table into handles, and   *)
(* the flushing kind takes the pages themselves away; a mutex guards the      *)
(* handles.  An address is four numbers, and depth is how many of the first   *)
(* three are free.  One table name.                                           *)
EXTENDS Naturals, Sequences, FiniteSets, FiniteSetsExt

CONSTANTS
  Host,          \* addresses of packets, sequences of four numbers
  Net,           \* networks of rules: records of ip, depth and any (0.0.0.0/0)
  Reader,        \* programs that use the handles
  Unmade,        \* no table, no data in a handle
  MaxHandles,    \* ACCOUNT_MAX_HANDLES
  MaxSteps, MaxRules \* bounds

VARIABLES
  table, rules,  \* the table; how many iptables rules name it
  handle,        \* ipt_acc_handles: snapshots or Unmade
  reader,        \* the state of every program
  seen, gone,    \* history: packets of every address, and those whose counters were freed
  cleared,       \* history: somebody has freed all handles
  dangling,      \* the table points to pages that were freed
  steps          \* packets, and snapshots that were begun

acctVars == <<table, rules, handle, reader, seen, gone, cleared, dangling, steps>>

Zero == <<0, 0, 0, 0>>
Ip == Host \cup {Zero}
NoPackets == [ip \in Ip |-> [src |-> 0, dst |-> 0]]
Idle == [pc |-> "idle", dest |-> Unmade, h |-> 0, size |-> 0, got |-> 0]
Used(count) == {ip \in Ip : count[ip] # [src |-> 0, dst |-> 0]}
Plus(a, b) == [ip \in Ip |-> [src |-> a[ip].src + b[ip].src, dst |-> a[ip].dst + b[ip].dst]]

InNet(ip, net) == SubSeq(ip, 1, 3 - net.depth) = SubSeq(net.ip, 1, 3 - net.depth)
NewTable(net) == [net |-> net, ref |-> 1, items |-> 0, pages |-> {}, count |-> NoPackets]

\* ipt_acc_checkentry: a rule of a known name must have its network.
CheckEntry(net, memory) ==
  /\ rules < MaxRules
  /\ IF table = Unmade
     THEN memory /\ table' = NewTable(net)
     ELSE table.net = net /\ table' = [table EXCEPT !.ref = @ + 1]
  /\ rules' = rules + 1
  /\ UNCHANGED <<handle, reader, seen, gone, cleared, dangling, steps>>

\* ipt_acc_destroy
Destroy ==
  /\ rules > 0 /\ rules' = rules - 1
  /\ IF table.ref = 1
     THEN table' = Unmade /\ gone' = Plus(gone, table.count)
     ELSE table' = [table EXCEPT !.ref = @ - 1] /\ UNCHANGED gone
  /\ UNCHANGED <<handle, reader, seen, cleared, dangling, steps>>

\* ipt_acc_depth0_insert: an address is new when neither counter ran yet.
Depth0Insert(t, from, dst) ==
  LET src == IF t.net.any THEN Zero ELSE from
      isSrc == t.net.any \/ InNet(src, t.net)
      isDst == ~t.net.any /\ InNet(dst, t.net)
      c1 == IF isSrc THEN [t.count EXCEPT ![src].src = @ + 1] ELSE t.count
      c2 == IF isDst THEN [c1 EXCEPT ![dst].dst = @ + 1] ELSE c1
      new == {s \in {"src", "dst"} : IF s = "src" THEN isSrc /\ src \notin Used(t.count)
                                                  ELSE isDst /\ dst \notin Used(c1)}
      sameSlot == src[4] = dst[4]
  IN [t EXCEPT !.count = c2,
               !.items = @ + IF sameSlot /\ new # {} THEN 1 ELSE Cardinality(new)]

\* The pages on the way to an address, from the top; memory is for n more.
Way(t, ip) == {SubSeq(ip, 4 - t.net.depth, k) : k \in (4 - t.net.depth) .. 3}
Missing(t, ip) == Way(t, ip) \ t.pages
Got(t, ip, n) == {p \in Missing(t, ip) : Cardinality({q \in Missing(t, ip) : Len(q) < Len(p)}) < n}

\* One side of a packet below the top of the tree (ipt_acc_depth1_insert and
\* ipt_acc_depth2_insert, with 0.0.0.0 for the other side)
Side(t, ip, src, dst, n) ==
  LET grown == [t EXCEPT !.pages = @ \cup Got(t, ip, n)]
  IN IF Got(t, ip, n) = Missing(t, ip) THEN Depth0Insert(grown, src, dst) ELSE grown

\* Without memory for the page at the top the whole packet is given up.
GivesUp(t, ip, n) == n = 0 /\ Cardinality(Missing(t, ip)) = t.net.depth

TreeInsert(t, src, dst, n, m) ==
  LET first == IF InNet(src, t.net) THEN Side(t, src, src, Zero, n) ELSE t
  IN IF InNet(src, t.net) /\ GivesUp(t, src, n) THEN t
     ELSE IF InNet(dst, t.net) THEN Side(first, dst, Zero, dst, m) ELSE first

\* What a packet should add, and what it added when there was no memory
Owed(net, src, dst) ==
  [ip \in Ip |->
    [src |-> IF (net.any /\ ip = Zero) \/ (~net.any /\ ip = src /\ InNet(src, net)) THEN 1 ELSE 0,
     dst |-> IF ~net.any /\ ip = dst /\ InNet(dst, net) THEN 1 ELSE 0]]
Added(old, new) ==
  [ip \in Ip |-> [src |-> new[ip].src - old[ip].src, dst |-> new[ip].dst - old[ip].dst]]

\* ipt_acc_target
Target(src, dst, n, m) ==
  /\ table # Unmade /\ steps < MaxSteps /\ steps' = steps + 1
  /\ table' = IF table.net.depth = 0 THEN Depth0Insert(table, src, dst)
              ELSE TreeInsert(table, src, dst, n, m)
  /\ seen' = Plus(seen, IF n + m = 4 THEN Owed(table.net, src, dst)
                        ELSE Added(table.count, table'.count))
  /\ UNCHANGED <<rules, handle, reader, gone, cleared, dangling>>

\* ipt_ACCOUNT_read_entries: a program goes on to its next call.
Set(p, r) == reader' = [reader EXCEPT ![p] = r]
Snapshot(flush) == [count |-> table.count, items |-> table.items, flush |-> flush]

\* ipt_acc_handle_prepare_read_flush: the pages change hands.
PrepareReadFlush(p) ==
  /\ reader[p].pc = "idle" /\ table # Unmade
  /\ steps < MaxSteps /\ steps' = steps + 1
  /\ Set(p, [Idle EXCEPT !.pc = "prepared", !.dest = Snapshot(TRUE)])
  /\ table' = [table EXCEPT !.items = 0, !.pages = {}, !.count = NoPackets]
  /\ UNCHANGED <<rules, handle, seen, gone, cleared, dangling>>

\* ipt_acc_handle_prepare_read: a copy
PrepareRead(p) ==
  /\ reader[p].pc = "idle" /\ table # Unmade
  /\ steps < MaxSteps /\ steps' = steps + 1
  /\ Set(p, [Idle EXCEPT !.pc = "prepared", !.dest = Snapshot(FALSE)])
  /\ UNCHANGED <<table, rules, handle, seen, gone, cleared, dangling>>

\* Out of memory for the copy of a page: the copied page of pointers still holds
\* the table's own for the places behind it, and they are freed with it.
PrepareReadFails(p) ==
  /\ reader[p].pc = "idle" /\ table # Unmade
  /\ \E page \in table.pages :
       dangling' = \E other \in table.pages :
                     Len(page) = 2 /\ Len(other) = 2 /\ other[1] = page[1] /\ other[2] > page[2]
  /\ UNCHANGED <<table, rules, handle, reader, seen, gone, cleared, steps>>

Free == {h \in DOMAIN handle : handle[h] = Unmade}
Lost(s) == IF s = Unmade \/ ~s.flush THEN NoPackets ELSE s.count

\* ipt_acc_handle_find_slot, after the spinlock was given back
FindSlot(p) ==
  /\ reader[p].pc = "prepared"
  /\ IF Free = {}
     THEN /\ Set(p, Idle) /\ UNCHANGED handle
          /\ gone' = Plus(gone, Lost(reader[p].dest))
     ELSE /\ handle' = [handle EXCEPT ![Min(Free)] = reader[p].dest]
          /\ Set(p, [Idle EXCEPT !.pc = "has", !.h = Min(Free), !.size = reader[p].dest.items])
          /\ UNCHANGED gone
  /\ UNCHANGED <<table, rules, seen, cleared, dangling, steps>>

\* ipt_acc_get_ctl: the size is compared before the mutex is taken.
CheckSize(p) ==
  /\ reader[p].pc = "has"
  /\ LET s == handle[reader[p].h]
     IN Set(p, [reader[p] EXCEPT !.pc = IF s # Unmade /\ s.items > reader[p].size
                                        THEN "done" ELSE "checked"])
  /\ UNCHANGED <<table, rules, handle, seen, gone, cleared, dangling, steps>>

\* ipt_acc_handle_get_data: every address with a counter that ran
GetData(p) ==
  /\ reader[p].pc = "checked"
  /\ LET s == handle[reader[p].h]
     IN Set(p, [reader[p] EXCEPT !.pc = "done",
                  !.got = IF s = Unmade THEN 0 ELSE Cardinality(Used(s.count))])
  /\ UNCHANGED <<table, rules, handle, seen, gone, cleared, dangling, steps>>

\* IPT_SO_SET_ACCOUNT_HANDLE_FREE by the number the program has
HandleFree(p) ==
  /\ reader[p].pc = "done" /\ Set(p, Idle)
  /\ handle' = [handle EXCEPT ![reader[p].h] = Unmade]
  /\ gone' = Plus(gone, Lost(handle[reader[p].h]))
  /\ UNCHANGED <<table, rules, seen, cleared, dangling, steps>>

\* A program is killed: its handle stays.
Killed(p) ==
  /\ reader[p].pc \in {"has", "checked", "done"} /\ Set(p, Idle)
  /\ UNCHANGED <<table, rules, handle, seen, gone, cleared, dangling, steps>>

\* IPT_SO_SET_ACCOUNT_HANDLE_FREE_ALL, which iptaccount -h asks for
HandleFreeAll ==
  /\ \E h \in DOMAIN handle : handle[h] # Unmade
  /\ handle' = [h \in DOMAIN handle |-> Unmade] /\ cleared' = TRUE
  /\ gone' = FoldSet(LAMBDA h, g : Plus(g, Lost(handle[h])), gone, DOMAIN handle)
  /\ UNCHANGED <<table, rules, reader, seen, dangling, steps>>

AcctInit ==
  /\ table = Unmade /\ rules = 0 /\ handle = [h \in 1 .. MaxHandles |-> Unmade]
  /\ reader = [p \in Reader |-> Idle] /\ seen = NoPackets /\ gone = NoPackets
  /\ cleared = FALSE /\ dangling = FALSE /\ steps = 0

\* Rules come and go, packets arrive, and runs of iptaccount read or free.
AcctNext ==
  /\ ~dangling
  /\ \/ \E net \in Net, memory \in BOOLEAN : CheckEntry(net, memory)
     \/ Destroy
     \/ \E src, dst \in Host, n, m \in 0 .. 2 : 2 \in {n, m} /\ Target(src, dst, n, m)
     \/ \E p \in Reader :
          \/ PrepareReadFlush(p) \/ PrepareRead(p) \/ PrepareReadFails(p)
          \/ FindSlot(p) \/ CheckSize(p) \/ GetData(p) \/ HandleFree(p) \/ Killed(p)
     \/ HandleFreeAll

-----------------------------------------------------------------------------
AcctTypeOK ==
  /\ rules \in 0 .. MaxRules /\ steps \in 0 .. MaxSteps
  /\ \A p \in Reader : reader[p].pc \in {"idle", "prepared", "has", "checked", "done"}
  /\ table # Unmade => \A page \in table.pages : Len(page) \in 1 .. table.net.depth

\* Every snapshot that still exists: the table, what a program has in hand, and
\* the handles
InHand == {p \in Reader : reader[p].pc = "prepared"}
Sum(counts(_), S) == FoldSet(LAMBDA x, g : Plus(g, counts(x)), NoPackets, S)
Owns(t) == IF t = Unmade THEN NoPackets ELSE t.count

\* xt_ACCOUNT.c: the number of items a program makes room for is the number of
\* addresses it will be given, in the table, on the way and in the handles; the
\* table lives as long as a rule; and every packet is in one place only: in the
\* table, in a flushed snapshot, or in counters somebody freed.
CountsAgree ==
  /\ (table = Unmade) <=> (rules = 0)
  /\ table # Unmade => table.ref = rules /\ table.items = Cardinality(Used(table.count))
  /\ \A p \in InHand : reader[p].dest.items = Cardinality(Used(reader[p].dest.count))
  /\ \A h \in DOMAIN handle :
       handle[h] # Unmade => handle[h].items = Cardinality(Used(handle[h].count))
  /\ \A p \in Reader : ~cleared /\ reader[p].got > 0 => reader[p].got = reader[p].size
  /\ seen = Plus(Plus(gone, Owns(table)),
                 Plus(Sum(LAMBDA p : Lost(reader[p].dest), InHand),
                      Sum(LAMBDA h : Lost(handle[h]), DOMAIN handle)))
=============================================================================
