------------------------------- MODULE Packet -------------------------------
(* Names on the wire.  response_addname writes a name with its end replaced  *)
(* by a pointer to where that end was written before; dns_packet_getname and *)
(* dns_packet_skipname read names, of our own messages or of anyone's;       *)
(* dns_domain_fromdot and dns_domain_todot_cat are the text forms.  A byte   *)
(* has Radix values instead of 256: the first two bits tell a label's length *)
(* from a pointer, two bytes less those bits hold an offset.                 *)
EXTENDS Naturals, Sequences, FiniteSets

CONSTANTS
  Radix,        \* the values of a byte: 256
  Names,        \* domain names, as sequences of labels, each a sequence of bytes
  Received,     \* messages that come from outside
  Header,       \* the length of a message's header: 12
  Fillers,      \* lengths of what stands between two names
  MaxLen,       \* bound of a message: 65535
  NAMES, Remembered, \* how many names are remembered, and of which length: 100, 128
  ReadLoop, NameMax, LabelMax, \* 1000, 255, 63
  Texts         \* names for the text forms, with bytes as in ASCII

PacketConstants ==
  /\ Radix \in Nat /\ Radix % 4 = 0 /\ Radix > 0
  /\ Names \subseteq Seq(Seq(Nat))
  /\ \A d \in Names : \A i \in 1..Len(d) : Len(d[i]) \in 1..(Radix \div 4 - 1)
  /\ Header \in Nat /\ MaxLen \in Nat /\ Header <= MaxLen /\ NAMES \in Nat
  /\ Fillers \subseteq Nat
  /\ \A m \in Received : m \in Seq(Nat) /\ Len(m) <= MaxLen

VARIABLES
  ours,      \* whether the message is one we build or one received
  msg,       \* response[0 .. response_len), or that message
  name,      \* name[] and name_ptr[]: ends of names and where they are
  written    \* every name added, and where

pvars == <<ours, msg, name, written>>

Compressed == 3 * (Radix \div 4)
PtrLimit == Radix * (Radix \div 4)
Zeros(n) == [i \in 1..n |-> 0]
Lower(c) == IF c \in 65..90 THEN c + 32 ELSE c

(* A name as bytes, and its ends.                                            *)
Wire(d) == LET w[i \in 0..Len(d)] == IF i = 0 THEN <<>> ELSE w[i - 1] \o <<Len(d[i])>> \o d[i]
           IN w[Len(d)] \o <<0>>
dns_domain_length(d) == Len(Wire(d))
EndFrom(d, i) == SubSeq(d, i, Len(d))

-----------------------------------------------------------------------------
(* response_addbytes() adds all or nothing.                                  *)
SlipAddbytes(r, bytes) == [r EXCEPT !.msg = @ \o bytes]
response_addbytes(r, bytes) ==
  IF Len(r.msg) + Len(bytes) > MaxLen THEN [r EXCEPT !.ok = FALSE, !.ended = TRUE]
  ELSE [r EXCEPT !.msg = @ \o bytes]

(* uint16_pack_big(49152 + name_ptr[i]), in 16 bits.                         *)
Pointer(at) ==
  LET v == (Compressed * Radix + at) % (Radix * Radix) IN <<v \div Radix, v % Radix>>

Remember(r, d) ==
  IF dns_domain_length(d) <= Remembered /\ Len(r.table) < NAMES
  THEN [r EXCEPT !.table = Append(@, [name |-> d, at |-> Len(r.msg)])]
  ELSE r

(* One label of response_addname(): a remembered end ends it, anything else   *)
(* is remembered and written out.                                            *)
AddLabel(r, d) ==
  LET same == {j \in 1..Len(r.table) : r.table[j].name = d}
      first == CHOOSE j \in same : \A k \in same : j <= k
  IN IF r.ended THEN r
     ELSE IF same # {} THEN [response_addbytes(r, Pointer(r.table[first].at)) EXCEPT !.ended = TRUE]
     ELSE response_addbytes(Remember(r, d), <<Len(d[1])>> \o d[1])

response_addname(d) ==
  LET add[i \in 0..Len(d)] ==
        IF i = 0 THEN [msg |-> msg, table |-> name, ok |-> TRUE, ended |-> FALSE]
        ELSE AddLabel(add[i - 1], EndFrom(d, i))
      last == add[Len(d)]
  IN IF last.ended THEN last ELSE response_addbytes(last, <<0>>)

-----------------------------------------------------------------------------
(* dns_packet_getname(), a byte at a time; offsets begin at 0.               *)
Byte(buf, pos) == buf[pos + 1]
Bad(s) == [s EXCEPT !.how = "proto"]

Put(s, ch, left) ==
  IF Len(s.name) + 1 > NameMax THEN Bad(s)
  ELSE [s EXCEPT !.name = Append(@, ch), !.left = left, !.pos = @ + 1,
                 !.how = IF s.left = 0 /\ ch = 0 THEN "done" ELSE @]

SlipHop(buf, s) ==
  IF s.pos + 1 >= Len(buf) THEN Bad(s)
  ELSE [s EXCEPT !.first = s.pos + 2,
                 !.pos = (Byte(buf, s.pos) - Compressed) * Radix + Byte(buf, s.pos + 1)]
Hop(buf, s) ==
  IF s.pos + 1 >= Len(buf) THEN Bad(s)
  ELSE [s EXCEPT !.first = IF @ = 0 THEN s.pos + 2 ELSE @,
                 !.pos = (Byte(buf, s.pos) - Compressed) * Radix + Byte(buf, s.pos + 1)]

ReadStep(buf, s) ==
  IF s.how # "reading" THEN s
  ELSE IF s.pos >= Len(buf) THEN Bad(s)
  ELSE LET ch == Byte(buf, s.pos)
       IN IF s.left > 0 THEN Put(s, ch, s.left - 1)
          ELSE IF ch >= Compressed THEN Hop(buf, s)
          ELSE IF ch >= Radix \div 4 THEN Bad(s)
          ELSE Put(s, ch, ch)

dns_packet_getname(buf, start) ==
  LET read[n \in 0..(ReadLoop - 1)] ==
        IF n = 0 THEN [pos |-> start, left |-> 0, name |-> <<>>, first |-> 0, how |-> "reading"]
        ELSE ReadStep(buf, read[n - 1])
      last == read[ReadLoop - 1]
  IN [ok |-> last.how = "done", name |-> last.name,
      pos |-> IF last.how # "done" THEN 0 ELSE IF last.first > 0 THEN last.first ELSE last.pos]

(* dns_packet_skipname(): the position after a name, or 0.                   *)
dns_packet_skipname(buf, start) ==
  LET skip[n \in 0..Len(buf) + 1] ==
        IF n = 0 THEN [pos |-> start, end |-> FALSE, result |-> 0]
        ELSE LET s == skip[n - 1]
             IN IF s.end THEN s
                ELSE IF s.pos >= Len(buf) THEN [s EXCEPT !.end = TRUE]
                ELSE LET ch == Byte(buf, s.pos)
                     IN IF ch >= Compressed THEN [s EXCEPT !.end = TRUE, !.result = s.pos + 2]
                        ELSE IF ch >= Radix \div 4 THEN [s EXCEPT !.end = TRUE]
                        ELSE IF ch = 0 THEN [s EXCEPT !.end = TRUE, !.result = s.pos + 1]
                        ELSE [s EXCEPT !.pos = @ + 1 + ch]
  IN skip[Len(buf) + 1].result

-----------------------------------------------------------------------------
(* dns_domain_todot_cat(): what is no letter, digit, - or _ becomes \ooo.    *)
Plain(c) == c \in 97..122 \cup 48..57 \cup {45, 95}
Escaped(c) ==
  IF Plain(Lower(c)) THEN <<Lower(c)>>
  ELSE <<92, 48 + ((c \div 64) % 8), 48 + ((c \div 8) % 8), 48 + (c % 8)>>

Flat(s) == LET f[i \in 0..Len(s)] == IF i = 0 THEN <<>> ELSE f[i - 1] \o s[i] IN f[Len(s)]
LabelText(l) == Flat([i \in 1..Len(l) |-> Escaped(l[i])])

dns_domain_todot(d) ==
  IF d = <<>> THEN <<46>>
  ELSE Flat([i \in 1..Len(d) |-> IF i = 1 THEN LabelText(d[1]) ELSE <<46>> \o LabelText(d[i])])

(* dns_domain_fromdot(): a character of the text after another; a backslash  *)
(* takes the character after it, or up to three octal digits.                *)
EndLabel(s) ==
  IF s.label = <<>> THEN s
  ELSE IF dns_domain_length(s.name) + Len(s.label) > NameMax THEN [s EXCEPT !.ok = FALSE]
  ELSE [s EXCEPT !.name = Append(@, s.label), !.label = <<>>]

AddChar(s, c, digits) ==
  IF Len(s.label) >= LabelMax THEN [s EXCEPT !.ok = FALSE]
  ELSE [s EXCEPT !.label = Append(@, c), !.esc = digits]

AfterBackslash == 3
Digit(c) == c \in 48..55
TakeChar(s, c) ==
  CASE s.esc = AfterBackslash /\ Digit(c) -> AddChar(s, c - 48, 1)
    [] s.esc = AfterBackslash /\ ~Digit(c) -> AddChar(s, c, 0)
    [] s.esc \in {1, 2} /\ Digit(c) ->
         [s EXCEPT !.label[Len(s.label)] = (8 * @ + c - 48) % 256, !.esc = (@ + 1) % 3]
    [] OTHER -> IF c = 46 THEN [EndLabel(s) EXCEPT !.esc = 0]
                ELSE IF c = 92 THEN [s EXCEPT !.esc = AfterBackslash]
                ELSE AddChar(s, c, 0)

dns_domain_fromdot(text) ==
  LET take[i \in 0..Len(text)] ==
        IF i = 0 THEN [name |-> <<>>, label |-> <<>>, esc |-> 0, ok |-> TRUE]
        ELSE IF ~take[i - 1].ok THEN take[i - 1] ELSE TakeChar(take[i - 1], text[i])
  IN EndLabel(take[Len(text)])

-----------------------------------------------------------------------------
PInit ==
  /\ name = <<>> /\ written = {}
  /\ \/ ours = TRUE /\ msg = Zeros(Header)     \* response_query()
     \/ ours = FALSE /\ msg \in Received

(* A message of ours grows by names and by what stands between them.         *)
AddName ==
  /\ ours /\ UNCHANGED ours
  /\ \E d \in Names :
       LET r == response_addname(d)
       IN /\ msg' = r.msg /\ name' = r.table
          /\ written' = IF r.ok THEN written \cup {[name |-> d, at |-> Len(msg)]} ELSE written

AddBytes ==
  /\ ours /\ \E n \in Fillers : Len(msg) + n <= MaxLen /\ msg' = msg \o Zeros(n)
  /\ UNCHANGED <<ours, name, written>>

PNext == AddName \/ AddBytes
PSpec == PInit /\ [][PNext]_pvars

-----------------------------------------------------------------------------
PTypeOK == Len(msg) <= MaxLen /\ Len(name) <= NAMES

(* The names of a message of ours read back as they were added, through all   *)
(* the pointers to ends of earlier ones, as long as the ends remembered lie   *)
(* where a pointer can point.                                                *)
NamesReadBack ==
  (\A i \in 1..Len(name) : name[i].at < PtrLimit) =>
    \A w \in written : dns_packet_getname(msg, w.at).name = Wire(w.name)

(* The comment of name_ptr, 'each < 16384'.                                  *)
PointersInRange == \A i \in 1..Len(name) : name[i].at < PtrLimit

(* A name is made of labels: their lengths lead from its first byte to its end. *)
Labels(w) ==
  LET at[i \in 0..Len(w)] == IF i = 0 THEN 1 ELSE IF at[i - 1] >= Len(w) THEN at[i - 1] ELSE at[i - 1] + w[at[i - 1]] + 1
  IN at[Len(w)] = Len(w) /\ w[Len(w)] = 0

(* Of any message at any place, what getname returns is a name, no longer    *)
(* than a name may be, and the place after it is where skipname goes on.     *)
ReadsNamesOnly ==
  \A pos \in 0..Len(msg) :
    LET g == dns_packet_getname(msg, pos)
    IN g.ok => /\ Len(g.name) <= NameMax /\ Labels(g.name)
               /\ g.pos = dns_packet_skipname(msg, pos)

(* The text form of a name is read back as the name, in small letters.       *)
LowerName(d) == [i \in 1..Len(d) |-> [j \in 1..Len(d[i]) |-> Lower(d[i][j])]]
TextReadsBack ==
  \A d \in Texts : LET f == dns_domain_fromdot(dns_domain_todot(d)) IN f.ok /\ f.name = LowerName(d)
-----------------------------------------------------------------------------
(* What holds in every state of a message and the ends remembered of it.     *)
EndsAt == [name : Seq(Seq(Nat)), at : Nat]
PacketInv ==
  /\ msg \in Seq(Nat) /\ Len(msg) <= MaxLen
  /\ name \in Seq(EndsAt) /\ Len(name) <= NAMES
=============================================================================
