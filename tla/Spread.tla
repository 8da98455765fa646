-------------------------------- MODULE Spread --------------------------------
(* The front of the name servers (scripts/control2): the raw table sends every  *)
(* packet for the frontend address to one of the backends by a hash of client   *)
(* and port (RAWDNAT), and gives the answers the frontend address back          *)
(* (RAWSNAT), with no memory of the connection; both put the checksum of the    *)
(* packet right (xt_RAWNAT.c).  An address has four octets of Byte bits, first  *)
(* the one of the network; a checksum is the sum modulo 2^(2*Byte) - 1.         *)
EXTENDS Integers, Sequences, FiniteSets, Functions

CONSTANTS
  Byte,      \* bound: bits in an octet
  Clients,   \* addresses of clients
  Ports,     \* source ports of clients, two octets each
  Frontend, Backnet, Bits,  \* --to-source, --to-destination and its mask
  Words6, Checks6, \* values of a word of an IPv6 address, and of a checksum
  Width6     \* bits in such a word

VARIABLES
  packet,    \* [src, dst, sport, proto, check]
  stage,     \* "asked", "served", "answered", "home"; "asked6", "home6"; "lost"
  meant      \* what is left of the packet that the client sent: is its check right

spreadVars == <<packet, stage, meant>>

Octet == 2 ^ Byte
Modulus == Octet ^ 2 - 1
Protocols == {"tcp", "udp", "icmp"}

\* ntohl, and the octets of a number
Net(o) == ((o[1] * Octet + o[2]) * Octet + o[3]) * Octet + o[4]
Octets(n) == [k \in 1 .. 4 |-> (n \div Octet ^ (4 - k)) % Octet]

\* The low bits of addr beyond the first shift bits, in repl
remask(addr, repl, shift, width) ==
  LET host == 2 ^ (width - shift) IN (addr % host) + repl - (repl % host)

\* a ^ b of two octets, bit by bit
Bit(a, i) == (a \div 2 ^ i) % 2
Xor(a, b) ==
  CHOOSE c \in 0 .. Octet - 1 :
    \A i \in 0 .. Byte - 1 : Bit(c, i) = (Bit(a, i) + Bit(b, i)) % 2

\* hash ^= hash << n on a processor that keeps the first octet lowest: each octet
\* takes in the one n octets before it.
ShiftXor(o, n) == [k \in 1 .. 4 |-> IF k > n THEN Xor(o[k], o[k - n]) ELSE o[k]]
HashVal(p) ==
  LET ported == IF p.proto = "icmp" THEN p.src
                ELSE [p.src EXCEPT ![3] = Xor(@, p.sport[1]), ![4] = Xor(@, p.sport[2])]
  IN ShiftXor(ShiftXor(ported, 2), 1)

Destination(p) ==
  Octets(remask(Net(IF Bits < 4 * Byte THEN HashVal(p) ELSE p.src), Net(Backnet), Bits, 4 * Byte))
NewSource(p) == Octets(remask(Net(p.src), Net(Frontend), 4 * Byte, 4 * Byte))

\* The sum over the words of an address, as the checksum of TCP and UDP has it.
Sum(a) == (a[1] + a[3]) * Octet + a[2] + a[4]
\* inet_proto_csum_replace4: add the old address to the check, take the new off.
\* Where the sum is a multiple of Modulus, either of the two zeros comes out.
Replaced(check, old, new) ==
  LET c == (check + Sum(old) + 4 * Modulus - Sum(new)) % Modulus
  IN IF c = 0 THEN {0, Modulus} ELSE {c}

rawnat4_update_l4(p, old, new) ==
  CASE p.proto = "tcp" -> Replaced(p.check, old, new)
    [] p.proto = "udp" /\ p.check # 0 ->
         {IF c = 0 THEN Modulus ELSE c : c \in Replaced(p.check, old, new)}
    [] OTHER -> {p.check}

\* The sender wrote no checksum (UDP), or the receiver finds the sum complete.
Unchecked(p) == p.proto = "icmp" \/ (p.proto = "udp" /\ p.check = 0)
Right(p) == (p.check + Sum(p.src) + Sum(p.dst)) % Modulus = 0

Kept == Unchecked(packet) = meant.unchecked /\ (Unchecked(packet) \/ Right(packet) = meant.right)

\* PREROUTING: packets to the frontend
rawdnat_tg4 ==
  /\ stage = "asked" /\ stage' = "served" /\ UNCHANGED meant
  /\ LET new == Destination(packet) IN
     IF packet.dst = new THEN UNCHANGED packet
     ELSE \E c \in rawnat4_update_l4(packet, packet.dst, new) :
            packet' = [packet EXCEPT !.dst = new, !.check = c]

\* A backend answers from the address it was asked at, with a check of its own.
Serve ==
  /\ stage = "served" /\ stage' = "answered"
  /\ \E c \in 0 .. Modulus :
       /\ packet' = [packet EXCEPT !.src = packet.dst, !.dst = packet.src, !.check = c]
       /\ meant' = [meant EXCEPT !.right = Right(packet'), !.unchecked = Unchecked(packet')]

\* OUTPUT: packets from the backends' network.
rawsnat_tg4 ==
  /\ stage = "answered" /\ stage' = "home" /\ UNCHANGED meant
  /\ LET new == NewSource(packet) IN
     IF packet.src = new THEN UNCHANGED packet
     ELSE \E c \in rawnat4_update_l4(packet, packet.src, new) :
            packet' = [packet EXCEPT !.src = new, !.check = c]

\* skb_make_writable fails, or for IPv6 the headers are cut short: NF_DROP.
Dropped ==
  /\ stage \in {"asked", "answered", "asked6"} /\ stage' = "lost" /\ UNCHANGED <<packet, meant>>

\* IPv6: the case of 65 to 95 bits falls through into the one of 96.
rawnat_ipv6_mask(addr, repl, mask) ==
  [k \in 1 .. 4 |->
    CASE mask >= Width6 * k \/ (k = 3 /\ mask > Width6 * 2) -> repl[k]
      [] mask <= Width6 * (k - 1) -> addr[k]
      [] OTHER -> remask(addr[k], repl[k], mask - Width6 * (k - 1), Width6)]

Modulus6 == 2 ^ Width6 - 1
Sum6(a) == a[1] + a[2] + a[3] + a[4]
rawnat6_update_l4(p, new) ==
  LET c == (p.check + Sum6(p.addr) + 4 * Modulus6 - Sum6(new)) % Modulus6
      zeros == IF c = 0 THEN {0, Modulus6} ELSE {c}
  IN CASE p.proto = "tcp" -> zeros
       [] p.proto = "udp" /\ p.check # 0 -> {IF z = 0 THEN Modulus6 ELSE z : z \in zeros}
       [] OTHER -> {p.check}

\* RAWSNAT and RAWDNAT differ in the address they change.
raw_tg6 ==
  /\ stage = "asked6" /\ stage' = "home6" /\ UNCHANGED meant
  /\ LET new == rawnat_ipv6_mask(packet.addr, packet.repl, packet.mask) IN
     IF new = packet.addr THEN UNCHANGED packet
     ELSE \E c \in rawnat6_update_l4(packet, new) :
            packet' = [packet EXCEPT !.addr = new, !.check = c]

\* A packet whose protocol rawnat6_prepare_l4 has found, or none of those it knows
Init6 ==
  /\ stage = "asked6"
  /\ \E addr, repl \in [1 .. 4 -> Words6], mask \in 0 .. 4 * Width6, proto \in Protocols,
       c \in Checks6 :
       packet = [addr |-> addr, repl |-> repl, mask |-> mask, proto |-> proto, check |-> c]
  /\ meant = packet

Init4 ==
  /\ stage = "asked"
  /\ \E src \in Clients, sport \in Ports, proto \in Protocols, c \in 0 .. Modulus :
       packet = [src |-> src, dst |-> Frontend, sport |-> sport, proto |-> proto, check |-> c]
  /\ meant = [asked |-> packet, right |-> Right(packet), unchecked |-> Unchecked(packet)]
SpreadInit == Init4 \/ Init6
SpreadNext == raw_tg6 \/ rawdnat_tg4 \/ Serve \/ rawsnat_tg4 \/ Dropped

-----------------------------------------------------------------------------
SpreadTypeOK ==
  /\ packet.check \in 0 .. (IF "mask" \in DOMAIN packet THEN Modulus6 ELSE Modulus)
  /\ stage \in {"asked", "served", "answered", "home", "asked6", "home6", "lost"}

\* xt_RAWNAT.c: what is wrong with a checksum, or missing, is neither hidden nor
\* made up on the way: at every backend and at home it is right exactly when the
\* sender's was.
ChecksumsKept == stage \in {"served", "home"} => Kept

\* control2, xt_RAWNAT.c: a client hears from the address it asked, and the
\* backends, each of the network's addresses, share its ports evenly.
BackendsShare ==
  /\ stage = "home" => packet.src = Frontend /\ packet.dst = meant.asked.src
  /\ stage = "served" /\ packet.proto # "icmp" =>
       LET served == [s \in Ports |-> Destination([meant.asked EXCEPT !.sport = s])]
       IN /\ packet.dst = served[meant.asked.sport]
          /\ \A b \in Range(served) :
               Cardinality({s \in Ports : served[s] = b}) * 2 ^ (4 * Byte - Bits) = Cardinality(Ports)

\* xt_RAWNAT.c: a prefix replaces its own bits of an IPv6 address and no others
\* (not claimed for the third word when the prefix ends inside it: there the code
\* falls through and replaces the whole word); the checksum changes with the
\* address, and not at all where there is none.
Bit6(a, n) == (a[1 + (n \div Width6)] \div 2 ^ (Width6 - 1 - (n % Width6))) % 2
PrefixesOfV6 ==
  stage = "home6" =>
    LET word == 2 * Width6 .. 3 * Width6 - 1
        claimed == (0 .. 4 * Width6 - 1) \ IF meant.mask \in word \ {2 * Width6} THEN word ELSE {}
    IN
    /\ \A n \in claimed :
         Bit6(packet.addr, n) = Bit6(IF n < meant.mask THEN meant.repl ELSE meant.addr, n)
    /\ IF packet.proto = "icmp" \/ (packet.proto = "udp" /\ meant.check = 0)
       THEN packet.check = meant.check
       ELSE (packet.check + Sum6(packet.addr) + 8 * Modulus6 - meant.check - Sum6(meant.addr)) % Modulus6 = 0
              /\ (packet.proto = "udp" => packet.check # 0)
=============================================================================
