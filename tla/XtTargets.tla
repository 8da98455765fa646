------------------------------ MODULE XtTargets ------------------------------
(* What the libraries of the targets (libxt_*.c) read and write, like XtMatches *)
(* for the matches.                                                             *)
EXTENDS XtWords

TARPIT_opts == {"tarpit", "honeypot", "reset"}
TARPIT_init == [variant |-> "tarpit"]
TARPIT_parse(r, o) == Give(r, o, "variant", o.name)
TARPIT_check(r) == r.flags # TARPIT_opts
TARPIT_save(i) == <<Flag(i.variant)>>

CHAOS_opts == {"delude", "tarpit"}
CHAOS_init == [variant |-> "normal"]
CHAOS_parse(r, o) == Give(r, o, "variant", o.name)
CHAOS_check(r) == r.flags # CHAOS_opts
CHAOS_save(i) == If(i.variant # "normal", <<Flag(i.variant)>>)

TEE_init == [gw |-> <<0>>]
TEE_parse(r, o) ==
  IF Twice(r, o) \/ ~Number(o.arg, 0, Ones) THEN Refuse(r) ELSE Give(r, o, "gw", o.arg)
TEE_check(r) == r.flags # {}
TEE_save(i) == <<Word("gateway", i.gw)>>

LOGMARK_init == [level |-> <<4>>, prefix |-> <<>>]
LOGMARK_parse(r, o) ==
  CASE Twice(r, o) \/ o.inv -> Refuse(r)
    [] o.name = "log-prefix" -> Give(r, o, "prefix", o.arg)
    [] Number(o.arg, 0, 8) -> Give(r, o, "level", o.arg)
    [] OTHER -> Refuse(r)
LOGMARK_save(i) ==
  If(i.level # <<4>>, <<Word("log-level", i.level)>>)
    \o If(i.prefix # <<>>, <<Word("log-prefix", i.prefix)>>)

\* --addr is 0 for src and 1 for dst.
IPMARK_opts == <<"addr", "shift", "and-mask", "or-mask">>
IPMARK_top == [n \in Range(IPMARK_opts) |->
                 CASE n = "addr" -> 1 [] n = "shift" -> 128 [] OTHER -> Ones]
IPMARK_init == [n \in Range(IPMARK_opts) |-> IF n = "and-mask" THEN <<Ones>> ELSE <<0>>]
IPMARK_parse(r, o) ==
  IF Twice(r, o) \/ o.inv \/ ~Number(o.arg, 0, IPMARK_top[o.name]) THEN Refuse(r)
  ELSE Give(r, o, o.name, o.arg)
IPMARK_check(r) == "addr" \in r.flags
IPMARK_save(i) ==
  SelectSeq([k \in 1 .. 4 |-> Word(IPMARK_opts[k], i[IPMARK_opts[k]])],
            LAMBDA w : w.name = "addr" \/ w.arg # IPMARK_init[w.name])

ACCOUNT_init == [net |-> <<>>, tname |-> <<>>]
ACCOUNT_parse(r, o) ==
  CASE Twice(r, o) -> Refuse(r)
    [] o.name = "tname" -> Give(r, o, "tname", o.arg)
    [] Number(o.arg, 0, Ones) -> Give(r, o, "net", o.arg)
    [] OTHER -> Refuse(r)
ACCOUNT_check(r) == r.flags = {"addr", "tname"}
ACCOUNT_print_it(i) == <<Word("addr", i.net), Word("tname", i.tname)>>

\* The prefix is an address and the number of bits.  One with a mask in dots has
\* a third number: what the variable bits, which is compared all the same and
\* which nothing has set, happens to hold.
DNETMAP_opts == <<"prefix", "reuse", "static", "persistent", "ttl">>
DNETMAP_init == [flags |-> {}, prefix |-> <<>>, ttl |-> <<0>>]
parse_prefix(arg) ==
  /\ Len(arg) \in 1 .. 3
  /\ Len(arg) > 1 => arg[2] \in 1 .. 32 /\ Last(arg) >= 16
MinMax(arg) == IF Len(arg) = 1 THEN <<arg[1], 32>> ELSE SubSeq(arg, 1, 2)
DNETMAP_parse(r, o) ==
  LET given == Give(r, o, "flags", r.info.flags \cup {o.name}) IN
  CASE Twice(r, o) \/ o.inv -> Refuse(r)
    [] o.name = "prefix" -> IF parse_prefix(o.arg) THEN Put(given, "prefix", MinMax(o.arg)) ELSE Refuse(r)
    [] o.name = "ttl" -> IF Len(o.arg) = 1 THEN Put(given, "ttl", o.arg) ELSE Refuse(r)
    [] OTHER -> given
DNETMAP_save(i) ==
  SelectSeq([k \in 1 .. 5 |-> Word(DNETMAP_opts[k],
               CASE k = 1 -> i.prefix [] k = 5 -> i.ttl [] OTHER -> <<>>)],
            LAMBDA w : w.name \in i.flags)

\* RAWDNAT and RAWSNAT differ in the name of the option.
RAWNAT_init == [addr |-> 0, mask |-> 0]
RAWNAT_parse(r, o) ==
  IF Len(o.arg) \notin 1 .. 2 \/ (Len(o.arg) = 2 /\ o.arg[2] \notin 0 .. 32) THEN Refuse(r)
  ELSE [Mark(r, o.name) EXCEPT !.info = [addr |-> o.arg[1], mask |-> IF Len(o.arg) = 1 THEN 32 ELSE o.arg[2]]]
RAWNAT_check(r) == r.flags # {}
RAWDNAT_save(i) == <<Word("to-destination", <<i.addr, i.mask>>)>>
RAWSNAT_save(i) == <<Word("to-source", <<i.addr, i.mask>>)>>

DHCPMAC_init == [addr |-> 0, mask |-> 0]
DHCPMAC_parse(r, o) ==
  IF Twice(r, o) \/ o.inv \/ Len(o.arg) \notin 1 .. 2 \/ (Len(o.arg) = 2 /\ o.arg[2] \notin 0 .. 48)
  THEN Refuse(r) ELSE Put(Give(r, o, "addr", o.arg[1]), "mask", 48)
DHCPMAC_check(r) == r.flags # {}
DHCPMAC_save(i) == <<Word("set-mac", <<i.addr, i.mask>>)>>

CHECKSUM_init == [fill |-> FALSE]
CHECKSUM_parse(r, o) == IF Twice(r, o) THEN Refuse(r) ELSE Give(r, o, "fill", TRUE)
CHECKSUM_check(r) == r.flags # {}
CHECKSUM_save(i) == If(i.fill, <<Flag("checksum-fill")>>)
=============================================================================
