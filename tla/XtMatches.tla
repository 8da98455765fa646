------------------------------ MODULE XtMatches ------------------------------
(* What the libraries of the matches (libxt_*.c) read and write: for each the   *)
(* data it starts from, its parser, its final check, and what iptables-save     *)
(* prints of it.  A parser keeps the names of the source.                       *)
EXTENDS XtWords

CONSTANTS
  Rate,     \* PSD_MAX_RATE and FUZZY_MAX_RATE
  MaxPorts, MaxCountries, \* XT_PKNOCK_MAX_PORTS, XT_GEOIP_MAX
  Known     \* countries with a file in the database, names an interface may have

psd_opts == <<"psd-weight-threshold", "psd-delay-threshold",
              "psd-lo-ports-weight", "psd-hi-ports-weight">>
psd_init == [n \in Range(psd_opts) |->
  CASE n = psd_opts[1] -> <<21>> [] n = psd_opts[2] -> <<300>>
    [] n = psd_opts[3] -> <<3>> [] OTHER -> <<1>>]
psd_parse(r, o) ==
  IF Twice(r, o) \/ ~Number(o.arg, 0, Rate) THEN Refuse(r) ELSE Give(r, o, o.name, o.arg)
psd_save(i) == [k \in 1 .. 4 |-> Word(psd_opts[k], i[psd_opts[k]])]

quota2_opts == <<"grow", "no-change", "packets", "name", "quota">>
quota2_init == [set |-> {}, name |-> <<>>, quota |-> <<0>>, invert |-> FALSE]
quota2_parse(r, o) ==
  CASE Twice(r, o) \/ (o.name # "quota" /\ o.inv) -> Refuse(r)
    [] o.name = "name" -> Give(r, o, "name", o.arg)
    [] o.name = "quota" /\ ~Number(o.arg, 0, Ones) -> Refuse(r)
    [] o.name = "quota" -> Put(Give(r, o, "quota", o.arg), "invert", o.inv)
    [] OTHER -> Give(r, o, "set", r.info.set \cup {o.name})
\* The "!" of the quota is printed before everything else.
quota2_save(i) ==
  Bang(i.invert,
       SelectSeq([k \in 1 .. 3 |-> Flag(quota2_opts[k])], LAMBDA w : w.name \in i.set)
         \o If(i.name # <<>>, <<Word("name", i.name)>>) \o <<Word("quota", i.quota)>>)

condition_init == [name |-> <<>>, invert |-> FALSE]
condition_parse(r, o) ==
  IF Twice(r, o) THEN Refuse(r) ELSE Put(Give(r, o, "name", o.arg), "invert", o.inv)
condition_check(r) == r.flags # {}
condition_save(i) == Bang(i.invert, <<Word("condition", i.name)>>)

fuzzy_opts == <<"lower-limit", "upper-limit">>
fuzzy_init == [n \in Range(fuzzy_opts) |-> IF n = "lower-limit" THEN <<1000>> ELSE <<2000>>]
fuzzy_parse(r, o) ==
  IF o.inv \/ Twice(r, o) \/ ~Number(o.arg, 1, Rate) THEN Refuse(r) ELSE Give(r, o, o.name, o.arg)
fuzzy_save(i) == [k \in 1 .. 2 |-> Word(fuzzy_opts[k], i[fuzzy_opts[k]])]

length_layers == {"layer3", "layer4", "layer5", "layer7"}
length_init == [layer |-> "layer3", invert |-> FALSE, min |-> 0, max |-> 0]
length_parse(r, o) ==
  CASE o.name \in length_layers /\ r.flags \cap length_layers # {} -> Refuse(r)
    [] o.name \in length_layers -> Give(r, o, "layer", o.name)
    [] Twice(r, o) \/ Len(o.arg) \notin 1 .. 2 -> Refuse(r)
    [] OTHER -> [Mark(r, o.name) EXCEPT !.info.invert = o.inv, !.info.min = Head(o.arg),
                                        !.info.max = Last(o.arg)]
length_check(r) == "length" \in r.flags
length_save(i) ==
  <<Flag(i.layer)>> \o
  Bang(i.invert, <<Word("length", IF i.min = i.max THEN <<i.min>> ELSE <<i.min, i.max>>)>>)

lscan_opts == <<"stealth", "synscan", "cnscan", "grscan">>
lscan_init == [match |-> {}]
lscan_parse(r, o) == Put(r, "match", r.info.match \cup {o.name})
lscan_save(i) == SelectSeq([k \in 1 .. 4 |-> Flag(lscan_opts[k])], LAMBDA w : w.name \in i.match)

\* Some flags of an interface have a second name, which may mean the opposite.
iface_flags == <<"up", "broadcast", "loopback", "pointopoint", "running", "noarp", "promisc",
                 "multicast", "dynamic", "lower-up", "dormant">>
iface_opts == iface_flags \o <<"iface", "dev-in", "dev-out", "down", "arp", "pointtopoint">>
iface_alias(name) ==
  CASE name = "down" -> "up" [] name = "arp" -> "noarp"
    [] name = "pointtopoint" -> "pointopoint" [] OTHER -> name
iface_init == [ifname |-> <<>>, flags |-> {}, invflags |-> {}]
iface_valid_name(arg) == Len(arg) = 1 /\ arg[1] \in Known
iface_setflag(r, flag, invert) ==
  IF flag \in r.flags THEN Refuse(r)
  ELSE [Mark(r, flag) EXCEPT !.info.flags = @ \cup {flag},
                             !.info.invflags = IF invert THEN @ \cup {flag} ELSE @]
iface_parse(r, o) ==
  CASE o.name \in {"iface", "dev-in", "dev-out"} /\ "iface" \in r.flags -> Refuse(r)
    [] o.name = "iface" -> IF iface_valid_name(o.arg) THEN Give(r, o, "ifname", o.arg) ELSE Refuse(r)
    [] o.name \in {"dev-in", "dev-out"} -> iface_setflag(Mark(r, "iface"), o.name, o.inv)
    [] OTHER -> iface_setflag(r, iface_alias(o.name), o.inv # (o.name \in {"down", "arp"}))
iface_check(r) == "iface" \in r.flags /\ r.flags \ {"iface", "dev-in", "dev-out"} # {}
\* lower-up is printed with a name no option has.
iface_save(i) ==
  <<IF "dev-in" \in i.flags THEN Flag("dev-in") ELSE
    IF "dev-out" \in i.flags THEN Flag("dev-out") ELSE Word("iface", i.ifname)>> \o
  [k \in 1 .. Len(SelectSeq(iface_flags, LAMBDA f : f \in i.flags)) |->
    LET f == SelectSeq(iface_flags, LAMBDA g : g \in i.flags)[k]
    IN [name |-> IF f = "lower-up" THEN "lower_up" ELSE f, inv |-> f \in i.invflags, arg |-> <<>>]]

\* In the order they are printed in.
ipp2p_opts == <<"edk", "dc", "gnu", "kazaa", "bit", "apple", "soul", "winmx", "ares", "mute",
                "waste", "xdcc">>
ipp2p_init == [cmd |-> {}, debug |-> FALSE]
ipp2p_parse(r, o) ==
  CASE o.inv \/ Twice(r, o) \/ (o.name = "debug" /\ r.info.debug) -> Refuse(r)
    [] o.name = "debug" -> Put(r, "debug", TRUE)
    [] OTHER -> Give(r, o, "cmd", r.info.cmd \cup {o.name})
ipp2p_check(r) == r.flags # {}
ipp2p_save(i) ==
  SelectSeq([k \in DOMAIN ipp2p_opts |-> Flag(ipp2p_opts[k])], LAMBDA w : w.name \in i.cmd)
    \o If(i.debug, <<Flag("debug")>>)

\* A number of an IP option, negative for one with a "!": the bit is that of a
\* shift by up to 255 places, of which the processor takes the last five bits.
ipv4options_init == [map |-> {}, invert |-> {}, any |-> FALSE]
v4abs(n) == IF n < 0 THEN -n ELSE n
ipv4options_parse_flagspec(r, arg) ==
  IF arg = <<>> \/ \E k \in DOMAIN arg : v4abs(arg[k]) \notin 1 .. 255 THEN Refuse(r)
  ELSE [r EXCEPT !.info.map = @ \cup {v4abs(arg[k]) % 32 : k \in DOMAIN arg},
                 !.info.invert = @ \cup {v4abs(arg[k]) % 32 : k \in {j \in DOMAIN arg : arg[j] < 0}}]
ipv4options_parse(r, o) ==
  IF o.inv THEN Refuse(r) ELSE
  IF o.name = "any" THEN Put(r, "any", TRUE) ELSE ipv4options_parse_flagspec(r, o.arg)
\* A bit 0 is not printed but leaves a comma, or nothing, where a number is read.
ipv4options_print_flags(i) ==
  LET bits == SetToSortSeq(i.map \ {0}, <)
  IN [k \in DOMAIN bits |-> IF bits[k] \in i.invert THEN -bits[k] ELSE bits[k]]
       \o If(0 \in i.map, <<0>>)
ipv4options_save(i) ==
  If(i.map # {}, <<Word("flags", ipv4options_print_flags(i))>>) \o If(i.any, <<Flag("any")>>)

geoip_init == [side |-> "", invert |-> FALSE, cc |-> <<>>]
geoip_sides == [n \in {"src-cc", "source-country", "dst-cc", "destination-country"} |->
                 IF n \in {"src-cc", "source-country"} THEN "src" ELSE "dst"]
\* parse_geoip_cc, with check_geoip_cc and geoip_load_cc: every country once
parse_geoip_cc(arg) ==
  FoldLeft(LAMBDA cc, c : IF c \in Range(cc) THEN cc ELSE Append(cc, c), <<>>, arg)
geoip_parse(r, o) ==
  IF r.flags # {} \/ Len(o.arg) \notin 1 .. MaxCountries \/ ~(Range(o.arg) \subseteq Known)
  THEN Refuse(r)
  ELSE [Mark(r, o.name) EXCEPT !.info =
         [side |-> geoip_sides[o.name], invert |-> o.inv, cc |-> parse_geoip_cc(o.arg)]]
geoip_final_check(r) == r.flags # {}
geoip_save(i) ==
  Bang(i.invert, <<Word(IF i.side = "src" THEN "source-country" ELSE "destination-country", i.cc)>>)

\* mac_parse: a mask is read and thrown away.
mac_parse(r, o, arg) ==
  IF Len(arg) \notin 1 .. 2 \/ (Len(arg) = 2 /\ arg[2] \notin 0 .. 48) THEN Refuse(r)
  ELSE Put(Give(r, o, "addr", arg[1]), "mask", 48)
dhcpmac_init == [addr |-> 0, mask |-> 0]
dhcpmac_parse(r, o) ==
  IF Twice(r, o) \/ o.inv THEN Refuse(r) ELSE mac_parse(r, o, o.arg)
dhcpmac_check(r) == r.flags # {}
dhcpmac_save(i) == <<Word("mac", <<i.addr, i.mask>>)>>

gradm_init == [invflags |-> FALSE]
gradm_parse(r, o) == IF o.inv # (o.name = "disabled") THEN Put(r, "invflags", TRUE) ELSE r
gradm_save(i) == <<Flag(IF i.invflags THEN "disabled" ELSE "enabled")>>

pknock_opts == <<"knockports", "time", "autoclose", "name", "opensecret", "closesecret",
                 "strict", "checkip">>
pknock_init == [n \in Range(pknock_opts) |-> <<>>] @@ [option |-> {}]
parse_ports(arg) == Len(arg) \in 1 .. MaxPorts
pknock_parse(r, o) ==
  CASE Twice(r, o) \/ o.inv -> Refuse(r)
    [] o.name = "knockports" /\ ~parse_ports(o.arg) -> Refuse(r)
    [] o.name = "time" /\ ~Number(o.arg, 1, Ones) -> Refuse(r)
    [] o.name = "autoclose" /\ ~Number(o.arg, 0, Ones) -> Refuse(r)
    [] OTHER -> Put(Give(r, o, o.name, o.arg), "option", r.info.option \cup {o.name})
pknock_check(r) ==
  LET Has(n) == n \in r.flags IN
  /\ Has("name")
  /\ Has("knockports") => ~Has("checkip") /\ (Has("opensecret") <=> Has("closesecret"))
  /\ Has("checkip") => r.flags \cap {"opensecret", "closesecret", "time", "autoclose"} = {}
  /\ ~Has("checkip") => Has("opensecret") \/ Has("time")
\* The secrets are printed without their argument: the first takes the word
\* that follows, of this match or of the rule, for its own.
pknock_save(i) ==
  LET printed == [k \in 1 .. 8 |->
        Word(pknock_opts[k], IF k \in {5, 6} THEN <<-1>> ELSE i[pknock_opts[k]])]
      before == SelectSeq(SubSeq(printed, 1, 4), LAMBDA w : w.name \in i.option)
      after == SelectSeq(SubSeq(printed, 5, 8), LAMBDA w : w.name \in i.option)
      secret == after # <<>> /\ Head(after).name \in {"opensecret", "closesecret"}
  IN before \o IF secret THEN <<Head(after)>> \o SubSeq(after, 3, Len(after)) ELSE after
=============================================================================
