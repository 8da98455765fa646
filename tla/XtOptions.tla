------------------------------ MODULE XtOptions ------------------------------
(* iptables reads the options of one extension, word by word, and gives the     *)
(* rule to the kernel; iptables-save prints the rules of the kernel, and        *)
(* iptables-restore reads what it printed.                                      *)
EXTENDS XtMatches, XtTargets

CONSTANTS
  Extensions,  \* the extensions looked at
  Values,      \* the arguments that are tried, by kind
  MaxWords     \* bound: options on the command line

VARIABLES
  ext,         \* the extension
  line,        \* how many words were read
  rule         \* the rule they make

optVars == <<ext, line, rule>>

\* The options of an extension (its struct option table) and their arguments
Options(e) ==
  CASE e = "psd" -> [n \in Range(psd_opts) |-> "number"]
    [] e = "quota2" -> [n \in Range(quota2_opts) |->
                          IF n \in {"name", "quota"} THEN "number" ELSE "none"]
    [] e = "condition" -> [n \in {"condition"} |-> "number"]
    [] e = "fuzzy" -> [n \in Range(fuzzy_opts) |-> "number"]
    [] e = "length2" -> [n \in length_layers \cup {"length"} |-> IF n = "length" THEN "list" ELSE "none"]
    [] e = "lscan" -> [n \in Range(lscan_opts) |-> "none"]
    [] e = "iface" -> [n \in Range(iface_opts) |-> IF n = "iface" THEN "number" ELSE "none"]
    [] e = "ipp2p" -> [n \in Range(ipp2p_opts) \cup {"debug"} |-> "none"]
    [] e = "ipv4options" -> [n \in {"flags", "any"} |-> IF n = "flags" THEN "bits" ELSE "none"]
    [] e = "geoip" -> [n \in DOMAIN geoip_sides |-> "list"]
    [] e = "dhcpmac" -> [n \in {"mac"} |-> "list"]
    [] e = "gradm" -> [n \in {"enabled", "disabled"} |-> "none"]
    [] e = "pknock" -> [n \in Range(pknock_opts) |->
                          CASE n \in {"strict", "checkip"} -> "none"
                            [] n = "knockports" -> "list" [] OTHER -> "number"]
    [] e = "TARPIT" -> [n \in TARPIT_opts |-> "none"]
    [] e = "CHAOS" -> [n \in CHAOS_opts |-> "none"]
    [] e = "TEE" -> [n \in {"gateway"} |-> "number"]
    [] e = "LOGMARK" -> [n \in {"log-level", "log-prefix"} |-> "number"]
    [] e = "IPMARK" -> [n \in Range(IPMARK_opts) |-> "number"]
    [] e = "ACCOUNT" -> [n \in {"addr", "tname"} |-> "number"]
    [] e = "DNETMAP" -> [n \in Range(DNETMAP_opts) |->
                           CASE n = "prefix" -> "prefix" [] n = "ttl" -> "number" [] OTHER -> "none"]
    [] e = "RAWDNAT" -> [n \in {"to-destination"} |-> "list"]
    [] e = "RAWSNAT" -> [n \in {"to-source"} |-> "list"]
    [] e = "DHCPMAC" -> [n \in {"set-mac"} |-> "list"]
    [] e = "CHECKSUM" -> [n \in {"checksum-fill"} |-> "none"]

InitialInfo(e) ==
  CASE e = "psd" -> psd_init [] e = "quota2" -> quota2_init [] e = "condition" -> condition_init
    [] e = "fuzzy" -> fuzzy_init [] e = "length2" -> length_init [] e = "lscan" -> lscan_init
    [] e = "iface" -> iface_init [] e = "ipp2p" -> ipp2p_init
    [] e = "ipv4options" -> ipv4options_init [] e = "geoip" -> geoip_init
    [] e = "dhcpmac" -> dhcpmac_init [] e = "gradm" -> gradm_init [] e = "pknock" -> pknock_init
    [] e = "TARPIT" -> TARPIT_init [] e = "CHAOS" -> CHAOS_init [] e = "TEE" -> TEE_init
    [] e = "LOGMARK" -> LOGMARK_init [] e = "IPMARK" -> IPMARK_init [] e = "ACCOUNT" -> ACCOUNT_init
    [] e = "DNETMAP" -> DNETMAP_init [] e \in {"RAWDNAT", "RAWSNAT"} -> RAWNAT_init
    [] e = "DHCPMAC" -> DHCPMAC_init [] e = "CHECKSUM" -> CHECKSUM_init

Parse(e, r, o) ==
  IF o.name \notin DOMAIN Options(e) THEN Refuse(r) ELSE
  CASE e = "psd" -> psd_parse(r, o) [] e = "quota2" -> quota2_parse(r, o)
    [] e = "condition" -> condition_parse(r, o) [] e = "fuzzy" -> fuzzy_parse(r, o)
    [] e = "length2" -> length_parse(r, o) [] e = "lscan" -> lscan_parse(r, o)
    [] e = "iface" -> iface_parse(r, o) [] e = "ipp2p" -> ipp2p_parse(r, o)
    [] e = "ipv4options" -> ipv4options_parse(r, o) [] e = "geoip" -> geoip_parse(r, o)
    [] e = "dhcpmac" -> dhcpmac_parse(r, o) [] e = "gradm" -> gradm_parse(r, o)
    [] e = "pknock" -> pknock_parse(r, o)
    [] e = "TARPIT" -> TARPIT_parse(r, o) [] e = "CHAOS" -> CHAOS_parse(r, o)
    [] e = "TEE" -> TEE_parse(r, o) [] e = "LOGMARK" -> LOGMARK_parse(r, o)
    [] e = "IPMARK" -> IPMARK_parse(r, o) [] e = "ACCOUNT" -> ACCOUNT_parse(r, o)
    [] e = "DNETMAP" -> DNETMAP_parse(r, o) [] e \in {"RAWDNAT", "RAWSNAT"} -> RAWNAT_parse(r, o)
    [] e = "DHCPMAC" -> DHCPMAC_parse(r, o) [] e = "CHECKSUM" -> CHECKSUM_parse(r, o)

\* The final check; psd, quota2, fuzzy, lscan, ipv4options, gradm, LOGMARK and
\* DNETMAP have none.
Checked(e, r) ==
  CASE e = "condition" -> condition_check(r) [] e = "length2" -> length_check(r)
    [] e = "iface" -> iface_check(r) [] e = "ipp2p" -> ipp2p_check(r)
    [] e = "geoip" -> geoip_final_check(r) [] e = "dhcpmac" -> dhcpmac_check(r)
    [] e = "pknock" -> pknock_check(r)
    [] e = "TARPIT" -> TARPIT_check(r) [] e = "CHAOS" -> CHAOS_check(r) [] e = "TEE" -> TEE_check(r)
    [] e = "IPMARK" -> IPMARK_check(r) [] e = "ACCOUNT" -> ACCOUNT_check(r)
    [] e \in {"RAWDNAT", "RAWSNAT"} -> RAWNAT_check(r) [] e = "DHCPMAC" -> DHCPMAC_check(r)
    [] e = "CHECKSUM" -> CHECKSUM_check(r)
    [] OTHER -> TRUE

Save(e, i) ==
  CASE e = "psd" -> psd_save(i) [] e = "quota2" -> quota2_save(i) [] e = "condition" -> condition_save(i)
    [] e = "fuzzy" -> fuzzy_save(i) [] e = "length2" -> length_save(i) [] e = "lscan" -> lscan_save(i)
    [] e = "iface" -> iface_save(i) [] e = "ipp2p" -> ipp2p_save(i)
    [] e = "ipv4options" -> ipv4options_save(i) [] e = "geoip" -> geoip_save(i)
    [] e = "dhcpmac" -> dhcpmac_save(i) [] e = "gradm" -> gradm_save(i) [] e = "pknock" -> pknock_save(i)
    [] e = "TARPIT" -> TARPIT_save(i) [] e = "CHAOS" -> CHAOS_save(i) [] e = "TEE" -> TEE_save(i)
    [] e = "LOGMARK" -> LOGMARK_save(i) [] e = "IPMARK" -> IPMARK_save(i)
    [] e = "ACCOUNT" -> ACCOUNT_print_it(i) [] e = "DNETMAP" -> DNETMAP_save(i)
    [] e = "RAWDNAT" -> RAWDNAT_save(i) [] e = "RAWSNAT" -> RAWSNAT_save(i)
    [] e = "DHCPMAC" -> DHCPMAC_save(i) [] e = "CHECKSUM" -> CHECKSUM_save(i)

\* iptables reads a word; an error ends it.
Read(o) ==
  /\ rule.ok /\ line < MaxWords
  /\ rule' = Parse(ext, rule, o) /\ line' = line + 1 /\ UNCHANGED ext

OptInit == ext \in Extensions /\ line = 0 /\ rule = Fresh(InitialInfo(ext))
OptNext ==
  \E n \in DOMAIN Options(ext), inv \in BOOLEAN :
    \E arg \in Values[Options(ext)[n]] : Read([name |-> n, inv |-> inv, arg |-> arg])

-----------------------------------------------------------------------------
Accepted == rule.ok /\ Checked(ext, rule)
Restored ==
  FoldLeft(LAMBDA r, o : IF r.ok THEN Parse(ext, r, o) ELSE r,
           Fresh(InitialInfo(ext)), Save(ext, rule.info))

\* What is known to be printed wrongly, and is not claimed: a negated quota with any other option, an
\* interface that is lower-up or a negated direction, the secrets of pknock, and
\* the IP options 32, 64, ... whose bit is the one of no option.
PrintedWrongly ==
  CASE ext = "quota2" -> rule.info.invert /\ rule.flags # {"quota"}
    [] ext = "iface" -> "lower-up" \in rule.info.flags
                          \/ rule.info.invflags \cap {"dev-in", "dev-out"} # {}
    [] ext = "pknock" -> rule.flags \cap {"opensecret", "closesecret"} # {}
    [] ext = "ipv4options" -> 0 \in rule.info.map
    [] OTHER -> FALSE

OptTypeOK == line \in 0 .. MaxWords /\ rule.flags \subseteq DOMAIN Options(ext) \cup {"iface"}

\* libxt_*.c: iptables-restore accepts what iptables-save printed of a rule that
\* iptables accepted, and makes the same rule of it, with the exceptions above.
OptionsReadBack ==
  Accepted /\ ~PrintedWrongly =>
    Restored.ok /\ Checked(ext, Restored) /\ Restored.info = rule.info
=============================================================================
