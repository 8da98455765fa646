------------------------------- MODULE XtWords -------------------------------
(* The words of an iptables command line, as the option parsers of the          *)
(* extensions see them: the name of an option, whether a "!" stands before it,  *)
(* and its argument, a sequence of numbers (names, addresses and countries are  *)
(* numbers too; a part that is written badly is one outside its range).  A rule *)
(* under construction is what the parsers share: the options seen (flags), the  *)
(* data for the kernel (info), and whether iptables goes on.                    *)
EXTENDS Integers, Sequences, FiniteSets, SequencesExt

CONSTANT Ones  \* ~0U, the largest number

Word(name, arg) == [name |-> name, inv |-> FALSE, arg |-> arg]
Flag(name) == Word(name, <<>>)
If(b, words) == IF b THEN words ELSE <<>>

\* A printed "!" is read before whatever option comes next.
Bang(b, words) == IF b /\ words # <<>> THEN [words EXCEPT ![1].inv = TRUE] ELSE words

Fresh(info) == [ok |-> TRUE, flags |-> {}, info |-> info]
Refuse(r) == [r EXCEPT !.ok = FALSE]
Twice(r, o) == o.name \in r.flags

\* xtables_strtoui and the parsers of addresses
Number(arg, lo, hi) == Len(arg) = 1 /\ lo <= arg[1] /\ arg[1] <= hi

Mark(r, name) == [r EXCEPT !.flags = @ \cup {name}]
Put(r, field, value) == [r EXCEPT !.info[field] = value]
Give(r, o, field, value) == Put(Mark(r, o.name), field, value)
=============================================================================
