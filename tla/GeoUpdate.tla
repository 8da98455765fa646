----------------------------- MODULE GeoUpdate ------------------------------
(***************************************************************************)
(* The country database and the users' geo maps: gupdate, gedit and          *)
(* veridns/db.pm.  An archive is mirrored (dump), unzipped and stored (store) *)
(* for others to load; a user's ipmaps.xml is edited in a copy and compiled   *)
(* with the store into loc.data.                                             *)
(*                                                                         *)
(* gupdate does not import veridns::cfg, so that $cf_userdir is empty in it  *)
(* and both of its ways to find a map to compile end in die.                *)
(***************************************************************************)
EXTENDS Naturals, FiniteSets

CONSTANTS
    Updater,        \* the one gupdate that runs at a time
    Editor,         \* processes of gedit
    Owner,          \* DNS_ADMIN of a gedit
    Xml,            \* what ipmaps.xml may hold: [id, sum, form]
    Blank,          \* the one of them that gedit creates
    Corrupt,        \* versions of the archive that do not unzip
    Nothing, Torn,  \* no such file; one not written to its end
    MaxVersion,     \* bound: versions of the archive
    MaxCommands,    \* bound: commands
    MaxKills        \* bound: commands that are killed

(* There is one gupdate, a process of its own; its name in told is not a     *)
(* user's.  What stands for a missing or a torn file is no content of one.   *)
GeoConstants ==
    /\ \E p \in Updater : Updater = {p}
    /\ Updater \cap Editor = {} /\ "db" \notin Owner
    /\ Blank \in Xml
    /\ Torn \notin Nat /\ Nothing \notin Xml
    /\ {Torn, Nothing} \cap [xml : Xml, ver : Nat] = {}
    /\ MaxVersion \in Nat /\ MaxCommands \in Nat /\ MaxKills \in Nat

VARIABLES
    remote, dump,   \* the version of the archive there and here (0: none)
    store,          \* the stored database: its version, 0 without one, or Torn
    xml, copy,      \* a user's ipmaps.xml and the copy that is edited
    loc,            \* a user's loc.data: [xml, ver], Torn or Nothing
    at,             \* a process: the statement it is at
    opt,            \* gupdate's options; a gedit's user
    orig,           \* what a gedit began with
    told,           \* history: users whose last gedit failed, "db": gupdate's
    shared,         \* history: users with two gedits at a time
    commands, kills

geoVars == <<remote, dump, store, xml, copy, loc, at, opt, orig, told, shared, commands, kills>>
files == <<xml, copy, loc>>
Process == Updater \cup Editor
Busy == {p \in Process : at[p] # "idle"}
To(p, where) == at' = [at EXCEPT ![p] = where]

Subject(p) == IF p \in Updater THEN "db" ELSE opt[p]

\* The process ends without having done its work.
Dies(p) == To(p, "idle") /\ told' = told \cup {Subject(p)}

-----------------------------------------------------------------------------
Publish == remote < MaxVersion /\ remote' = remote + 1
           /\ UNCHANGED <<dump, store, files, at, opt, orig, told, shared, commands, kills>>

(* gupdate check=1 [force_download=1] [force_rebuild=1] [configs=...]       *)
Options == SUBSET {"check", "force_download", "force_rebuild", "configs"}

Gupdate(p, o) ==
    /\ at[p] = "idle" /\ commands < MaxCommands
    /\ commands' = commands + 1
    /\ opt' = [opt EXCEPT ![p] = o]
    /\ To(p, IF "check" \notin o THEN "handle"
             ELSE IF "force_download" \in o THEN "unlink" ELSE "mirror")
    /\ UNCHANGED <<remote, dump, store, files, orig, told, shared, kills>>

\* ipdb_get_handle, or ipdb_rebuild_master when there is none; a torn one dies.
Handle(p) ==
    /\ at[p] = "handle"
    /\ CASE store = Torn -> Dies(p)
         [] store = 0 -> To(p, "unzip") /\ UNCHANGED told
         [] OTHER -> To(p, "configs") /\ UNCHANGED told
    /\ UNCHANGED <<remote, dump, store, files, opt, orig, shared, commands, kills>>

UnlinkDump(p) ==
    /\ at[p] = "unlink"
    /\ dump' = 0
    /\ To(p, "mirror")
    /\ UNCHANGED <<remote, store, files, opt, orig, told, shared, commands, kills>>

MirrorFails(p) ==
    /\ at[p] = "mirror"
    /\ Dies(p)
    /\ UNCHANGED <<remote, dump, store, files, opt, orig, shared, commands, kills>>

\* RC_OK: rebuild.  RC_NOT_MODIFIED: load, which dies of a torn file.
Mirror(p) ==
    /\ at[p] = "mirror"
    /\ dump' = remote
    /\ IF dump # remote \/ (store # Torn /\ "force_rebuild" \in opt[p])
       THEN To(p, "unzip") /\ UNCHANGED told
       ELSE IF store = Torn THEN Dies(p) ELSE To(p, "configs") /\ UNCHANGED told
    /\ UNCHANGED <<remote, store, files, opt, orig, shared, commands, kills>>

\* Slip: what unzip says is not looked at.
Unzip_Careless(p) ==
    /\ at[p] = "unzip"
    /\ To(p, IF dump \in Corrupt \cup {0} THEN "configs" ELSE "save")
    /\ UNCHANGED <<remote, dump, store, files, opt, orig, told, shared, commands, kills>>

\* unzip or die
Unzip(p) ==
    /\ at[p] = "unzip"
    /\ IF dump \in Corrupt \cup {0} THEN Dies(p) ELSE To(p, "save") /\ UNCHANGED told
    /\ UNCHANGED <<remote, dump, store, files, opt, orig, shared, commands, kills>>

\* save: unlink, then store
Save(p) ==
    /\ at[p] = "save"
    /\ store' = 0
    /\ To(p, "store")
    /\ UNCHANGED <<remote, dump, files, opt, orig, told, shared, commands, kills>>

StoreBegin(p) ==
    /\ at[p] = "store"
    /\ store' = Torn
    /\ To(p, "stored")
    /\ UNCHANGED <<remote, dump, files, opt, orig, told, shared, commands, kills>>

StoreEnd(p) ==
    /\ at[p] = "stored"
    /\ store' = dump
    /\ told' = told \ {"db"}
    /\ To(p, "configs")
    /\ UNCHANGED <<remote, dump, files, opt, orig, shared, commands, kills>>

\* exit(0) without configs; opendir "" or XMLin "/admin/ipmaps.xml" dies.
Configs(p) ==
    /\ at[p] = "configs"
    /\ To(p, "idle")
    /\ UNCHANGED <<remote, dump, store, files, opt, orig, told, shared, commands, kills>>

-----------------------------------------------------------------------------
(* gedit                                                                   *)

Gedit(p, u) ==
    /\ at[p] = "idle" /\ commands < MaxCommands
    /\ commands' = commands + 1
    /\ opt' = [opt EXCEPT ![p] = u]
    /\ xml' = IF xml[u] = Nothing THEN [xml EXCEPT ![u] = Blank] ELSE xml
    /\ told' = told \ {u}
    /\ shared' = IF \E q \in Busy \cap Editor : opt[q] = u THEN shared \cup {u} ELSE shared
    /\ To(p, "copy")
    /\ UNCHANGED <<remote, dump, store, copy, loc, orig, kills>>

Copy(p) ==
    /\ at[p] = "copy"
    /\ IF xml[opt[p]] = Nothing
       THEN Dies(p) /\ UNCHANGED <<copy, orig>>
       ELSE /\ copy' = [copy EXCEPT ![opt[p]] = xml[opt[p]]]
            /\ orig' = [orig EXCEPT ![p] = xml[opt[p]]]
            /\ To(p, "edit")
            /\ UNCHANGED told
    /\ UNCHANGED <<remote, dump, store, xml, loc, opt, shared, commands, kills>>

\* The editor saves another file, or leaves it.
Edit(p) ==
    /\ at[p] = "edit"
    /\ \E x \in Xml \cup {copy[opt[p]]} : copy' = [copy EXCEPT ![opt[p]] = x]
    /\ To(p, "compare")
    /\ UNCHANGED <<remote, dump, store, xml, loc, opt, orig, told, shared, commands, kills>>

EditorFails(p) ==
    /\ at[p] = "edit"
    /\ copy' = [copy EXCEPT ![opt[p]] = Nothing]
    /\ Dies(p)
    /\ UNCHANGED <<remote, dump, store, xml, loc, opt, orig, shared, commands, kills>>

\* The sums are hexadecimal digits that != takes for numbers: what Perl reads
\* of them (sum) differs or is the same; the same removes both files.
Compare(p) ==
    LET u == opt[p]
        same == copy[u] # Nothing /\ copy[u].sum = orig[p].sum
    IN
    /\ at[p] = "compare"
    /\ copy' = [copy EXCEPT ![u] = Nothing]
    /\ IF copy[u] = Nothing
       THEN Dies(p) /\ UNCHANGED xml
       ELSE /\ xml' = [xml EXCEPT ![u] = IF same THEN Nothing ELSE copy[u]]
            /\ To(p, IF same THEN "idle" ELSE "compile")
            /\ UNCHANGED told
    /\ UNCHANGED <<remote, dump, store, loc, opt, orig, shared, commands, kills>>

\* load, XMLin, "nodb", and then the file is opened (and emptied)
Compile(p) ==
    LET u == opt[p] IN
    /\ at[p] = "compile"
    /\ IF store \in {0, Torn} \/ xml[u] = Nothing \/ (xml[u] # Nothing /\ xml[u].form = "bad")
       THEN Dies(p) /\ UNCHANGED <<loc, orig>>
       ELSE /\ loc' = [loc EXCEPT ![u] = Torn]
            /\ orig' = [orig EXCEPT ![p] = [xml |-> xml[u], ver |-> store]]
            /\ To(p, "print")
            /\ UNCHANGED told
    /\ UNCHANGED <<remote, dump, store, xml, copy, opt, shared, commands, kills>>

\* A second, anonymous map dies half way, and so does one with exactly one
\* <except> (OneException of IpDb), which is the same to this module.
PrintMaps(p) ==
    /\ at[p] = "print"
    /\ IF orig[p].xml.form = "anonymous"
       THEN Dies(p) /\ UNCHANGED loc
       ELSE loc' = [loc EXCEPT ![opt[p]] = orig[p]] /\ To(p, "idle") /\ UNCHANGED told
    /\ UNCHANGED <<remote, dump, store, xml, copy, opt, orig, shared, commands, kills>>

Kill(p) ==
    /\ p \in Busy /\ kills < MaxKills
    /\ kills' = kills + 1
    /\ Dies(p)
    /\ UNCHANGED <<remote, dump, store, files, opt, orig, shared, commands>>

-----------------------------------------------------------------------------
Init ==
    /\ remote = 1 /\ dump = 0 /\ store = 0
    /\ xml = [u \in Owner |-> Nothing]
    /\ copy = xml /\ loc = xml
    /\ at = [p \in Process |-> "idle"]
    /\ opt = [p \in Process |-> IF p \in Updater THEN {} ELSE CHOOSE u \in Owner : TRUE]
    /\ orig = [p \in Process |-> Nothing]
    /\ told = {} /\ shared = {} /\ commands = 0 /\ kills = 0

Next ==
    \/ Publish
    \/ \E p \in Updater :
        \/ \E o \in Options : Gupdate(p, o)
        \/ Handle(p) \/ UnlinkDump(p) \/ Mirror(p) \/ MirrorFails(p) \/ Unzip(p)
        \/ Save(p) \/ StoreBegin(p) \/ StoreEnd(p) \/ Configs(p)
    \/ \E p \in Editor :
        \/ \E u \in Owner : Gedit(p, u)
        \/ Copy(p) \/ Edit(p) \/ EditorFails(p) \/ Compare(p) \/ Compile(p) \/ PrintMaps(p)
    \/ \E p \in Process : Kill(p)

Spec == Init /\ [][Next]_geoVars

-----------------------------------------------------------------------------
TypeOK ==
    /\ dump \in 0 .. remote /\ store \in {Torn} \cup 0 .. remote
    /\ \A u \in Owner : {xml[u], copy[u]} \subseteq Xml \cup {Nothing}
    /\ \A p \in Busy \cap Editor : opt[p] \in Owner

\* Between two gupdates the database that maps are compiled with is the one of
\* the archive on the disk, unless a gupdate said that it failed (no later one
\* that found nothing new has said otherwise).
StoreFollowsDump ==
    (Busy \cap Updater = {} /\ "db" \notin told /\ dump # 0) => store = dump

\* Between gedits, one at a time, loc.data is what ipmaps.xml says, whole, with
\* a version of the database that was on the disk; or the last gedit has failed.
LocFollowsXml ==
    \A u \in Owner \ (told \cup shared) :
        (xml[u] # Nothing /\ \A p \in Busy \cap Editor : opt[p] # u) =>
            /\ loc[u] \notin {Torn, Nothing}
            /\ loc[u].xml = xml[u]
            /\ loc[u].ver \in (1 .. remote) \ Corrupt

-----------------------------------------------------------------------------
(* The inductive invariant of the two.                                     *)

\* Where a gupdate is, or has not come to rebuild the database
Unrebuilt == {"idle", "handle", "unlink", "mirror", "configs"}

InStep == "db" \notin told /\ dump # 0 => store = dump

\* A command starts in step and ends in step, or is one more that failed; what
\* is unzipped is an archive, and what is stored was one.
StoreInv ==
    /\ \A p \in Updater :
        /\ at[p] \in Unrebuilt => InStep
        /\ at[p] \in {"save", "store", "stored"} => dump \notin Corrupt \cup {0}
    /\ store \in Nat \ {0} => store \notin Corrupt

\* The maps of x compiled with version v
Compiled(l, x) == \E v \in (1 .. remote) \ Corrupt : l = [xml |-> x, ver |-> v]

\* Two gedits of a user know no more than that there are two; one that is alone
\* prints what is in place.
EditInv ==
    /\ \A p, q \in Busy \cap Editor : p # q /\ opt[p] = opt[q] => opt[p] \in shared
    /\ \A p \in Busy \cap Editor :
        at[p] = "print" =>
            /\ \E x \in Xml : Compiled(orig[p], x)
            /\ opt[p] \notin shared => orig[p].xml = xml[opt[p]]
    /\ \A u \in Owner \ (told \cup shared) :
        (xml[u] # Nothing /\ \A p \in Busy \cap Editor : opt[p] # u) => Compiled(loc[u], xml[u])

Statements == Unrebuilt \cup {"unzip", "save", "store", "stored",
                              "copy", "edit", "compare", "compile", "print"}

GeoFields ==
    /\ remote \in Nat /\ dump \in 0 .. remote /\ store \in {Torn} \cup 0 .. remote
    /\ xml \in [Owner -> Xml \cup {Nothing}] /\ copy \in [Owner -> Xml \cup {Nothing}]
    /\ DOMAIN loc = Owner
    /\ at \in [Process -> Statements] /\ DOMAIN opt = Process /\ DOMAIN orig = Process
    /\ \A p \in Busy \cap Editor : opt[p] \in Owner

GeoInv == GeoFields /\ StoreInv /\ EditInv

\* gedit:57 "ipmaps not modified, skipping configuration update": an edit never
\* takes a user's maps away.
EditKeepsMaps ==
    [][\A u \in Owner : xml[u] # Nothing => xml'[u] # Nothing]_geoVars
=============================================================================
