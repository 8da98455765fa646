------------------------------- MODULE MCAdmin -------------------------------
(***************************************************************************)
(* The three jobs on the administrator's machine, each in runs of its own:  *)
(* zexport against one server (Publish), the zone commands (ZoneStore), the *)
(* geo maps (GeoUpdate).                                                     *)
(***************************************************************************)
EXTENDS Publish, Sequences, TLC

CONSTANTS
    e1, e2, e3, s1, s2, u1, g1, g2,
    Session, Origin, User, Files, Refused, None, Given, Undef, MaxRuns, MaxDeaths,
    Updater, Editor, Owner, Xml, Blank, Corrupt, Nothing, Torn, MaxVersion, MaxCommands, MaxKills

VARIABLES
    part,           \* which of the jobs, fixed
    zones, records, tmp, pc, task, file, zid, serial, left, changed, meant, kept, spoilt,
    mixed, runs, deaths,
    remote, dump, store, xml, copy, loc, at, opt, orig, told, shared, commands, kills

zoneVars == <<zones, records, tmp, pc, task, file, zid, serial, left, changed, meant,
              kept, spoilt, mixed, runs, deaths>>
geoVars == <<remote, dump, store, xml, copy, loc, at, opt, orig, told, shared, commands,
             kills>>

Zone == INSTANCE ZoneStore
Geo == INSTANCE GeoUpdate

ASSUME ZoneConstants == Zone!ZoneConstants
ASSUME GeoConstants == Geo!GeoConstants

PublishOnly == part = "publish" /\ Next /\ UNCHANGED <<part, zoneVars, geoVars>>
ZonesOnly == part = "zones" /\ Zone!Next /\ UNCHANGED <<part, vars, geoVars>>
GeoOnly == part = "geo" /\ Geo!Next /\ UNCHANGED <<part, vars, zoneVars>>

AdminInit ==
    /\ part \in {"publish", "zones", "geo"}
    /\ Init /\ (part # "publish" => alone)
    /\ Zone!Init /\ Geo!Init

AdminSpec ==
    AdminInit /\ [][PublishOnly \/ ZonesOnly \/ GeoOnly]_<<part, vars, zoneVars, geoVars>>

Symmetry == Permutations(Export)

-----------------------------------------------------------------------------
L(kind, fields) == [kind |-> kind, fields |-> fields]
A == L("+", <<"w.z", "ip", "300">>)
GeoNs == L("&", <<"z", "", "ns", "60", "", "here", "map", "someone">>)
TheFiles == {
    <<L("@", <<"z", "", "mx", "10", "300", "", "", "">>), L("=", <<"z", "ip">>), GeoNs>>,
    <<A, L("C", <<"v.z", "bad", "", "ttd", "">>)>>}
TheZones == "z" :> [uid |-> "admin",
    lines |-> <<L("Z", <<"z", "ns", "root", "", "", "", "", "", "900">>), A>>]

X(id, sum, form) == [id |-> id, sum |-> sum, form |-> form]
Empty0 == X(0, 0, "good")
TheXml == {Empty0, X(1, 0, "good"), X(2, 7, "good"), X(3, 9, "bad"), X(4, 8, "anonymous")}

-----------------------------------------------------------------------------
\* The types of the three parts.
AdminTypeOK == TypeOK /\ Zone!TypeOK /\ Geo!TypeOK

\* zone.pm, zedit, znew, zimport, zdelete: one after another on a zone, they
\* leave it as the last that ended well meant it, unless one told of a failure.
LeavesWhatItMeant == Zone!LeavesWhatItMeant

\* z_delete, add_rrs: no command changes the rows of another user's zone, when
\* no second one works on the zone.
OwnZonesOnly == Zone!OwnZonesOnly

\* z_dump_rrs, z_export2, z_import and vdnsdb read of a line what the others
\* write in it: an edit starts from what is stored, a server gets what is stored.
ZoneFilesAgree == Zone!DumpReadsBack /\ Zone!ServerReadsTheSame

\* db.pm, gedit: the stored database is that of the archive, and a user's
\* loc.data that of ipmaps.xml, or the last command on it has failed.
DerivedInStep == Geo!StoreFollowsDump /\ Geo!LocFollowsXml

\* gedit:57 "ipmaps not modified, skipping configuration update": an edit never
\* takes a user's maps away.
EditKeepsMaps == Geo!EditKeepsMaps
=============================================================================
