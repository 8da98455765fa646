----------------------------- MODULE AdminProofs -----------------------------
(***************************************************************************)
(* Proofs about the three jobs on the administrator's machine, for any       *)
(* number of exports, troubles, commands, users, zones, files, versions and   *)
(* kills.  Exports none of which is begun beside a vdnsdb at work keep a whole *)
(* database in front of vdnsd and never write into one that is mapped, and     *)
(* exports which tear a database are told (Publish); what gupdate and gedit    *)
(* derive stays in step (GeoUpdate); what the zone commands leave is what they *)
(* meant (ZoneStore); and each of the jobs leaves what belongs to the other    *)
(* two alone.                                                                  *)
(***************************************************************************)
EXTENDS MCAdmin, FiniteSetTheorems, TLAPS

-----------------------------------------------------------------------------
(* Publication of a database                                                *)

\* There is an inode for the first database and one for each export.
LEMMA Sizes ==
    /\ Cardinality(Export) \in Nat
    /\ Inode = 1 .. Cardinality(Export) + 1
    /\ 1 \in Inode
<1>1. Cardinality(Export) \in Nat
  BY FS_CardinalityType, PublishConstants
<1> QED
  BY <1>1 DEF Inode

\* How the names are updated
LEMMA NameUpdates ==
    ASSUME NEW S, NEW n \in [tmp : S, ready : S, live : S], NEW i \in S, NEW j \in S
    PROVE  /\ [n EXCEPT !.tmp = i] \in [tmp : S, ready : S, live : S]
           /\ [n EXCEPT !.ready = j, !.tmp = i] \in [tmp : S, ready : S, live : S]
           /\ [n EXCEPT !.live = j, !.ready = i] \in [tmp : S, ready : S, live : S]
OBVIOUS

\* A vdnsdb that opens data.tmp finds an inode left to make.
LEMMA RoomForOne ==
    ASSUME IInv, NEW e \in Export, builder[e] = "open"
    PROVE  inodes + 1 \in Inode
<1>1. IsFiniteSet(Opened)
  BY FS_Subset, PublishConstants DEF Opened
<1>2. e \notin Opened /\ Opened \cup {e} \in SUBSET Export
  BY DEF Opened
<1>3. Cardinality(Opened \cup {e}) = Cardinality(Opened) + 1
  BY <1>1, <1>2, FS_AddElement
<1>4. Cardinality(Opened \cup {e}) <= Cardinality(Export)
  BY <1>2, FS_Subset, PublishConstants
<1>5. Cardinality(Opened) \in Nat
  BY <1>1, FS_CardinalityType
<1>6. inodes \in Nat
  BY Sizes DEF IInv, TypeOK
<1> QED
  BY <1>3, <1>4, <1>5, <1>6, Sizes DEF IInv, CountInv

-----------------------------------------------------------------------------
(* One lemma for each conjunct of the invariant.                            *)

\* The types are kept: a descriptor, once there, is an inode.
LEMMA TypeStep ==
    ASSUME IInv, [Next]_vars
    PROVE  TypeOK'
<1> USE DEF IInv, TypeOK
<1>1. CASE FlushNames
  BY <1>1 DEF FlushNames
<1>2. CASE PowerFails
  <2>1. content' \in [Inode -> [Block -> Writer \cup {Hole}]]
    BY <1>2 DEF PowerFails
  <2>2. /\ trouble' \in 0 .. IF alone' THEN MaxTrouble ELSE MaxTroubleShared
        /\ outages' \in 0 .. trouble'
    BY <1>2, PublishConstants DEF PowerFails, Trouble
  <2>3. cut' \subseteq Export
    BY <1>2 DEF PowerFails, Unfinished
  <2>4. installed' \subseteq Inode
    BY <1>2 DEF PowerFails, NamesInv, Name, Ref
  <2> QED
    BY <1>2, <2>1, <2>2, <2>3, <2>4 DEF PowerFails
<1>3. ASSUME NEW e \in Export, Begin(e) PROVE TypeOK'
  BY <1>3 DEF Begin
<1>4. ASSUME NEW e \in Export, StreamCut(e) PROVE TypeOK'
  <2>1. trouble' \in 0 .. IF alone' THEN MaxTrouble ELSE MaxTroubleShared
    BY <1>4, PublishConstants DEF StreamCut, Trouble, fileVars
  <2>2. outages' \in 0 .. trouble'
    BY <1>4 DEF StreamCut, Trouble, fileVars
  <2> QED
    BY <1>4, <2>1, <2>2 DEF StreamCut, Unfinished, fileVars
<1>5. ASSUME NEW e \in Export, ConnectionLost(e) PROVE TypeOK'
  <2>1. trouble' \in 0 .. IF alone' THEN MaxTrouble ELSE MaxTroubleShared
    BY <1>5, PublishConstants DEF ConnectionLost, Trouble, fileVars
  <2>2. outages' \in 0 .. trouble'
    BY <1>5 DEF ConnectionLost, Trouble, fileVars
  <2> QED
    BY <1>5, <2>1, <2>2 DEF ConnectionLost, Unfinished, fileVars
<1>6. ASSUME NEW e \in Export, ExporterDies(e) PROVE TypeOK'
  <2>1. trouble' \in 0 .. IF alone' THEN MaxTrouble ELSE MaxTroubleShared
    BY <1>6, PublishConstants DEF ExporterDies, Trouble, fileVars
  <2>2. outages' \in 0 .. trouble'
    BY <1>6 DEF ExporterDies, Trouble, fileVars
  <2> QED
    BY <1>6, <2>1, <2>2 DEF ExporterDies, Unfinished, fileVars
<1>7. ASSUME NEW e \in Export, Prepared(e) PROVE TypeOK'
  BY <1>7 DEF Prepared, fileVars
<1>8. ASSUME NEW e \in Export, Commit(e) PROVE TypeOK'
  <2>1. names' \in Name
    BY <1>8, NameUpdates DEF Commit, Name, Ref
  <2>2. installed' \subseteq Inode
    BY <1>8 DEF Commit, Name, Ref
  <2> QED
    BY <1>8, <2>1, <2>2 DEF Commit
<1>9. ASSUME NEW e \in Export, CommitRefused(e) PROVE TypeOK'
  BY <1>9 DEF CommitRefused, fileVars
<1>10. ASSUME NEW e \in Export, Open(e) PROVE TypeOK'
  <2>1. inodes + 1 \in Inode
    BY <1>10, RoomForOne DEF Open, Step
  <2>2. Empty \in [Block -> Writer \cup {Hole}]
    BY DEF Empty, Writer
  <2>3. content' \in [Inode -> [Block -> Writer \cup {Hole}]]
    BY <1>10, <2>2 DEF Open
  <2>4. names.tmp \in Ref /\ inodes + 1 \in Ref
    BY <2>1 DEF Name, Ref
  <2>5. names' \in Name
    <3>1. names' = [names EXCEPT !.tmp = inodes + 1] \/ names' = names
      BY <1>10 DEF Open
    <3> QED
      BY <2>4, <3>1, NameUpdates DEF Name
  <2>6. inodes' \in Inode /\ fd' \in [Export -> Ref]
    BY <1>10, <2>1, <2>4 DEF Open
  <2> QED
    BY <1>10, <2>3, <2>5, <2>6 DEF Open, Step
<1>11. ASSUME NEW e \in Export, Records(e) PROVE TypeOK'
  <2>1. content' \in [Inode -> [Block -> Writer \cup {Hole}]]
    BY <1>11 DEF Records, WriteBlock, Block, Writer
  <2> QED
    BY <1>11, <2>1 DEF Records, Step, WriteBlock
<1>12. ASSUME NEW e \in Export, Tables(e) PROVE TypeOK'
  <2>1. content' \in [Inode -> [Block -> Writer \cup {Hole}]]
    BY <1>12 DEF Tables, WriteBlock, Block, Writer
  <2> QED
    BY <1>12, <2>1 DEF Tables, Step, WriteBlock
<1>13. ASSUME NEW e \in Export, Header(e) PROVE TypeOK'
  <2>1. content' \in [Inode -> [Block -> Writer \cup {Hole}]]
    BY <1>13 DEF Header, WriteBlock, Block, Writer
  <2> QED
    BY <1>13, <2>1 DEF Header, Step, WriteBlock
<1>14. ASSUME NEW e \in Export, Fsync(e) PROVE TypeOK'
  BY <1>14 DEF Fsync, Step
<1>15. ASSUME NEW e \in Export, Rename(e) PROVE TypeOK'
  <2>1. names.tmp \in Ref /\ 0 \in Ref
    BY DEF Name, Ref
  <2>2. \/ names' = [names EXCEPT !.ready = names.tmp, !.tmp = 0]
        \/ names' = names
    BY <1>15 DEF Rename
  <2>3. names' \in Name
    BY <2>1, <2>2, NameUpdates DEF Name
  <2> QED
    BY <1>15, <2>3 DEF Rename, Step, Answered
<1>16. ASSUME NEW e \in Export, Dies(e) PROVE TypeOK'
  <2>1. trouble' \in 0 .. IF alone' THEN MaxTrouble ELSE MaxTroubleShared
    BY <1>16, PublishConstants DEF Dies, Trouble, fileVars
  <2>2. outages' \in 0 .. trouble'
    BY <1>16 DEF Dies, Trouble, fileVars
  <2> QED
    BY <1>16, <2>1, <2>2 DEF Dies, Answered, fileVars
<1>17. CASE UNCHANGED vars
  BY <1>17 DEF vars, fileVars
<1> QED
  BY <1>1, <1>2, <1>3, <1>4, <1>5, <1>6, <1>7, <1>8, <1>9,
     <1>10, <1>11, <1>12, <1>13, <1>14, <1>15, <1>16, <1>17
     DEF Next, Build

\* An export opens data.tmp once, and only that can make an inode.
LEMMA CountStep ==
    ASSUME IInv, [Next]_vars
    PROVE  CountInv'
<1> USE DEF IInv, CountInv
<1>1. IsFiniteSet(Opened) /\ IsFiniteSet(Opened')
  BY FS_Subset, PublishConstants DEF Opened
<1>2. Cardinality(Opened) \in Nat /\ Cardinality(Opened') \in Nat
  BY <1>1, FS_CardinalityType
<1>3. inodes \in Nat
  BY Sizes DEF TypeOK
<1>4. ASSUME NEW e \in Export, Open(e) PROVE CountInv'
  <2>1. e \notin Opened /\ Opened' = Opened \cup {e}
    BY <1>4 DEF Open, Step, Opened, TypeOK
  <2>2. Cardinality(Opened') = Cardinality(Opened) + 1
    BY <1>1, <2>1, FS_AddElement
  <2>3. inodes' = inodes \/ inodes' = inodes + 1
    BY <1>4 DEF Open
  <2> QED
    BY <1>2, <1>3, <2>2, <2>3
<1>5. ASSUME inodes' = inodes, Opened \subseteq Opened' PROVE CountInv'
  <2>1. Cardinality(Opened) <= Cardinality(Opened')
    BY <1>1, <1>5, FS_Subset
  <2> QED
    BY <1>2, <1>3, <1>5, <2>1
<1>6. ASSUME builder' = builder, inodes' = inodes PROVE CountInv'
  BY <1>5, <1>6 DEF Opened
<1>7. CASE PowerFails
  BY <1>5, <1>7 DEF PowerFails, Opened, TypeOK
<1>8. ASSUME NEW e \in Export, Begin(e) PROVE CountInv'
  <2>1. builder[e] = "none"
    BY <1>8 DEF Begin, ExportInv
  <2> QED
    BY <1>5, <1>8, <2>1 DEF Begin, fileVars, Opened, TypeOK
<1>9. ASSUME NEW e \in Export,
             Records(e) \/ Tables(e) \/ Header(e) \/ Fsync(e) \/ Rename(e) \/ Dies(e)
      PROVE  CountInv'
  <2>1. inodes' = inodes
    BY <1>9 DEF Records, Tables, Header, Fsync, Rename, Dies, WriteBlock, fileVars
  <2>2. \E s \in {"tables", "header", "fsync", "rename", "exit"} :
            builder' = [builder EXCEPT ![e] = s]
    BY <1>9 DEF Records, Tables, Header, Fsync, Rename, Dies, Step
  <2>3. Opened \subseteq Opened'
    BY <2>2 DEF Opened, TypeOK
  <2> QED
    BY <1>5, <2>1, <2>3
<1>10. ASSUME NEW e \in Export,
              \/ StreamCut(e) \/ ConnectionLost(e) \/ ExporterDies(e)
              \/ Prepared(e) \/ Commit(e) \/ CommitRefused(e)
       PROVE  CountInv'
  BY <1>6, <1>10 DEF StreamCut, ConnectionLost, ExporterDies, Prepared, Commit,
     CommitRefused, fileVars
<1>11. CASE FlushNames \/ UNCHANGED vars
  BY <1>6, <1>11 DEF FlushNames, vars, fileVars
<1> QED
  BY <1>4, <1>7, <1>8, <1>9, <1>10, <1>11 DEF Next, Build

\* An inode is made with a number of its own, and names move forward.
LEMMA NamesStep ==
    ASSUME IInv, [Next]_vars
    PROVE  NamesInv'
<1> USE DEF NamesInv, Settled
<1>1. /\ NamesInv
      /\ inodes \in Nat /\ names \in Name /\ diskNames \in Name
      /\ installed \subseteq Nat
  BY Sizes DEF IInv, TypeOK
<1>2. ASSUME UNCHANGED <<names, diskNames, inodes, installed>> PROVE NamesInv'
  BY <1>1, <1>2
<1>3. CASE FlushNames
  BY <1>1, <1>3 DEF FlushNames
<1>4. CASE PowerFails
  BY <1>1, <1>4 DEF PowerFails
<1>5. ASSUME NEW e \in Export, Commit(e) PROVE NamesInv'
  BY <1>1, <1>5 DEF Commit, Name
<1>6. ASSUME NEW e \in Export, Open(e) PROVE NamesInv'
  BY <1>1, <1>6 DEF Open, Name
<1>7. ASSUME NEW e \in Export, Rename(e) PROVE NamesInv'
  <2>1. CASE names' = names
    BY <1>1, <1>2, <1>7, <2>1 DEF Rename
  <2>2. CASE names' = [names EXCEPT !.ready = names.tmp, !.tmp = 0]
    <3>1. names'.tmp = 0 /\ names'.ready = names.tmp /\ names'.live = names.live
      BY <1>1, <2>2 DEF Name
    <3> QED
      BY <1>1, <1>7, <3>1 DEF Rename
  <2> QED
    BY <1>7, <2>1, <2>2 DEF Rename
<1>8. ASSUME NEW e \in Export,
             \/ Begin(e) \/ StreamCut(e) \/ ConnectionLost(e) \/ ExporterDies(e)
             \/ Prepared(e) \/ CommitRefused(e)
             \/ Records(e) \/ Tables(e) \/ Header(e) \/ Fsync(e) \/ Dies(e)
      PROVE  NamesInv'
  BY <1>2, <1>8 DEF Begin, StreamCut, ConnectionLost, ExporterDies, Prepared,
     CommitRefused, Records, Tables, Header, Fsync, Dies, WriteBlock, fileVars
<1>9. CASE UNCHANGED vars
  BY <1>2, <1>9 DEF vars, fileVars
<1> QED
  BY <1>3, <1>4, <1>5, <1>6, <1>7, <1>8, <1>9 DEF Next, Build

\* An export that begins beside no vdnsdb leaves one at work.
LEMMA SoleStep ==
    ASSUME IInv, [Next]_vars
    PROVE  SoleInv'
<1> USE DEF SoleInv, Ended
<1>1. /\ SoleInv
      /\ builder \in [Export -> {"none", "open", "records", "tables", "header",
                                 "fsync", "rename", "exit"}]
  BY DEF IInv, TypeOK
<1>2. ASSUME NEW e \in Export, Begin(e) PROVE SoleInv'
  BY <1>1, <1>2 DEF Begin
<1>3. ASSUME beside' = beside, \A e \in Export : Ended(e) => Ended(e)' PROVE SoleInv'
  BY <1>1, <1>3
<1>4. CASE PowerFails
  BY <1>1, <1>3, <1>4 DEF PowerFails
<1>5. ASSUME NEW e \in Export,
             \/ Open(e) \/ Records(e) \/ Tables(e) \/ Header(e) \/ Fsync(e)
             \/ Rename(e) \/ Dies(e)
      PROVE  SoleInv'
  BY <1>1, <1>3, <1>5 DEF Open, Records, Tables, Header, Fsync, Rename, Dies, Step,
     WriteBlock, fileVars
<1>6. ASSUME NEW e \in Export,
             \/ StreamCut(e) \/ ConnectionLost(e) \/ ExporterDies(e)
             \/ Prepared(e) \/ Commit(e) \/ CommitRefused(e)
      PROVE  SoleInv'
  BY <1>3, <1>6 DEF StreamCut, ConnectionLost, ExporterDies, Prepared, Commit,
     CommitRefused, fileVars
<1>7. CASE FlushNames \/ UNCHANGED vars
  BY <1>3, <1>7 DEF FlushNames, vars, fileVars
<1> QED
  BY <1>2, <1>4, <1>5, <1>6, <1>7 DEF Next, Build

\* In turn, an export begins when every other zexport has ended; unless it is
\* begun beside a vdnsdb the others are quiet, and who is quiet stays so.
LEMMA TurnStep ==
    ASSUME IInv, [Next]_vars
    PROVE  TurnInv'
<1> USE DEF TurnInv, Quiet, Ended
<1>1. /\ TurnInv
      /\ exporter \in [Export -> {"new", "stream", "commit", "done"}]
      /\ builder \in [Export -> {"none", "open", "records", "tables", "header",
                                 "fsync", "rename", "exit"}]
  BY DEF IInv, TypeOK
<1>2. ASSUME NEW e \in Export, Begin(e) PROVE TurnInv'
  BY <1>1, <1>2 DEF Begin
<1>3. ASSUME alone' = alone, beside' = beside, \A e \in Export : Quiet(e) => Quiet(e)'
      PROVE  TurnInv'
  BY <1>1, <1>3
<1>4. CASE PowerFails
  BY <1>1, <1>3, <1>4 DEF PowerFails
<1>5. ASSUME NEW e \in Export,
             ConnectionLost(e) \/ ExporterDies(e) \/ Prepared(e) \/ Commit(e) \/ CommitRefused(e)
      PROVE  TurnInv'
  BY <1>1, <1>3, <1>5 DEF ConnectionLost, ExporterDies, Prepared, Commit, CommitRefused, fileVars
<1>6. ASSUME NEW e \in Export,
             \/ Open(e) \/ Records(e) \/ Tables(e) \/ Header(e) \/ Fsync(e)
             \/ Rename(e) \/ Dies(e)
      PROVE  TurnInv'
  BY <1>1, <1>3, <1>6 DEF Open, Records, Tables, Header, Fsync, Rename, Dies, Step,
     WriteBlock, fileVars
<1>7. CASE FlushNames \/ (\E e \in Export : StreamCut(e)) \/ UNCHANGED vars
  BY <1>3, <1>7 DEF FlushNames, StreamCut, vars, fileVars
<1> QED
  BY <1>2, <1>4, <1>5, <1>6, <1>7 DEF Next, Build

\* A vdnsdb that is ready to synchronise or to rename has written every block.
LEMMA WholeFile ==
    ASSUME TypeOK, NEW e \in Export, Progress(e), builder[e] \in {"fsync", "rename"}
    PROVE  /\ names.tmp \in Inode
           /\ content[names.tmp] = WrittenBy(e)
<1>1. names.tmp \in Inode
  BY DEF Progress, TypeOK, Name, Ref
<1>2. content[names.tmp] \in [Block -> Writer \cup {Hole}]
  BY <1>1 DEF TypeOK
<1>3. \A b \in Block : content[names.tmp][b] = e
  BY DEF Progress, Block
<1> QED
  BY <1>1, <1>2, <1>3 DEF WrittenBy

\* Who was told 200 has its records in place until it commits: of exports in
\* turn, none begun beside a vdnsdb, no other one can put something there.
LEMMA ExportStep ==
    ASSUME IInv, [Next]_vars, NEW f \in Export
    PROVE  ExportInv(f)'
<1> USE DEF ExportInv
<1>1. /\ ExportInv(f)
      /\ TypeOK /\ TurnInv /\ (~beside => Clean)
  BY DEF IInv
<1>2. CASE FlushNames
  BY <1>1, <1>2 DEF FlushNames
<1>3. CASE PowerFails
  BY <1>1, <1>3 DEF PowerFails, Trouble, TypeOK
<1>4. ASSUME NEW e \in Export, Begin(e) PROVE ExportInv(f)'
  BY <1>1, <1>4 DEF Begin, TypeOK
<1>5. ASSUME NEW e \in Export, StreamCut(e) PROVE ExportInv(f)'
  BY <1>1, <1>5 DEF StreamCut, Trouble, fileVars, TypeOK
<1>6. ASSUME NEW e \in Export, ConnectionLost(e) PROVE ExportInv(f)'
  BY <1>1, <1>6 DEF ConnectionLost, Trouble, fileVars, TypeOK
<1>7. ASSUME NEW e \in Export, ExporterDies(e) PROVE ExportInv(f)'
  BY <1>1, <1>7 DEF ExporterDies, Trouble, fileVars, TypeOK
<1>8. ASSUME NEW e \in Export, Prepared(e) PROVE ExportInv(f)'
  BY <1>1, <1>8 DEF Prepared, fileVars, TypeOK
<1>9. ASSUME NEW e \in Export, Commit(e) PROVE ExportInv(f)'
  BY <1>1, <1>9 DEF Commit, TypeOK, TurnInv, Quiet, Ended
<1>10. ASSUME NEW e \in Export, CommitRefused(e) PROVE ExportInv(f)'
  BY <1>1, <1>10 DEF CommitRefused, fileVars, TypeOK
<1>11. ASSUME NEW e \in Export, Dies(e) PROVE ExportInv(f)'
  BY <1>1, <1>11 DEF Dies, Trouble, Answered, fileVars, TypeOK
<1>12. ASSUME NEW e \in Export, Fsync(e) PROVE ExportInv(f)'
  BY <1>1, <1>12 DEF Fsync, Step, TypeOK
<1>13. ASSUME NEW e \in Export, Open(e) PROVE ExportInv(f)'
  BY <1>1, <1>13 DEF Open, Step, TypeOK, TurnInv, Quiet, Ended
<1>14. ASSUME NEW e \in Export, Records(e) PROVE ExportInv(f)'
  BY <1>1, <1>14 DEF Records, WriteBlock, Step, TypeOK, TurnInv, Quiet, Ended
<1>15. ASSUME NEW e \in Export, Tables(e) PROVE ExportInv(f)'
  BY <1>1, <1>15 DEF Tables, WriteBlock, Step, TypeOK, TurnInv, Quiet, Ended
<1>16. ASSUME NEW e \in Export, Header(e) PROVE ExportInv(f)'
  BY <1>1, <1>16 DEF Header, WriteBlock, Step, TypeOK, TurnInv, Quiet, Ended
<1>17. ASSUME NEW e \in Export, Rename(e) PROVE ExportInv(f)'
  <2>1. CASE e = f /\ ~beside
    <3>1. e \in Active
      BY <1>17 DEF Active, Rename, Step
    <3>2. names.tmp \in Inode /\ content[names.tmp] = WrittenBy(e)
      BY <1>1, <1>17, <2>1, <3>1, WholeFile DEF Clean, Rename, Step
    <3>3. names.tmp # 0
      BY <1>1, <2>1, <3>1 DEF Clean, Progress
    <3>4. names' = [names EXCEPT !.ready = names.tmp, !.tmp = 0]
      BY <1>17, <3>3 DEF Rename
    <3>5. names'.ready = names.tmp
      BY <1>1, <3>4 DEF TypeOK, Name
    <3> QED
      BY <1>1, <1>17, <2>1, <3>2, <3>3, <3>5 DEF Rename, Answered, Step, TypeOK
  <2>2. CASE e # f
    BY <1>1, <1>17, <2>2 DEF Rename, Answered, Step, TypeOK, TurnInv, Quiet, Ended
  <2>3. CASE beside
    BY <1>1, <1>17, <2>3 DEF Rename, Answered, Step, TypeOK
  <2> QED
    BY <2>1, <2>2, <2>3
<1>18. CASE UNCHANGED vars
  BY <1>1, <1>18 DEF vars, fileVars
<1> QED
  BY <1>2, <1>3, <1>4, <1>5, <1>6, <1>7, <1>8, <1>9, <1>10, <1>11, <1>12, <1>13,
     <1>14, <1>15, <1>16, <1>17, <1>18 DEF Next, Build
\* A vdnsdb alone with its data.tmp leaves the settled inodes alone, and what it
\* adds to them is whole and synchronised.
LEMMA CleanStep ==
    ASSUME IInv, Clean, [Next]_vars,
           \A e \in Export : Open(e) => Active = {}
    PROVE  Clean'
<1> USE DEF Clean
<1>1. TypeOK /\ NamesInv /\ Settled \subseteq Inode
  <2>1. Settled \subseteq 1 .. inodes
    BY Sizes DEF IInv, NamesInv, TypeOK, Settled, Name, Ref
  <2> QED
    BY <2>1, Sizes DEF IInv, TypeOK
\* Nothing settled is touched, and nobody comes to be active.
<1>2. ASSUME Settled' \subseteq Settled, Active' \subseteq Active,
             \A i \in Settled : content'[i] = content[i] /\ durable'[i] = durable[i],
             \A e \in Active' : Progress(e)'
      PROVE  Clean'
  BY <1>2 DEF Safe, Whole, Writer, WrittenBy
<1>3. ASSUME UNCHANGED <<content, durable, fd>>, names'.tmp = names.tmp,
             Settled' \subseteq Settled, Active' \subseteq Active,
             \A e \in Active' : builder'[e] = builder[e]
      PROVE  Clean'
  BY <1>2, <1>3 DEF Progress
<1>4. CASE FlushNames
  BY <1>3, <1>4 DEF FlushNames, Settled, Active
<1>5. CASE PowerFails
  <2>1. Settled' \subseteq Settled /\ Active' = {}
    BY <1>5 DEF PowerFails, Settled, Active
  <2>2. ASSUME NEW i \in Settled PROVE content'[i] = content[i] /\ durable'[i] = durable[i]
    BY <1>1, <1>5, <2>2 DEF PowerFails, Safe
  <2> QED
    BY <1>2, <2>1, <2>2
<1>6. ASSUME NEW e \in Export, Commit(e) PROVE Clean'
  <2>1. names'.tmp = names.tmp /\ Settled' \subseteq Settled
    BY <1>1, <1>6 DEF Commit, Settled, TypeOK, Name
  <2> QED
    BY <1>3, <1>6, <2>1 DEF Commit, Active
<1>7. ASSUME NEW e \in Export, Open(e) PROVE Clean'
  <2>1. Active' = {e} /\ builder'[e] = "records"
    <3>1. builder[e] = "open" /\ builder' = [builder EXCEPT ![e] = "records"]
      BY <1>7 DEF Open, Step
    <3>2. builder \in [Export -> {"none", "open", "records", "tables", "header",
                                  "fsync", "rename", "exit"}]
      BY <1>1 DEF TypeOK
    <3>3. builder'[e] = "records" /\ \A x \in Export : x # e => builder'[x] = builder[x]
      BY <3>1, <3>2
    <3>4. Active = {}
      BY <1>7
    <3> QED
      BY <3>3, <3>4 DEF Active
  <2>2. PICK i \in Inode :
          /\ names'.tmp = i /\ fd'[e] = i /\ i \notin Settled
          /\ content' = [content EXCEPT ![i] = Empty]
          /\ names'.ready = names.ready /\ names'.live = names.live
    <3>1. CASE names.tmp # 0
      BY <1>1, <1>7, <3>1 DEF Open, TypeOK, Name, Ref, NamesInv
    <3>2. CASE names.tmp = 0
      <4>1. inodes + 1 \in Inode
        BY <1>7, RoomForOne DEF Open, Step
      <4>2. inodes + 1 \notin Settled
        BY <1>1, Sizes DEF NamesInv, TypeOK
      <4> QED
        BY <1>1, <1>7, <3>2, <4>1, <4>2 DEF Open, TypeOK, Name
    <3> QED
      BY <3>1, <3>2
  <2>3. Settled' = Settled
    BY <1>7, <2>2 DEF Open, Settled
  <2>4. \A j \in Settled : Safe(j)'
    BY <1>1, <1>7, <2>2 DEF Open, Safe, Whole, Writer, WrittenBy, TypeOK
  <2>5. Progress(e)'
    BY <2>1, <2>2, Sizes DEF Progress
  <2> QED
    BY <2>1, <2>3, <2>4, <2>5
<1>8. ASSUME NEW e \in Export, NEW b \in Block, NEW from, NEW to,
             Step(e, from, to), WriteBlock(e, b), e \in Active,
             Progress(e) => Progress(e)'
      PROVE  Clean'
  <2>1. Settled' = Settled /\ Active' \subseteq {e}
    BY <1>1, <1>8 DEF WriteBlock, Settled, Step, Active, TypeOK
  <2>2. fd[e] = names.tmp /\ names.tmp \notin Settled
    BY <1>1, <1>8 DEF Progress, NamesInv
  <2>3. \A i \in Settled : content'[i] = content[i] /\ durable'[i] = durable[i]
    BY <1>1, <1>8, <2>2 DEF WriteBlock, TypeOK
  <2> QED
    BY <1>2, <1>8, <2>1, <2>3
<1>9. ASSUME NEW e \in Export, Records(e) \/ Tables(e) \/ Header(e) PROVE Clean'
  <2>1. e \in Active
    BY <1>9 DEF Records, Tables, Header, Step, Active
  <2>2. names.tmp \in Inode /\ fd[e] = names.tmp
    BY <1>1, <2>1 DEF Progress, TypeOK, Name, Ref
  <2>3. Progress(e)'
    BY <1>1, <1>9, <2>1, <2>2 DEF Records, Tables, Header, Step, WriteBlock, Progress, TypeOK, Block
  <2> QED
    BY <1>8, <1>9, <2>1, <2>3 DEF Records, Tables, Header, Block
<1>10. ASSUME NEW e \in Export, Fsync(e) PROVE Clean'
  <2>1. e \in Active /\ Active' \subseteq {e} /\ Settled' = Settled
    BY <1>1, <1>10 DEF Fsync, Step, Active, Settled, TypeOK
  <2>2. fd[e] = names.tmp /\ names.tmp \notin Settled /\ names.tmp \in Inode
    BY <1>1, <2>1 DEF Progress, NamesInv, TypeOK, Name, Ref
  <2>3. Progress(e)'
    BY <1>1, <1>10, <2>1, <2>2 DEF Fsync, Step, Progress, TypeOK
  <2>4. \A i \in Settled : content'[i] = content[i] /\ durable'[i] = durable[i]
    BY <1>1, <1>10, <2>2 DEF Fsync, TypeOK
  <2> QED
    BY <1>2, <2>1, <2>3, <2>4
<1>11. ASSUME NEW e \in Export, Rename(e) PROVE Clean'
  <2>1. e \in Active /\ Active' = {}
    BY <1>1, <1>11 DEF Rename, Step, Active, TypeOK
  <2>2. builder[e] = "rename" /\ names.tmp # 0 /\ Safe(names.tmp)
    <3>1. content[names.tmp] = WrittenBy(e)
      BY <1>1, <1>11, <2>1, WholeFile DEF Rename, Step
    <3> QED
      BY <1>11, <2>1, <3>1 DEF Rename, Step, Progress, Safe, Whole, Writer
  <2>3. Settled' \subseteq Settled \cup {names.tmp}
    <3>1. /\ names' = [names EXCEPT !.ready = names.tmp, !.tmp = 0]
          /\ UNCHANGED <<diskNames, installed>>
      BY <1>11, <2>2 DEF Rename
    <3>2. names'.ready = names.tmp /\ names'.live = names.live
      BY <1>1, <3>1 DEF TypeOK, Name
    <3> QED
      BY <3>1, <3>2 DEF Settled
  <2>4. UNCHANGED <<content, durable>>
    BY <1>11 DEF Rename
  <2>5. \A i \in Settled' : Safe(i)'
    BY <2>2, <2>3, <2>4 DEF Safe, Whole, Writer, WrittenBy
  <2> QED
    BY <2>1, <2>5
<1>12. ASSUME NEW e \in Export, Dies(e) PROVE Clean'
  BY <1>1, <1>3, <1>12 DEF Dies, fileVars, Settled, Active, TypeOK
<1>13. ASSUME NEW e \in Export, Begin(e) PROVE Clean'
  BY <1>1, <1>3, <1>13 DEF Begin, fileVars, Settled, Active, TypeOK
<1>14. ASSUME NEW e \in Export,
              \/ StreamCut(e) \/ ConnectionLost(e) \/ ExporterDies(e)
              \/ Prepared(e) \/ CommitRefused(e)
       PROVE  Clean'
  BY <1>3, <1>14 DEF StreamCut, ConnectionLost, ExporterDies, Prepared,
     CommitRefused, fileVars, Settled, Active
<1>15. CASE UNCHANGED vars
  BY <1>3, <1>15 DEF vars, fileVars, Settled, Active
<1> QED
  BY <1>4, <1>5, <1>6, <1>7, <1>9, <1>10, <1>11, <1>12, <1>13, <1>14, <1>15
     DEF Next, Build

\* Until an export begins beside a vdnsdb, the one that opens data.tmp is the
\* only one.
LEMMA ApartStep ==
    ASSUME IInv, [Next]_vars
    PROVE  ~beside' => Clean'
<1> SUFFICES ASSUME ~beside' PROVE Clean'
  OBVIOUS
<1>1. ~beside
  BY DEF Next, Build, FlushNames, PowerFails, Begin, StreamCut, ConnectionLost,
     ExporterDies, Prepared, Commit, CommitRefused, Open, Records, Tables, Header,
     Fsync, Rename, Dies, WriteBlock, fileVars, vars
<1>2. ASSUME NEW e \in Export, Open(e) PROVE Active = {}
  BY <1>1, <1>2 DEF Open, Step, Active, IInv, SoleInv, Ended
<1> QED
  BY <1>1, <1>2, CleanStep DEF IInv
\* Without trouble, the surplus of vdnsdb over data.tmp that a shared file makes
\* lasts until one of them finds no file to rename and says so.
LEMMA TornStep ==
    ASSUME IInv, [Next]_vars
    PROVE  TornInv'
<1> SUFFICES ASSUME trouble' = 0, \A e \in Export : answer'[e] # "500"
             PROVE  (Crowded \/ (Clean /\ (names.tmp # 0 => Active # {})))'
  BY DEF TornInv
<1> DEFINE Fine == Clean /\ (names.tmp # 0 => Active # {})
<1>1. TypeOK /\ \A e \in Export : ExportInv(e)
  BY DEF IInv
<1>2. ~Trouble
  BY <1>1 DEF Trouble, TypeOK
<1>3. ASSUME UNCHANGED <<builder, names, answer, trouble>> PROVE (Crowded \/ Fine)'
  <2>1. Active' = Active
    BY <1>3 DEF Active
  <2>2. Crowded \/ Fine
    BY <1>3 DEF IInv, TornInv
  <2>3. Crowded => Crowded'
    BY <1>3, <2>1 DEF Crowded
  <2>4. \A e \in Export : ~Open(e)
    BY <1>1, <1>3 DEF Open, Step, TypeOK
  <2>5. Fine => Fine'
    BY <1>3, <2>1, <2>4, CleanStep
  <2> QED
    BY <2>2, <2>3, <2>5
<1>4. ASSUME UNCHANGED <<answer, trouble>>, Active' = Active, names'.tmp = names.tmp,
             \A e \in Export : ~Open(e)
      PROVE  (Crowded \/ Fine)'
  <2>1. Crowded \/ Fine
    BY <1>4 DEF IInv, TornInv
  <2>2. Crowded => Crowded'
    BY <1>4 DEF Crowded
  <2> QED
    BY <1>4, <2>1, <2>2, CleanStep
<1>5. ASSUME NEW e \in Export, Open(e) PROVE (Crowded \/ Fine)'
  <2>1. /\ Active' = Active \cup {e} /\ e \notin Active
        /\ UNCHANGED <<answer, trouble>>
    BY <1>1, <1>5 DEF Open, Step, Active, TypeOK
  <2>2. Crowded \/ Fine
    BY <2>1 DEF IInv, TornInv
  <2>3. CASE Active = {}
    <3>1. Fine
      BY <2>2, <2>3 DEF Crowded
    <3>2. Clean'
      BY <2>3, <3>1, CleanStep
    <3> QED
      BY <2>1, <3>2
  <2>4. CASE Active # {}
    BY <2>1, <2>4 DEF Crowded
  <2> QED
    BY <2>3, <2>4
<1>6. ASSUME NEW e \in Export, Rename(e) PROVE (Crowded \/ Fine)'
  <2>1. /\ e \in Active /\ Active' = Active \ {e}
        /\ exporter[e] = "stream" /\ answer[e] = "none" /\ trouble = 0
    BY <1>1, <1>6 DEF Rename, Step, Active, ExportInv, TypeOK
  <2>2. names.tmp # 0 /\ answer' = [answer EXCEPT ![e] = "200"]
    BY <1>1, <1>6, <2>1 DEF Rename, Answered, TypeOK
  <2>3. names'.tmp = 0
    <3>1. names' = [names EXCEPT !.ready = names.tmp, !.tmp = 0]
      BY <1>6, <2>2 DEF Rename
    <3> QED
      BY <1>1, <3>1 DEF TypeOK, Name
  <2>4. \A f \in Export : answer[f] # "500"
    BY <1>1, <2>1, <2>2 DEF TypeOK
  <2>5. Crowded \/ Fine
    BY <2>1, <2>4 DEF IInv, TornInv
  <2>6. CASE Crowded
    <3>1. PICK a \in Active, b \in Active : a # b
      BY <2>2, <2>6 DEF Crowded
    <3>2. a \in Active' \/ b \in Active'
      BY <2>1, <3>1
    <3> QED
      BY <2>3, <3>2 DEF Crowded
  <2>7. CASE Fine
    <3>1. \A f \in Export : ~Open(f)
      BY <1>1, <1>6 DEF Open, Rename, Step, TypeOK
    <3>2. Clean'
      BY <2>7, <3>1, CleanStep
    <3> QED
      BY <2>3, <3>2
  <2> QED
    BY <2>5, <2>6, <2>7
<1>7. ASSUME NEW e \in Export, Records(e) \/ Tables(e) \/ Header(e) \/ Fsync(e)
      PROVE  (Crowded \/ Fine)'
  <2>1. UNCHANGED <<names, answer, trouble>>
    BY <1>7 DEF Records, Tables, Header, Fsync, WriteBlock
  <2>2. Active' = Active /\ \A f \in Export : ~Open(f)
    BY <1>1, <1>7 DEF Records, Tables, Header, Fsync, Step, Active, Open, TypeOK
  <2> QED
    BY <1>4, <2>1, <2>2
<1>8. ASSUME NEW e \in Export, Begin(e) PROVE (Crowded \/ Fine)'
  <2>1. UNCHANGED <<names, answer, trouble>>
    BY <1>8 DEF Begin
  <2>2. builder[e] = "none"
    BY <1>1, <1>8 DEF Begin, ExportInv
  <2>3. Active' = Active /\ \A f \in Export : ~Open(f)
    BY <1>1, <1>8, <2>2 DEF Begin, Step, Active, Open, TypeOK
  <2> QED
    BY <1>4, <2>1, <2>3
<1>9. ASSUME NEW e \in Export, Commit(e) PROVE (Crowded \/ Fine)'
  <2>1. UNCHANGED <<answer, trouble, builder>>
    BY <1>9 DEF Commit
  <2>2. names'.tmp = names.tmp
    BY <1>1, <1>9 DEF Commit, TypeOK, Name
  <2>3. Active' = Active /\ \A f \in Export : ~Open(f)
    BY <1>1, <2>1 DEF Active, Open, Step, TypeOK
  <2> QED
    BY <1>4, <2>1, <2>2, <2>3
<1>10. CASE FlushNames \/ (\E e \in Export : Prepared(e) \/ CommitRefused(e)) \/ UNCHANGED vars
  BY <1>3, <1>10 DEF FlushNames, Prepared, CommitRefused, vars, fileVars
<1> QED
  BY <1>2, <1>5, <1>6, <1>7, <1>8, <1>9, <1>10 DEF Next, Build, PowerFails,
     StreamCut, ConnectionLost, ExporterDies, Dies

-----------------------------------------------------------------------------
(* The theorems.                                                           *)

LEMMA InitInv == Init => IInv
<1> SUFFICES ASSUME Init PROVE IInv
  OBVIOUS
<1> USE DEF Init
<1>1. TypeOK
  <2>1. names \in Name
    BY Sizes DEF Name, Ref
  <2>2. content \in [Inode -> [Block -> Writer \cup {Hole}]]
    BY DEF Empty, WrittenBy, Writer
  <2>3. trouble \in 0 .. IF alone THEN MaxTrouble ELSE MaxTroubleShared
    BY PublishConstants
  <2>4. outages \in 0 .. trouble /\ inodes \in Inode /\ installed \subseteq Inode
    BY Sizes
  <2> QED
    BY <2>1, <2>2, <2>3, <2>4 DEF TypeOK, Ref
<1>2. Opened = {} /\ Active = {} /\ Settled = {1}
  BY DEF Opened, Active, Settled
<1>3. CountInv
  BY <1>2, FS_EmptySet DEF CountInv
<1>4. NamesInv
  BY <1>2 DEF NamesInv
<1>5. Clean
  BY <1>2, Sizes DEF Clean, Safe, Whole, Writer
<1>6. SoleInv /\ TurnInv
  BY DEF SoleInv, TurnInv, Quiet, Ended
<1>7. (\A e \in Export : ExportInv(e)) /\ TornInv
  BY <1>5 DEF ExportInv, TornInv
<1> QED
  BY <1>1, <1>3, <1>4, <1>5, <1>6, <1>7 DEF IInv

\* IInv is an inductive invariant of the publication.
THEOREM Invariance == Spec => []IInv
<1>1. IInv /\ [Next]_vars => IInv'
  BY TypeStep, CountStep, NamesStep, SoleStep, TurnStep, ExportStep, ApartStep, TornStep
     DEF IInv
<1> QED
  BY <1>1, InitInv, PTL DEF Spec

\* Every variable keeps to its type; there are never more inodes than exports
\* and the first database need.
THEOREM TypeCorrect == Spec => []TypeOK
<1>1. IInv => TypeOK
  BY DEF IInv
<1> QED
  BY <1>1, Invariance, PTL

\* As long as no export is begun while the vdnsdb of another is at work: vdnsd
\* always finds one whole database under its name, also after every power failure.
THEOREM LiveDatabaseIsWhole == Spec => []LiveIsWhole
<1>1. IInv => LiveIsWhole
  BY DEF IInv, LiveIsWhole, Clean, Safe, Settled, NamesInv
<1> QED
  BY <1>1, Invariance, PTL

\* As long as no export is begun while the vdnsdb of another is at work: what waits
\* for a commit is one whole database.
THEOREM PreparedDatabaseIsWhole == Spec => []ReadyIsWhole
<1>1. IInv => ReadyIsWhole
  BY DEF IInv, ReadyIsWhole, Clean, Safe, Settled
<1> QED
  BY <1>1, Invariance, PTL

\* Exports that overlap, without any trouble: if at the end the database is torn,
\* one of them was told that its prepare failed.
THEOREM TornDatabaseIsTold == Spec => []TornIsTold
<1>1. IInv => TornIsTold
  <2> SUFFICES ASSUME IInv, trouble = 0, \A e \in Export : Quiet(e),
                      \A e \in Export : answer[e] # "500"
               PROVE  Whole(names.live)
    BY DEF TornIsTold
  <2>1. Active = {}
    BY DEF Active, Quiet, Ended
  <2>2. Clean
    BY <2>1 DEF IInv, TornInv, Crowded
  <2> QED
    BY <2>2 DEF Clean, Safe, Settled, IInv, NamesInv
<1> QED
  BY <1>1, Invariance, PTL

\* As long as no export is begun while the vdnsdb of another is at work: no step
\* writes to a file that vdnsd may have mapped.
THEOREM MappedFilesAreLeftAlone == Spec => NeverRewritten
<1>1. IInv /\ [Next]_vars
        => [~beside => \A i \in installed : content'[i] = content[i]]_vars
  <2> SUFFICES ASSUME IInv, Next, ~beside, NEW i \in installed
               PROVE  content'[i] = content[i]
    BY DEF vars
  <2>1. i \in Settled /\ Safe(i) /\ i \in Inode
    BY DEF IInv, TypeOK, Clean, Settled, Inode
  <2>2. TypeOK /\ i \in 0 .. inodes /\ i # names.tmp
    BY <2>1 DEF IInv, NamesInv
  <2>3. CASE PowerFails
    BY <2>1, <2>3 DEF PowerFails, Safe
  <2>4. ASSUME NEW e \in Export, Open(e) PROVE content'[i] = content[i]
    <3>1. i # inodes + 1
      BY <2>2, Sizes DEF TypeOK
    <3> QED
      BY <2>1, <2>2, <2>4, <3>1 DEF Open, TypeOK
  <2>5. ASSUME NEW e \in Export, Records(e) \/ Tables(e) \/ Header(e)
        PROVE  content'[i] = content[i]
    <3>1. fd[e] = names.tmp
      BY <2>5 DEF Records, Tables, Header, Step, Active, IInv, Clean, Progress
    <3> QED
      BY <2>1, <2>2, <2>5, <3>1 DEF Records, Tables, Header, WriteBlock, TypeOK
  <2> QED
    BY <2>3, <2>4, <2>5 DEF Next, Build, FlushNames, Begin, StreamCut, ConnectionLost,
       ExporterDies, Prepared, Commit, CommitRefused, Fsync, Rename, Dies, fileVars
<1> QED
  BY <1>1, Invariance, PTL DEF NeverRewritten, Spec

\* Exports in turn, none begun while a vdnsdb is at work: who was told 200 installs
\* its own records, unless power fails.
THEOREM CommitInstallsItsOwn == Spec => CommitsOwn
<1>1. IInv /\ [Next]_vars
        => [\A e \in Export :
              alone /\ ~beside /\ answer[e] = "200" /\ Installs(e)
              => outages # 0 \/ content'[names'.live] = WrittenBy(e)]_vars
  <2> SUFFICES ASSUME IInv, Next, NEW e \in Export,
                      alone, ~beside, exporter[e] = "commit", answer[e] = "200",
                      exporter'[e] = "done", names'.live # names.live, outages = 0
               PROVE  content'[names'.live] = WrittenBy(e)
    BY DEF vars, Installs
  <2>1. TypeOK /\ ExportInv(e) /\ TurnInv
    BY DEF IInv
  <2>2. PICK f \in Export : Commit(f)
    <3>1. ~PowerFails
      BY <2>1 DEF PowerFails, TypeOK
    <3>2. ASSUME NEW f \in Export, Open(f) PROVE FALSE
      BY <2>1, <3>2 DEF Open
    <3>3. ASSUME NEW f \in Export, Rename(f) PROVE FALSE
      BY <2>1, <3>3 DEF Rename
    <3> QED
      BY <2>1, <3>1, <3>2, <3>3 DEF Next, Build, FlushNames, Begin, StreamCut,
         ConnectionLost, ExporterDies, Prepared, CommitRefused, Records, Tables,
         Header, Fsync, Dies, WriteBlock, fileVars
  <2>3. f = e
    BY <2>1, <2>2 DEF Commit, TypeOK
  <2>4. names'.live = names.ready /\ content' = content
    BY <2>1, <2>2 DEF Commit, TypeOK, Name
  <2> QED
    BY <2>1, <2>4 DEF ExportInv
<1> QED
  BY <1>1, Invariance, PTL DEF CommitsOwn, Spec

-----------------------------------------------------------------------------
(* Sequences of rows and of lines                                          *)

\* The instance's sizes of sets are those of the library.
LEMMA SameSizes ==
  ASSUME NEW S
  PROVE  /\ Zone!Cardinality(S) = Cardinality(S)
         /\ Zone!IsFiniteSet(S) <=> IsFiniteSet(S)
BY DEF Zone!Cardinality, Cardinality, Zone!IsFiniteSet, IsFiniteSet

\* A function on the first n numbers is a sequence of what it takes.
LEMMA Counted ==
  ASSUME NEW n \in Nat, NEW q, q = [k \in 1 .. n |-> q[k]]
  PROVE  Zone!ASequence(q)
<1>1. \A k \in 1 .. n : q[k] \in Zone!Range(q)
  BY DEF Zone!Range
<1>2. [k \in 1 .. n |-> q[k]] \in Seq(Zone!Range(q))
  BY <1>1
<1> QED
  BY <1>2 DEF Zone!ASequence

LEMMA AppendGrows ==
  ASSUME NEW q, Zone!ASequence(q), NEW e
  PROVE  /\ Zone!ASequence(Append(q, e))
         /\ Zone!Range(Append(q, e)) = Zone!Range(q) \cup {e}
<1> DEFINE S == Zone!Range(q) \cup {e}
           a == Append(q, e)
<1>1. q \in Seq(S) /\ e \in S
  BY DEF Zone!ASequence
<1>2. /\ Len(q) \in Nat /\ DOMAIN q = 1 .. Len(q)
      /\ a \in Seq(S) /\ Len(a) = Len(q) + 1 /\ DOMAIN a = 1 .. Len(q) + 1
  BY <1>1
<1>3. a[Len(q) + 1] = e /\ \A k \in DOMAIN q : a[k] = q[k]
  BY <1>1, <1>2
<1>4. Zone!Range(a) = Zone!Range(q) \cup {e}
  BY <1>2, <1>3 DEF Zone!Range
<1> QED
  BY <1>2, <1>4 DEF Zone!ASequence

LEMMA TailShrinks ==
  ASSUME NEW q, Zone!ASequence(q), q # <<>>
  PROVE  /\ Zone!ASequence(Tail(q))
         /\ Zone!Range(q) = {Head(q)} \cup Zone!Range(Tail(q))
<1> DEFINE S == Zone!Range(q)
           t == Tail(q)
<1>1. q \in Seq(S) /\ Len(q) \in Nat \ {0} /\ DOMAIN q = 1 .. Len(q)
  BY DEF Zone!ASequence
<1>2. t \in Seq(S) /\ Len(t) = Len(q) - 1 /\ DOMAIN t = 1 .. Len(q) - 1
  BY <1>1
<1>3. Head(q) = q[1] /\ \A k \in DOMAIN t : t[k] = q[k + 1]
  BY <1>1, <1>2
<1>4. \A k \in DOMAIN q : k = 1 \/ (k - 1 \in DOMAIN t /\ t[k - 1] = q[k])
  BY <1>1, <1>2, <1>3
<1>5. \A k \in DOMAIN t : k + 1 \in DOMAIN q /\ t[k] = q[k + 1]
  BY <1>1, <1>2, <1>3
<1>6. Zone!Range(q) = {Head(q)} \cup Zone!Range(t)
  <2>1. \A k \in DOMAIN q : q[k] \in {Head(q)} \cup Zone!Range(t)
    BY <1>3, <1>4 DEF Zone!Range
  <2>2. \A k \in DOMAIN t : t[k] \in Zone!Range(q)
    BY <1>5 DEF Zone!Range
  <2>3. Head(q) \in Zone!Range(q)
    BY <1>1, <1>3 DEF Zone!Range
  <2> QED
    BY <2>1, <2>2, <2>3 DEF Zone!Range
<1>7. Len(t) \in Nat /\ t \in [1 .. Len(t) -> S]
  <2> HIDE DEF t, S
  <2> QED
    BY <1>1, <1>2
<1>8. Zone!ASequence(t)
  BY <1>7, Counted
<1> QED
  BY <1>6, <1>8

\* What z_import reads of a file is a sequence of rows.
LEMMA RowsInTurn ==
  ASSUME NEW lines, Zone!IsFiniteSet(DOMAIN lines)
  PROVE  Zone!ASequence(Zone!Rows(lines))
<1> DEFINE known == {k \in DOMAIN lines : lines[k].kind \in Zone!Handled}
<1>1. IsFiniteSet(known)
  BY SameSizes, FS_Subset
<1>2. Zone!Cardinality(known) \in Nat
  BY <1>1, SameSizes, FS_CardinalityType
<1>3. Zone!Rows(lines) = [n \in 1 .. Zone!Cardinality(known) |-> Zone!Rows(lines)[n]]
  BY DEF Zone!Rows
<1> QED
  BY <1>2, <1>3, Counted

LEMMA NoRows ==
  /\ Zone!ASequence(<<>>) /\ Zone!Range(<<>>) = {} /\ Zone!IsFiniteSet(DOMAIN <<>>)
  /\ \A q : Zone!ASequence(q) /\ Zone!Range(q) = {} => q = <<>>
<1>1. Zone!IsFiniteSet(DOMAIN <<>>)
  BY SameSizes, FS_EmptySet
<1> QED
  BY <1>1 DEF Zone!ASequence, Zone!Range

-----------------------------------------------------------------------------
(* The zone commands                                                       *)

USE DEF Zone!Running, Zone!On, Zone!Zones, Zone!Goto, Zone!tables, Zone!local, Zone!history

LEMMA ZoneAssumed ==
  /\ \A f \in Files : Zone!IsFiniteSet(DOMAIN f)
  /\ IsFiniteSet(DOMAIN Given) /\ DOMAIN Given \subseteq Origin
  /\ \A o \in DOMAIN Given : Zone!IsFiniteSet(DOMAIN Given[o].lines)
BY ZoneConstants, SameSizes DEF ZoneConstants, Zone!ZoneConstants

\* What z_dump_rrs reads comes to an end.
LEMMA DumpEnds ==
  ASSUME Zone!StoreFields, NEW s \in Zone!Running, Zone!DumpRrs(s)
  PROVE  \A r \in Session : Zone!IsFiniteSet(DOMAIN file'[r])
<1> DEFINE own == Zone!Own(Zone!On(s), task[s].user)
           Place(i) == {i} \X DOMAIN records[i]
           parts == {Place(i) : i \in own}
           count == Zone!Cardinality(Zone!OwnRows(s))
<1>1. IsFiniteSet(own)
  <2>1. own \subseteq 1 .. serial /\ serial \in Nat
    BY DEF Zone!StoreFields, Zone!Own
  <2>2. IsFiniteSet(1 .. serial)
    BY <2>1, FS_Interval
  <2> QED
    BY <2>1, <2>2, FS_Subset
<1>2. \A i \in own : IsFiniteSet(Place(i))
  <2>1. ASSUME NEW i \in own
        PROVE  IsFiniteSet(Place(i))
    <3>1. Len(records[i]) \in Nat /\ DOMAIN records[i] = 1 .. Len(records[i])
      BY DEF Zone!StoreFields, Zone!ASequence, Zone!Own
    <3>2. IsFiniteSet(DOMAIN records[i])
      BY <3>1, FS_Interval
    <3> QED
      BY <3>2, FS_Singleton, FS_Product
  <2> QED
    BY <2>1
<1>3. IsFiniteSet(parts)
  <2> DEFINE part1 == [i \in own |-> Place(i)]
  <2>1. part1 \in Surjection(own, parts)
    BY DEF Surjection
  <2> QED
    BY <1>1, <2>1, FS_Surjection
<1>4. IsFiniteSet(Zone!OwnRows(s))
  BY <1>2, <1>3, FS_UNION DEF Zone!OwnRows
<1>5. IsFiniteSet(1 .. count)
  BY <1>4, SameSizes, FS_CardinalityType, FS_Interval
<1>6. CASE Zone!OwnRows(s) = {}
  <2>1. file' = [file EXCEPT ![s] = <<>>]
    BY <1>6 DEF Zone!DumpRrs, Zone!Die, Zone!Fails, Zone!Ends
  <2> QED
    BY <2>1, NoRows DEF Zone!StoreFields
<1>7. CASE Zone!OwnRows(s) # {}
  <2>1. PICK lines : DOMAIN lines = 1 .. count /\ file' = [file EXCEPT ![s] = lines]
    BY <1>7 DEF Zone!DumpRrs
  <2> QED
    BY <1>5, <2>1, SameSizes DEF Zone!StoreFields
<1> QED
  BY <1>6, <1>7

\* The zones that are given, in turn
LEMMA GivenInTurn ==
  LET o == Zone!SetToSeq(DOMAIN Given)
      n == Zone!Cardinality(DOMAIN Given)
  IN  /\ n \in Nat /\ o \in [1 .. n -> DOMAIN Given]
      /\ \A i, j \in 1 .. n : o[i] = o[j] => i = j
      /\ \A g \in DOMAIN Given : \E i \in 1 .. n : o[i] = g
<1> DEFINE o == Zone!SetToSeq(DOMAIN Given)
           n == Zone!Cardinality(DOMAIN Given)
<1>1. n \in Nat /\ \E f \in [1 .. n -> DOMAIN Given] : Zone!IsInjective(f)
  BY ZoneAssumed, SameSizes, FS_CardinalityType
     DEF ExistsBijection, Bijection, Injection, IsInjective, Zone!IsInjective
<1>2. o \in [1 .. n -> DOMAIN Given] /\ Zone!IsInjective(o)
  BY <1>1 DEF Zone!SetToSeq
<1> HIDE DEF o
<1>3. Cardinality(1 .. n) = Cardinality(DOMAIN Given)
  BY <1>1, SameSizes, FS_Interval
<1>4. o \in Injection(1 .. n, DOMAIN Given)
  BY <1>2 DEF Injection, IsInjective, Zone!IsInjective
<1>5. o \in Surjection(1 .. n, DOMAIN Given)
  BY <1>3, <1>4, ZoneAssumed, FS_Injection
<1> QED
  BY <1>1, <1>2, <1>5 DEF Zone!IsInjective, Surjection, o

\* The tables at first
LEMMA TablesStart ==
  ASSUME Zone!Init
  PROVE  /\ serial \in Nat /\ DOMAIN zones = 1 .. serial /\ DOMAIN records = 1 .. serial
         /\ \A i \in DOMAIN zones :
                /\ zones[i].origin \in DOMAIN Given
                /\ records[i] = Zone!Rows(Given[zones[i].origin].lines)
         /\ \A i, j \in DOMAIN zones : zones[i].origin = zones[j].origin => i = j
         /\ \A g \in DOMAIN Given : \E i \in DOMAIN zones : zones[i].origin = g
<1> DEFINE o == Zone!SetToSeq(DOMAIN Given)
           n == Zone!Cardinality(DOMAIN Given)
<1>1. /\ n \in Nat /\ o \in [1 .. n -> DOMAIN Given]
      /\ \A i, j \in 1 .. n : o[i] = o[j] => i = j
      /\ \A g \in DOMAIN Given : \E i \in 1 .. n : o[i] = g
  BY GivenInTurn
<1>2. /\ zones = [i \in DOMAIN o |-> [origin |-> o[i], uid |-> Given[o[i]].uid]]
      /\ records = [i \in DOMAIN o |-> Zone!Rows(Given[o[i]].lines)]
      /\ serial = n
  BY DEF Zone!Init
<1> HIDE DEF o, n
<1> QED
  BY <1>1, <1>2

LEMMA StoreFieldsStart ==
  ASSUME Zone!Init
  PROVE  Zone!StoreFields
<1>1. /\ serial \in Nat
      /\ DOMAIN zones \subseteq 1 .. serial /\ DOMAIN records = DOMAIN zones
  BY TablesStart
<1>2. \A i \in DOMAIN zones : Zone!ASequence(records[i])
  BY TablesStart, RowsInTurn, ZoneAssumed
<1>3. /\ pc \in [Session -> {"idle", "import", "unlink"}
                    \cup Zone!Early \cup Zone!Emptying \cup Zone!Filling]
      /\ DOMAIN task = Session /\ zid \in [Session -> 0 .. serial] /\ changed \in [Session -> BOOLEAN]
      /\ DOMAIN file = Session /\ DOMAIN left = Session /\ DOMAIN meant = Session
      /\ DOMAIN tmp = Origin /\ DOMAIN kept = Origin
  BY <1>1 DEF Zone!Init
<1>4. /\ \A s \in Session : ~changed[s] /\ meant[s] = <<>>
      /\ \A s \in Session : Zone!IsFiniteSet(DOMAIN file[s]) /\ Zone!ASequence(left[s])
      /\ Zone!Running = {}
      /\ \A z \in Origin : tmp[z] = None
  BY NoRows DEF Zone!Init
<1> QED
  BY <1>1, <1>2, <1>3, <1>4 DEF Zone!StoreFields

\* Between commands a zone holds what was kept, and the one of a name is alone.
LEMMA ZoneStarts ==
  ASSUME Zone!Init
  PROVE  Zone!ZoneInv
<1>1. Zone!StoreFields
  BY StoreFieldsStart
<1>2. Zone!Running = {} /\ Zone!FewInv /\ Zone!SessionInv
  BY TablesStart DEF Zone!Init, Zone!FewInv, Zone!SessionInv
<1>3. ASSUME NEW o \in Origin
      PROVE  Zone!Content(o) = kept[o]
  <2>1. kept[o] = IF o \in DOMAIN Given THEN Zone!Range(Zone!Rows(Given[o].lines)) ELSE {}
    BY DEF Zone!Init
  <2>2. CASE o \in DOMAIN Given
    <3>1. PICK i \in DOMAIN zones : Zone!Zones(o) = {i}
      BY <2>2, TablesStart
    <3>2. records[i] = Zone!Rows(Given[o].lines)
      BY <3>1, TablesStart
    <3>3. Zone!Content(o) = Zone!Range(records[i])
      BY <3>1 DEF Zone!Content
    <3> QED
      BY <2>1, <2>2, <3>2, <3>3
  <2>3. CASE o \notin DOMAIN Given
    BY <2>1, <2>3, TablesStart DEF Zone!Content
  <2> QED
    BY <2>2, <2>3
<1>4. Zone!KeptInv
  BY <1>3 DEF Zone!KeptInv
<1> QED
  BY <1>1, <1>2, <1>4 DEF Zone!ZoneInv

\* What the end of a command leaves
LEMMA EndFields ==
  ASSUME Zone!StoreFields, NEW s \in Zone!Running, Zone!Fails(s) \/ Zone!Exit(s),
         UNCHANGED <<zones, records, serial>>,
         tmp' \in {tmp, [tmp EXCEPT ![Zone!On(s)] = None]}
  PROVE  Zone!StoreFields'
<1>1. /\ pc' = [pc EXCEPT ![s] = "idle"]
      /\ task' = [task EXCEPT ![s] = Zone!NoTask]
      /\ file' = [file EXCEPT ![s] = <<>>]
      /\ zid' = [zid EXCEPT ![s] = 0]
      /\ left' = [left EXCEPT ![s] = <<>>]
      /\ changed' = [changed EXCEPT ![s] = FALSE]
      /\ meant' = [meant EXCEPT ![s] = <<>>]
      /\ DOMAIN kept' = Origin
  BY DEF Zone!Fails, Zone!Exit, Zone!Ends, Zone!StoreFields
<1>2. \A r \in Session :
        /\ Zone!IsFiniteSet(DOMAIN file'[r]) /\ Zone!ASequence(left'[r])
        /\ IF pc'[r] # "idle" THEN task'[r] \in Zone!Tasks ELSE ~changed'[r] /\ meant'[r] = <<>>
  BY <1>1, NoRows DEF Zone!StoreFields
<1>3. \A o \in Origin : tmp'[o] # None => Zone!IsFiniteSet(DOMAIN tmp'[o])
  BY DEF Zone!StoreFields
<1> QED
  BY <1>1, <1>2, <1>3 DEF Zone!StoreFields

\* A step of a command that has begun
Work(s) ==
  \/ Zone!Test(s) \/ Zone!DumpRrs(s) \/ Zone!Open(s) \/ Zone!Edit(s) \/ Zone!EditFails(s)
  \/ Zone!Select(s) \/ Zone!DeleteRecords(s) \/ Zone!DeleteZone(s)
  \/ Zone!OpenImport(s) \/ Zone!AddZone(s) \/ Zone!InsertZone(s) \/ Zone!SelectId(s)
  \/ Zone!AddRr(s) \/ Zone!UpdateSerial(s) \/ Zone!Unlink(s)
  \/ Zone!Killed(s)

\* Going on without a change but of the zone's id
LEMMA MoveFields ==
  ASSUME Zone!StoreFields, NEW s \in Zone!Running,
         NEW w \in {"import", "unlink"} \cup Zone!Early \cup Zone!Emptying \cup Zone!Filling,
         pc' = [pc EXCEPT ![s] = w],
         zid' = zid \/ \E i \in DOMAIN zones : zid' = [zid EXCEPT ![s] = i],
         UNCHANGED <<zones, records, serial, tmp, task, file, left, changed, kept>>,
         meant' \in {meant, [meant EXCEPT ![s] = <<{}>>]}
  PROVE  Zone!StoreFields'
<1>1. zid' \in [Session -> 0 .. serial]
  <2>1. zid \in [Session -> 0 .. serial] /\ DOMAIN zones \subseteq 0 .. serial
    BY DEF Zone!StoreFields
  <2> QED
    BY <2>1
<1>2. w # "idle"
  BY DEF Zone!Early, Zone!Emptying, Zone!Filling
<1>3. /\ pc' \in [Session -> {"idle", "import", "unlink"}
                     \cup Zone!Early \cup Zone!Emptying \cup Zone!Filling]
      /\ \A r \in Session : pc'[r] # "idle" <=> pc[r] # "idle"
      /\ \A r \in Session : pc[r] = "idle" => meant'[r] = meant[r]
  BY <1>2 DEF Zone!StoreFields
<1> QED
  BY <1>1, <1>3 DEF Zone!StoreFields

LEMMA StoreFieldsStep ==
  ASSUME Zone!StoreFields, NEW s \in Session, Work(s)
  PROVE  Zone!StoreFields'
<1> USE DEF Zone!Early, Zone!Emptying, Zone!Filling, Zone!AfterDelete, Zone!Die
<1>1. CASE Zone!Test(s)
  <2>1. CASE Zone!Fails(s)
    BY <1>1, <2>1, EndFields DEF Zone!Test
  <2>2. CASE ~Zone!Fails(s)
    <3>1. /\ pc[s] = "test" /\ \E w \in {"dump", "open"} : pc' = [pc EXCEPT ![s] = w]
          /\ UNCHANGED <<zones, records, serial, tmp, task, file, zid, left, changed, kept, meant>>
      BY <1>1, <2>2 DEF Zone!Test
    <3> QED
      BY <3>1, MoveFields
  <2> QED
    BY <2>1, <2>2
<1>2. CASE Zone!DumpRrs(s)
  <2>1. CASE Zone!Fails(s)
    BY <1>2, <2>1, EndFields DEF Zone!DumpRrs
  <2>2. CASE ~Zone!Fails(s)
    <3>1. PICK lines : file' = [file EXCEPT ![s] = lines]
      BY <1>2, <2>2 DEF Zone!DumpRrs
    <3>2. \A r \in Session : Zone!IsFiniteSet(DOMAIN file'[r])
      BY <1>2, DumpEnds DEF Zone!DumpRrs
    <3>3. /\ pc[s] = "dump" /\ pc' = [pc EXCEPT ![s] = "open"]
          /\ UNCHANGED <<zones, records, serial, task, zid, left, changed, meant, tmp, kept>>
      BY <1>2, <2>2 DEF Zone!DumpRrs
    <3> QED
      BY <3>1, <3>2, <3>3 DEF Zone!StoreFields
  <2> QED
    BY <2>1, <2>2
<1>3. CASE Zone!Open(s) \/ Zone!Edit(s)
  <2>1. \A o \in Origin : tmp'[o] # None => Zone!IsFiniteSet(DOMAIN tmp'[o])
    BY <1>3, ZoneAssumed DEF Zone!Open, Zone!Edit, Zone!StoreFields
  <2>2. /\ pc[s] # "idle" /\ \E w \in {"edit", "select", "import"} : pc' = [pc EXCEPT ![s] = w]
        /\ UNCHANGED <<zones, records, serial, task, file, zid, left, changed, meant, kept>>
        /\ DOMAIN tmp' = DOMAIN tmp
    BY <1>3 DEF Zone!Open, Zone!Edit
  <2> QED
    BY <2>1, <2>2 DEF Zone!StoreFields
<1>4. CASE Zone!EditFails(s)
  BY <1>4, EndFields DEF Zone!EditFails
<1>5. CASE Zone!Select(s)
  <2>1. zid' = zid \/ \E i \in DOMAIN zones : zid' = [zid EXCEPT ![s] = i]
    BY <1>5 DEF Zone!Select, Zone!Own, Zone!StoreFields
  <2>2. /\ pc[s] # "idle" /\ \E w \in {"unlink", "import", "records"} : pc' = [pc EXCEPT ![s] = w]
        /\ meant' \in {meant, [meant EXCEPT ![s] = <<{}>>]}
        /\ UNCHANGED <<zones, records, serial, tmp, task, file, left, changed, kept>>
    BY <1>5 DEF Zone!Select
  <2> QED
    BY <2>1, <2>2, MoveFields
<1>6. CASE Zone!DeleteRecords(s)
  BY <1>6, NoRows DEF Zone!DeleteRecords, Zone!StoreFields
<1>7. CASE Zone!DeleteZone(s)
  BY <1>7 DEF Zone!DeleteZone, Zone!Restrict, Zone!StoreFields
<1>8. CASE Zone!OpenImport(s)
  <2>1. CASE Zone!Fails(s)
    BY <1>8, <2>1, EndFields DEF Zone!OpenImport
  <2>2. CASE ~Zone!Fails(s)
    <3>1. PICK lines :
            /\ lines = file[s] \/ (lines = tmp[task[s].origin] /\ tmp[task[s].origin] # None)
            /\ left' = [left EXCEPT ![s] = Zone!Rows(lines)]
            /\ \E m : meant' = [meant EXCEPT ![s] = m]
      BY <1>8, <2>2 DEF Zone!OpenImport
    <3>2. /\ pc[s] = "import" /\ pc' = [pc EXCEPT ![s] = "add"]
          /\ UNCHANGED <<zones, records, serial, task, file, zid, changed, tmp, kept>>
      BY <1>8, <2>2 DEF Zone!OpenImport
    <3>3. task[s].origin \in Origin
      BY <3>2 DEF Zone!StoreFields, Zone!Tasks
    <3>4. Zone!ASequence(Zone!Rows(lines))
      BY <3>1, <3>3, RowsInTurn DEF Zone!StoreFields
    <3> QED
      BY <3>1, <3>2, <3>4 DEF Zone!StoreFields
  <2> QED
    BY <2>1, <2>2
<1>9. CASE Zone!AddZone(s)
  <2>1. CASE Zone!Fails(s)
    BY <1>9, <2>1, EndFields DEF Zone!AddZone
  <2>2. CASE ~Zone!Fails(s)
    <3>1. /\ pc[s] = "add" /\ pc' = [pc EXCEPT ![s] = "insert"]
          /\ UNCHANGED <<zones, records, serial, tmp, task, file, zid, left, changed, kept, meant>>
      BY <1>9, <2>2 DEF Zone!AddZone
    <3> QED
      BY <3>1, MoveFields
  <2> QED
    BY <2>1, <2>2
<1>10. CASE Zone!InsertZone(s)
  BY <1>10, NoRows DEF Zone!InsertZone, Zone!StoreFields
<1>11. CASE Zone!SelectId(s)
  <2>1. CASE Zone!Fails(s)
    BY <1>11, <2>1, EndFields DEF Zone!SelectId
  <2>2. CASE ~Zone!Fails(s)
    <3>1. /\ pc[s] = "id" /\ pc' = [pc EXCEPT ![s] = "rows"]
          /\ \E i \in DOMAIN zones : zid' = [zid EXCEPT ![s] = i]
          /\ UNCHANGED <<zones, records, serial, tmp, task, file, left, changed, kept, meant>>
      BY <1>11, <2>2 DEF Zone!SelectId
    <3> QED
      BY <3>1, MoveFields
  <2> QED
    BY <2>1, <2>2
<1>12. CASE Zone!AddRr(s)
  <2>1. CASE Zone!Fails(s)
    <3>1. pc[s] = "rows" /\ pc'[s] = "idle"
      BY <1>12, <2>1 DEF Zone!AddRr, Zone!Fails, Zone!Ends, Zone!StoreFields
    <3>2. UNCHANGED <<zones, records, serial, tmp>>
      BY <1>12, <3>1 DEF Zone!AddRr
    <3> QED
      BY <2>1, <3>1, <3>2, EndFields
  <2>2. CASE ~Zone!Fails(s)
    <3>1. /\ records' = [records EXCEPT ![zid[s]] = Append(@, Head(left[s]))]
          /\ left' = [left EXCEPT ![s] = Tail(@)]
          /\ left[s] # <<>> /\ zid[s] \in DOMAIN zones
          /\ UNCHANGED <<pc, task, file, zid, changed, meant, zones, serial, tmp, kept>>
      BY <1>12, <2>2 DEF Zone!AddRr, Zone!NotStored
    <3> QED
      BY <3>1, AppendGrows, TailShrinks DEF Zone!StoreFields
  <2> QED
    BY <2>1, <2>2
<1>13. CASE Zone!UpdateSerial(s)
  BY <1>13 DEF Zone!UpdateSerial, Zone!StoreFields
<1>14. CASE Zone!Unlink(s)
  BY <1>14, EndFields DEF Zone!Unlink
<1>15. CASE Zone!Killed(s)
  BY <1>15, EndFields DEF Zone!Killed
<1> QED
  BY <1>1, <1>2, <1>3, <1>4, <1>5, <1>6, <1>7, <1>8, <1>9, <1>10, <1>11, <1>12, <1>13, <1>14,
     <1>15 DEF Work

-----------------------------------------------------------------------------
(* What a command does on one zone leaves the others as they are.           *)

\* It has its own session, works on one zone, and an id is never used again.
SessionFrame(s) ==
  /\ s \in Zone!Running /\ (pc'[s] # "idle" => task'[s] = task[s])
  /\ \A r \in Session \ {s} :
        /\ pc'[r] = pc[r] /\ task'[r] = task[r] /\ zid'[r] = zid[r]
        /\ left'[r] = left[r] /\ changed'[r] = changed[r] /\ meant'[r] = meant[r]
  /\ mixed' = mixed
  /\ \A o \in Origin \ {Zone!On(s)} : kept'[o] = kept[o] /\ (o \in spoilt' <=> o \in spoilt)

TableFrame(s) ==
  /\ \A i \in DOMAIN zones :
        zones[i].origin # Zone!On(s) => i \in DOMAIN zones' /\ records'[i] = records[i]
  /\ \A i \in DOMAIN zones' :
        \/ i \in DOMAIN zones /\ zones'[i] = zones[i]
        \/ i = serial + 1 /\ pc[s] = "insert" /\ zones'[i].origin = Zone!On(s)

LEMMA WorkInItsSession ==
  ASSUME Zone!StoreFields, NEW s \in Session, Work(s)
  PROVE  SessionFrame(s)
<1> USE DEF SessionFrame, Zone!StoreFields
<1>1. s \in Zone!Running
  BY DEF Work, Zone!Test, Zone!DumpRrs, Zone!Open, Zone!Edit, Zone!EditFails, Zone!Select,
     Zone!DeleteRecords, Zone!DeleteZone, Zone!OpenImport, Zone!AddZone, Zone!InsertZone,
     Zone!SelectId, Zone!AddRr, Zone!UpdateSerial, Zone!Unlink, Zone!Killed
<1>2. CASE Zone!Fails(s)
  BY <1>1, <1>2 DEF Zone!Fails, Zone!Ends
<1>3. CASE Zone!Unlink(s)
  BY <1>1, <1>3 DEF Zone!Unlink, Zone!Exit, Zone!Ends
<1>4. CASE ~Zone!Fails(s) /\ (Zone!Test(s) \/ Zone!DumpRrs(s) \/ Zone!Open(s) \/ Zone!Edit(s))
  BY <1>1, <1>4 DEF Zone!Test, Zone!DumpRrs, Zone!Open, Zone!Edit, Zone!Die
<1>5. CASE Zone!Select(s) \/ Zone!DeleteRecords(s) \/ Zone!DeleteZone(s)
  BY <1>1, <1>5 DEF Zone!Select, Zone!DeleteRecords, Zone!DeleteZone
<1>6. CASE ~Zone!Fails(s) /\ (Zone!OpenImport(s) \/ Zone!AddZone(s) \/ Zone!InsertZone(s))
  BY <1>1, <1>6 DEF Zone!OpenImport, Zone!AddZone, Zone!InsertZone, Zone!Die
<1>7. CASE ~Zone!Fails(s) /\ (Zone!SelectId(s) \/ Zone!AddRr(s) \/ Zone!UpdateSerial(s))
  BY <1>1, <1>7 DEF Zone!SelectId, Zone!AddRr, Zone!UpdateSerial, Zone!Die
<1> QED
  BY <1>2, <1>3, <1>4, <1>5, <1>6, <1>7 DEF Work, Zone!EditFails, Zone!Killed, Zone!Die

LEMMA WorkOnItsZone ==
  ASSUME Zone!StoreFields, Zone!SessionInv, NEW s \in Session, Work(s)
  PROVE  TableFrame(s)
<1> USE DEF TableFrame, Zone!StoreFields
<1>1. CASE Zone!DeleteRecords(s)
  BY <1>1 DEF Zone!DeleteRecords, Zone!SessionInv, Zone!IdKnown, Zone!Emptying
<1>2. CASE Zone!DeleteZone(s)
  BY <1>2 DEF Zone!DeleteZone, Zone!Restrict, Zone!SessionInv, Zone!IdKnown, Zone!Emptying
<1>3. CASE Zone!InsertZone(s)
  BY <1>3 DEF Zone!InsertZone
<1>4. CASE Zone!AddRr(s)
  BY <1>4 DEF Zone!AddRr, Zone!NotStored, Zone!SessionInv, Zone!IdKnown
<1>5. CASE UNCHANGED <<zones, records>>
  BY <1>5
<1> QED
  BY <1>1, <1>2, <1>3, <1>4, <1>5
     DEF Work, Zone!Test, Zone!DumpRrs, Zone!Open, Zone!Edit, Zone!EditFails, Zone!Select,
     Zone!OpenImport, Zone!AddZone, Zone!SelectId, Zone!UpdateSerial, Zone!Unlink, Zone!Killed

LEMMA OtherZones ==
  ASSUME Zone!StoreFields, NEW s \in Session, TableFrame(s), NEW o, o # Zone!On(s)
  PROVE  /\ Zone!Zones(o)' = Zone!Zones(o)
         /\ \A i \in Zone!Zones(o) : records'[i] = records[i] /\ zones'[i] = zones[i]
         /\ Zone!Content(o)' = Zone!Content(o)
<1>1. /\ Zone!Zones(o)' = Zone!Zones(o)
      /\ \A i \in Zone!Zones(o) : records'[i] = records[i] /\ zones'[i] = zones[i]
  BY DEF TableFrame, Zone!StoreFields
<1>2. Zone!Content(o)' = Zone!Content(o)
  <2> DEFINE Z == Zone!Zones(o)
  <2>1. Zone!Content(o)' = UNION {Zone!Range(records'[i]) : i \in Z}
    BY <1>1 DEF Zone!Content, Zone!Range
  <2> QED
    BY <1>1, <2>1 DEF Zone!Content
<1> QED
  BY <1>1, <1>2

LEMMA FewStep ==
  ASSUME Zone!StoreFields, Zone!FewInv, Zone!SessionInv, NEW s \in Session, Work(s)
  PROVE  Zone!FewInv'
<1>1. SessionFrame(s) /\ TableFrame(s)
  BY WorkInItsSession, WorkOnItsZone
<1>2. ASSUME NEW q \in Zone!Running', NEW r \in Zone!Running', r # q, Zone!On(r)' = Zone!On(q)'
      PROVE  Zone!On(q)' \in mixed'
  BY <1>1, <1>2 DEF Zone!FewInv, SessionFrame
<1>3. ASSUME NEW i \in DOMAIN zones', NEW j \in DOMAIN zones', i # j,
             zones'[i].origin = zones'[j].origin
      PROVE  zones'[i].origin \in mixed'
  <2>1. mixed' = mixed
    BY <1>1 DEF SessionFrame
  <2>2. CASE {i, j} \subseteq DOMAIN zones
    BY <1>1, <1>3, <2>1, <2>2 DEF Zone!FewInv, TableFrame, Zone!StoreFields
  <2>3. CASE ~({i, j} \subseteq DOMAIN zones)
    <3>1. pc[s] = "insert" /\ s \in Zone!Running
      BY <1>1, <2>3 DEF TableFrame
    <3>2. Zone!Zones(Zone!On(s)) # {} /\ zones'[i].origin = Zone!On(s)
      BY <1>1, <1>3, <2>3 DEF TableFrame, Zone!StoreFields
    <3> QED
      BY <2>1, <3>1, <3>2 DEF Zone!SessionInv, Zone!Progress
  <2> QED
    BY <2>2, <2>3
<1> QED
  BY <1>2, <1>3 DEF Zone!FewInv

LEMMA OthersGoOn ==
  ASSUME Zone!StoreFields, Zone!FewInv, Zone!SessionInv, NEW s \in Session, Work(s),
         NEW r \in Zone!Running', r # s
  PROVE  Zone!IdKnown(r)' /\ Zone!Accounted(r)' /\ (Zone!On(r)' \notin mixed' => Zone!Progress(r)')
<1>1. SessionFrame(s) /\ TableFrame(s)
  BY WorkInItsSession, WorkOnItsZone
<1>2. /\ r \in Zone!Running /\ s \in Zone!Running
      /\ Zone!IdKnown(r) /\ Zone!Accounted(r) /\ (Zone!On(r) \notin mixed => Zone!Progress(r))
      /\ pc'[r] = pc[r] /\ task'[r] = task[r] /\ zid'[r] = zid[r]
      /\ left'[r] = left[r] /\ changed'[r] = changed[r] /\ meant'[r] = meant[r]
      /\ mixed' = mixed
  BY <1>1 DEF SessionFrame, Zone!SessionInv
<1>3. Zone!IdKnown(r)'
  <2>1. zid[r] \in DOMAIN zones' => zid[r] \in DOMAIN zones /\ zones'[zid[r]] = zones[zid[r]]
    BY <1>1, <1>2 DEF TableFrame, Zone!StoreFields
  <2> QED
    BY <1>2, <2>1 DEF Zone!IdKnown
<1>4. Zone!Accounted(r)'
  BY <1>2 DEF Zone!Accounted, Zone!Range
<1>5. ASSUME Zone!On(r) \notin mixed
      PROVE  Zone!Progress(r)'
  <2>1. PICK o : o = Zone!On(r)
    OBVIOUS
  <2>2. o # Zone!On(s) /\ o = Zone!On(r)'
    BY <1>2, <1>5, <2>1 DEF Zone!FewInv
  <2>3. /\ Zone!Zones(o)' = Zone!Zones(o)
        /\ \A i \in Zone!Zones(o) : records'[i] = records[i] /\ zones'[i] = zones[i]
        /\ Zone!Content(o)' = Zone!Content(o)
    BY <1>1, <2>2, OtherZones, SMTT(30)
  <2>4. Zone!Progress(r)
    BY <1>2, <1>5
  <2>5. pc[r] \in Zone!Emptying \cup {"rows"} => zid[r] \in Zone!Zones(o)
    BY <1>2, <2>1, <2>4 DEF Zone!Progress, Zone!IdKnown, Zone!Emptying
  <2> QED
    BY <1>2, <2>1, <2>2, <2>3, <2>4, <2>5 DEF Zone!Progress, Zone!Emptying, Zone!Range
<1> QED
  BY <1>2, <1>3, <1>4, <1>5

\* The one zone of a command that is alone
LEMMA OneZone ==
  ASSUME Zone!FewInv, NEW s \in Session, Zone!On(s) \notin mixed,
         NEW i \in Zone!Zones(Zone!On(s))
  PROVE  /\ Zone!Zones(Zone!On(s)) = {i}
         /\ Zone!Content(Zone!On(s)) = Zone!Range(records[i])
<1>1. Zone!Zones(Zone!On(s)) = {i}
  BY DEF Zone!FewInv
<1> QED
  BY <1>1 DEF Zone!Content

LEMMA ItGoesOn ==
  ASSUME Zone!StoreFields, Zone!FewInv, Zone!SessionInv, NEW s \in Session, Work(s),
         s \in Zone!Running'
  PROVE  Zone!IdKnown(s)' /\ Zone!Accounted(s)' /\ (Zone!On(s)' \notin mixed' => Zone!Progress(s)')
<1> USE DEF Zone!StoreFields, Zone!AfterDelete, Zone!Early, Zone!Emptying, Zone!Filling
<1>1. /\ s \in Zone!Running /\ mixed' = mixed /\ task'[s] = task[s]
      /\ Zone!IdKnown(s) /\ Zone!Accounted(s) /\ (Zone!On(s) \notin mixed => Zone!Progress(s))
  BY WorkInItsSession DEF SessionFrame, Zone!SessionInv
<1>2. ~Zone!Fails(s) /\ ~Zone!Exit(s)
  BY DEF Zone!Fails, Zone!Exit, Zone!Ends
<1>3. CASE Zone!Test(s) \/ Zone!DumpRrs(s) \/ Zone!Open(s) \/ Zone!Edit(s)
  <2>1. /\ pc[s] \in {"test", "dump", "open", "edit"}
        /\ pc'[s] \in {"dump", "open", "edit", "select", "import"}
        /\ changed' = changed /\ meant' = meant
    BY <1>2, <1>3 DEF Zone!Test, Zone!DumpRrs, Zone!Open, Zone!Edit, Zone!Die
  <2> QED
    BY <1>1, <2>1 DEF Zone!IdKnown, Zone!Accounted, Zone!Progress
<1>4. CASE Zone!Select(s)
  <2>1. CASE Zone!Own(Zone!On(s), task[s].user) = {}
    BY <1>1, <1>4, <2>1 DEF Zone!Select, Zone!IdKnown, Zone!Accounted, Zone!Progress
  <2>2. CASE Zone!Own(Zone!On(s), task[s].user) # {}
    <3>1. PICK i \in Zone!Own(Zone!On(s), task[s].user) : zid' = [zid EXCEPT ![s] = i]
      BY <1>4, <2>2 DEF Zone!Select
    <3>2. /\ pc'[s] = "records" /\ meant'[s] = <<{}>> /\ zid'[s] = i
          /\ UNCHANGED <<zones, records>>
      BY <1>4, <2>2, <3>1 DEF Zone!Select
    <3> QED
      BY <1>1, <3>1, <3>2 DEF Zone!Own, Zone!IdKnown, Zone!Accounted, Zone!Progress
  <2> QED
    BY <2>1, <2>2
<1>5. CASE Zone!DeleteRecords(s)
  BY <1>1, <1>5 DEF Zone!DeleteRecords, Zone!IdKnown, Zone!Accounted, Zone!Progress
<1>6. CASE Zone!DeleteZone(s)
  <2>1. /\ pc[s] = "zone" /\ pc'[s] \in {"unlink", "import"} /\ meant' = meant
        /\ zones' = Zone!Restrict(zones, DOMAIN zones \ {i \in DOMAIN zones : i = zid[s] /\ records[i] = <<>>})
    BY <1>6 DEF Zone!DeleteZone
  <2>2. ASSUME Zone!On(s) \notin mixed
        PROVE  Zone!Content(Zone!On(s))' = {}
    <3>1. zid[s] \in Zone!Zones(Zone!On(s)) /\ records[zid[s]] = <<>>
      BY <1>1, <2>1, <2>2 DEF Zone!IdKnown, Zone!Progress
    <3>2. Zone!Zones(Zone!On(s)) = {zid[s]}
      BY <2>2, <3>1, OneZone
    <3>3. Zone!Zones(Zone!On(s))' = {}
      BY <1>1, <2>1, <3>1, <3>2 DEF Zone!Restrict
    <3> QED
      BY <3>3 DEF Zone!Content
  <2>3. meant'[s] # <<>> /\ meant'[s][1] = {}
    BY <1>1, <2>1 DEF Zone!Accounted
  <2>4. Zone!IdKnown(s)' /\ Zone!Accounted(s)'
    BY <2>1, <2>3 DEF Zone!IdKnown, Zone!Accounted
  <2>5. ASSUME Zone!On(s) \notin mixed
        PROVE  Zone!Progress(s)'
    BY <2>1, <2>2, <2>3, <2>5 DEF Zone!Progress
  <2> QED
    BY <1>1, <2>4, <2>5
<1>7. CASE Zone!OpenImport(s)
  <2>1. /\ pc'[s] = "add"
        /\ \E rows : left'[s] = rows /\ meant'[s] = <<Zone!Range(rows)>>
    BY <1>2, <1>7 DEF Zone!OpenImport, Zone!Die
  <2> QED
    BY <1>1, <2>1 DEF Zone!IdKnown, Zone!Accounted, Zone!Progress
<1>8. CASE Zone!AddZone(s)
  <2>1. /\ pc[s] = "add" /\ pc'[s] = "insert" /\ Zone!Zones(Zone!On(s)) = {}
        /\ UNCHANGED <<zones, records, left, meant>>
    BY <1>2, <1>8 DEF Zone!AddZone, Zone!Die
  <2> QED
    BY <1>1, <2>1 DEF Zone!IdKnown, Zone!Accounted, Zone!Progress, Zone!Range
<1>9. CASE Zone!InsertZone(s)
  <2>1. /\ pc[s] = "insert" /\ pc'[s] = "id" /\ changed'[s] /\ meant' = meant /\ left' = left
    BY <1>9 DEF Zone!InsertZone
  <2>2. Zone!IdKnown(s)' /\ Zone!Accounted(s)'
    BY <1>1, <2>1 DEF Zone!IdKnown, Zone!Accounted, Zone!Range
  <2>3. ASSUME Zone!On(s) \notin mixed
        PROVE  \A i \in Zone!Zones(Zone!On(s))' : records'[i] = <<>> /\ zones'[i].uid = task[s].user
    <3>1. Zone!Zones(Zone!On(s)) = {}
      BY <1>1, <2>1, <2>3 DEF Zone!Progress
    <3> QED
      BY <1>1, <1>9, <3>1 DEF Zone!InsertZone
  <2> QED
    BY <1>1, <2>1, <2>2, <2>3 DEF Zone!Progress
<1>10. CASE Zone!SelectId(s)
  <2>1. PICK i \in Zone!Zones(Zone!On(s)) : zid' = [zid EXCEPT ![s] = i]
    BY <1>2, <1>10 DEF Zone!SelectId, Zone!Die
  <2>2. /\ pc[s] = "id" /\ pc'[s] = "rows" /\ zid'[s] = i
        /\ UNCHANGED <<zones, records, left, changed, meant>>
    BY <1>2, <1>10, <2>1 DEF Zone!SelectId, Zone!Die
  <2>3. Zone!IdKnown(s)' /\ Zone!Accounted(s)'
    BY <1>1, <2>1, <2>2 DEF Zone!IdKnown, Zone!Accounted
  <2>4. ASSUME Zone!On(s) \notin mixed
        PROVE  Zone!Progress(s)'
    <3>1. /\ records[i] = <<>> /\ Zone!Range(left[s]) = meant[s][1]
          /\ \A j \in Zone!Zones(Zone!On(s)) : zones[j].uid = task[s].user
      BY <1>1, <2>1, <2>2, <2>4 DEF Zone!Progress, Zone!Accounted
    <3>2. Zone!Range(records[i]) \cup Zone!Range(left[s]) = meant[s][1]
      BY <3>1, NoRows
    <3> QED
      BY <1>1, <2>1, <2>2, <3>1, <3>2 DEF Zone!Progress, Zone!Range
  <2> QED
    BY <1>1, <2>3, <2>4
<1>11. CASE Zone!AddRr(s)
  <2>1. /\ pc[s] = "rows" /\ pc' = pc /\ left[s] # <<>> /\ zid[s] \in DOMAIN zones
        /\ records' = [records EXCEPT ![zid[s]] = Append(@, Head(left[s]))]
        /\ left'[s] = Tail(left[s])
        /\ UNCHANGED <<zones, zid, changed, meant>>
    BY <1>2, <1>11 DEF Zone!AddRr, Zone!NotStored, Zone!Die
  <2>2. Zone!IdKnown(s)' /\ Zone!Accounted(s)'
    BY <1>1, <2>1 DEF Zone!IdKnown, Zone!Accounted
  <2>3. Zone!Range(records'[zid[s]]) \cup Zone!Range(left'[s])
          = Zone!Range(records[zid[s]]) \cup Zone!Range(left[s])
    <3>1. Zone!ASequence(records[zid[s]]) /\ Zone!ASequence(left[s])
      BY <2>1
    <3>2. Zone!Range(records'[zid[s]]) = Zone!Range(records[zid[s]]) \cup {Head(left[s])}
      BY <2>1, <3>1, AppendGrows
    <3>3. Zone!Range(left[s]) = {Head(left[s])} \cup Zone!Range(left'[s])
      BY <2>1, <3>1, TailShrinks
    <3> QED
      BY <3>2, <3>3
  <2> QED
    BY <1>1, <2>1, <2>2, <2>3 DEF Zone!Progress
<1>12. CASE Zone!UpdateSerial(s)
  <2>1. /\ pc[s] = "rows" /\ pc'[s] = "unlink" /\ left[s] = <<>>
        /\ UNCHANGED <<zones, records, zid, changed, meant>>
    BY <1>12 DEF Zone!UpdateSerial
  <2>2. ASSUME Zone!On(s) \notin mixed
        PROVE  Zone!Content(Zone!On(s)) = meant[s][1]
    <3>1. zid[s] \in Zone!Zones(Zone!On(s))
      BY <1>1, <2>1, <2>2 DEF Zone!Progress, Zone!IdKnown
    <3>2. Zone!Content(Zone!On(s)) = Zone!Range(records[zid[s]])
      BY <2>2, <3>1, OneZone
    <3>3. Zone!Range(records[zid[s]]) \cup Zone!Range(left[s]) = meant[s][1]
      BY <1>1, <2>1, <2>2 DEF Zone!Progress
    <3>4. Zone!Range(left[s]) = {}
      BY <2>1, NoRows
    <3> QED
      BY <3>2, <3>3, <3>4
  <2>3. Zone!Content(Zone!On(s))' = Zone!Content(Zone!On(s))
    BY <1>1, <2>1 DEF Zone!Content, Zone!Range
  <2> QED
    BY <1>1, <2>1, <2>2, <2>3 DEF Zone!IdKnown, Zone!Accounted, Zone!Progress
<1> QED
  BY <1>2, <1>3, <1>4, <1>5, <1>6, <1>7, <1>8, <1>9, <1>10, <1>11, <1>12
     DEF Work, Zone!EditFails, Zone!Die, Zone!Unlink, Zone!Killed

LEMMA SessionStep ==
  ASSUME Zone!StoreFields, Zone!FewInv, Zone!SessionInv, NEW s \in Session, Work(s)
  PROVE  Zone!SessionInv'
BY OthersGoOn, ItGoesOn DEF Zone!SessionInv

LEMMA KeptStep ==
  ASSUME Zone!StoreFields, Zone!FewInv, Zone!SessionInv, Zone!KeptInv,
         NEW s \in Session, Work(s)
  PROVE  Zone!KeptInv'
<1>1. SessionFrame(s) /\ TableFrame(s)
  BY WorkInItsSession, WorkOnItsZone
<1>2. SUFFICES ASSUME NEW o \in Origin, o \notin spoilt', o \notin mixed,
                      \A r \in Zone!Running' : Zone!On(r)' = o => ~changed'[r]
               PROVE  Zone!Content(o)' = kept'[o]
  BY <1>1 DEF Zone!KeptInv, SessionFrame
<1>3. CASE o # Zone!On(s)
  <2>1. o \notin spoilt /\ kept'[o] = kept[o]
    BY <1>1, <1>2, <1>3 DEF SessionFrame
  <2>2. \A r \in Zone!Running : Zone!On(r) = o => ~changed[r]
    BY <1>1, <1>2, <1>3 DEF SessionFrame
  <2>3. Zone!Content(o)' = Zone!Content(o)
    BY <1>1, <1>3, OtherZones
  <2> QED
    BY <1>2, <2>1, <2>2, <2>3 DEF Zone!KeptInv
<1>4. CASE o = Zone!On(s)
  <2>1. \A r \in Zone!Running : Zone!On(r) = o => r = s
    BY <1>1, <1>2, <1>4 DEF Zone!FewInv, SessionFrame
  <2>2. ASSUME ~changed[s], o \notin spoilt
        PROVE  Zone!Content(o) = kept[o]
    BY <1>2, <2>1, <2>2 DEF Zone!KeptInv
  <2>3. ASSUME UNCHANGED <<zones, records>>
        PROVE  Zone!Content(o)' = Zone!Content(o)
    BY <2>3 DEF Zone!Content, Zone!Range
  <2>4. CASE Zone!Fails(s)
    <3>1. ~changed[s] /\ spoilt' = spoilt /\ kept' = kept
      BY <1>2, <1>4, <2>4 DEF Zone!Fails
    <3>2. UNCHANGED <<zones, records>>
      <4>1. pc'[s] = "idle" /\ pc[s] # "idle"
        BY <1>1, <2>4 DEF Zone!Fails, Zone!Ends, SessionFrame, Zone!StoreFields
      <4> QED
        BY <4>1 DEF Zone!StoreFields, Zone!AfterDelete,
           Work, Zone!Test, Zone!DumpRrs, Zone!Open, Zone!Edit, Zone!EditFails, Zone!Select,
           Zone!DeleteRecords, Zone!DeleteZone, Zone!OpenImport, Zone!AddZone, Zone!InsertZone,
           Zone!SelectId, Zone!AddRr, Zone!UpdateSerial, Zone!Unlink, Zone!Killed
    <3> QED
      BY <1>2, <2>2, <2>3, <3>1, <3>2
  <2>5. CASE Zone!Unlink(s)
    <3>1. pc[s] = "unlink" /\ Zone!Exit(s) /\ UNCHANGED <<zones, records>>
      BY <2>5 DEF Zone!Unlink
    <3>2. Zone!Accounted(s) /\ Zone!Progress(s)
      BY <1>1, <1>2, <1>4 DEF Zone!SessionInv, SessionFrame
    <3>3. CASE meant[s] = <<>>
      BY <1>2, <2>2, <2>3, <3>1, <3>2, <3>3 DEF Zone!Exit, Zone!Accounted
    <3>4. CASE meant[s] # <<>>
      <4>1. kept'[o] = meant[s][1]
        BY <1>2, <1>4, <3>1, <3>4 DEF Zone!Exit, Zone!StoreFields
      <4> QED
        BY <1>4, <2>3, <3>1, <3>2, <3>4, <4>1 DEF Zone!Progress
    <3> QED
      BY <3>3, <3>4
  <2>6. CASE ~Zone!Fails(s) /\ ~Zone!Unlink(s)
    <3>1. pc'[s] # "idle" /\ ~changed'[s]
      <4>1. pc'[s] # "idle"
        BY <1>1, <2>6 DEF SessionFrame, Zone!StoreFields, Zone!AfterDelete, Zone!Die,
           Work, Zone!Test, Zone!DumpRrs, Zone!Open, Zone!Edit, Zone!EditFails, Zone!Select,
           Zone!DeleteRecords, Zone!DeleteZone, Zone!OpenImport, Zone!AddZone, Zone!InsertZone,
           Zone!SelectId, Zone!AddRr, Zone!UpdateSerial, Zone!Killed
      <4> QED
        BY <1>1, <1>2, <1>4, <4>1 DEF SessionFrame
    <3>2. Zone!Accounted(s)
      BY <1>1 DEF Zone!SessionInv, SessionFrame
    <3>3. /\ ~Zone!DeleteRecords(s) /\ ~Zone!DeleteZone(s) /\ ~Zone!InsertZone(s) /\ ~Zone!AddRr(s)
      BY <2>6, <3>1, <3>2
         DEF Zone!Accounted, Zone!DeleteRecords, Zone!DeleteZone, Zone!InsertZone, Zone!AddRr,
             Zone!Die, Zone!StoreFields
    <3>4. UNCHANGED <<zones, records, changed, kept, spoilt>>
      BY <2>6, <3>3
         DEF Work, Zone!Test, Zone!DumpRrs, Zone!Open, Zone!Edit, Zone!EditFails, Zone!Select,
             Zone!OpenImport, Zone!AddZone, Zone!SelectId, Zone!UpdateSerial, Zone!Killed, Zone!Die
    <3> QED
      BY <1>2, <2>2, <2>3, <3>1, <3>4
  <2> QED
    BY <2>4, <2>5, <2>6
<1> QED
  BY <1>3, <1>4

\* A command that begins knows nothing yet, and a zone with a second one is mixed.
LEMMA ZoneBegins ==
  ASSUME Zone!ZoneInv, NEW s \in Session, NEW t \in Zone!Tasks, NEW f \in Files,
         Zone!Start(s, t, f)
  PROVE  Zone!ZoneInv'
<1> USE DEF Zone!ZoneInv
<1>1. Zone!StoreFields'
  BY ZoneAssumed DEF Zone!Start, Zone!StoreFields, Zone!Early
<1>2. /\ pc[s] = "idle" /\ pc' = [pc EXCEPT ![s] = pc'[s]] /\ pc'[s] \in {"test", "select"}
      /\ task' = [task EXCEPT ![s] = t] /\ ~changed[s] /\ meant[s] = <<>>
      /\ mixed \subseteq mixed' /\ (\A r \in Zone!Running : Zone!On(r) = t.origin => t.origin \in mixed')
      /\ UNCHANGED <<zones, records, serial, zid, left, changed, meant, kept, spoilt>>
  BY DEF Zone!Start, Zone!StoreFields
<1>3. /\ Zone!Running' = Zone!Running \cup {s} /\ s \notin Zone!Running
      /\ \A r \in Zone!Running : pc'[r] = pc[r] /\ task'[r] = task[r]
      /\ task'[s] = t
  BY <1>2 DEF Zone!StoreFields
<1>4. Zone!FewInv'
  BY <1>2, <1>3 DEF Zone!FewInv
<1>5. \A o : Zone!Content(o)' = Zone!Content(o)
  BY <1>2 DEF Zone!Content, Zone!Range
<1>6. ASSUME NEW r \in Zone!Running'
      PROVE  Zone!IdKnown(r)' /\ Zone!Accounted(r)' /\ (Zone!On(r)' \notin mixed' => Zone!Progress(r)')
  <2>1. CASE r = s
    BY <1>2, <1>3, <2>1
       DEF Zone!IdKnown, Zone!Accounted, Zone!Progress, Zone!Early, Zone!Emptying, Zone!Filling
  <2>2. CASE r # s
    <3>1. /\ r \in Zone!Running /\ Zone!IdKnown(r) /\ Zone!Accounted(r)
          /\ Zone!On(r) \notin mixed => Zone!Progress(r)
      BY <1>3, <1>6, <2>2 DEF Zone!SessionInv
    <3>2. Zone!IdKnown(r)' /\ Zone!Accounted(r)'
      BY <1>2, <1>3, <3>1 DEF Zone!IdKnown, Zone!Accounted, Zone!Range
    <3>3. Zone!Progress(r) => Zone!Progress(r)'
      BY <1>2, <1>3, <3>1 DEF Zone!Progress, Zone!Content, Zone!Range
    <3> QED
      BY <1>2, <1>3, <3>1, <3>2, <3>3
  <2> QED
    BY <2>1, <2>2
<1>7. Zone!SessionInv'
  BY <1>6 DEF Zone!SessionInv
<1>8. Zone!KeptInv'
  BY <1>2, <1>3, <1>5 DEF Zone!KeptInv
<1> QED
  BY <1>1, <1>4, <1>7, <1>8

LEMMA ZoneUndisturbed ==
  ASSUME Zone!ZoneInv, UNCHANGED zoneVars
  PROVE  Zone!ZoneInv'
<1> USE DEF Zone!ZoneInv, zoneVars
<1>1. Zone!StoreFields'
  BY DEF Zone!StoreFields
<1>2. Zone!FewInv'
  BY DEF Zone!FewInv
<1>3. Zone!SessionInv'
  BY DEF Zone!SessionInv, Zone!IdKnown, Zone!Accounted, Zone!Progress, Zone!Content, Zone!Range
<1>4. Zone!KeptInv'
  BY DEF Zone!KeptInv, Zone!Content, Zone!Range
<1> QED
  BY <1>1, <1>2, <1>3, <1>4

LEMMA ZoneStep ==
  ASSUME Zone!ZoneInv, Zone!Next
  PROVE  Zone!ZoneInv'
<1>1. ASSUME NEW s \in Session, NEW t \in Zone!Tasks, NEW f \in Files, Zone!Start(s, t, f)
      PROVE  Zone!ZoneInv'
  BY <1>1, ZoneBegins
<1>2. ASSUME NEW s \in Session, Work(s)
      PROVE  Zone!ZoneInv'
  <2> USE DEF Zone!ZoneInv
  <2>1. Zone!StoreFields'
    BY <1>2, StoreFieldsStep
  <2> QED
    BY <1>2, <2>1, FewStep, SessionStep, KeptStep
<1> QED
  BY <1>1, <1>2 DEF Zone!Next, Work

\* zone.pm: the id of a command is of its zone, a zone that no second command
\* came to is the only one of its name, and what a command is to leave is at every
\* statement what it inserted and what it has still to insert.
THEOREM ZoneInvariance == AdminSpec => []Zone!ZoneInv
<1>1. AdminInit => Zone!ZoneInv
  BY ZoneStarts DEF AdminInit
<1>2. ASSUME Zone!ZoneInv,
             [PublishOnly \/ ZonesOnly \/ GeoOnly]_<<part, vars, zoneVars, geoVars>>
      PROVE  Zone!ZoneInv'
  <2>1. CASE Zone!Next
    BY <1>2, <2>1, ZoneStep
  <2>2. CASE UNCHANGED zoneVars
    BY <1>2, <2>2, ZoneUndisturbed
  <2> QED
    BY <1>2, <2>1, <2>2 DEF PublishOnly, ZonesOnly, GeoOnly
<1> QED
  BY <1>1, <1>2, PTL DEF AdminSpec

\* zedit, znew, zimport, zdelete: commands that follow one another on a zone leave
\* it as the last one that ended well meant it, unless one told that it failed
\* half way or was killed.
THEOREM ZonesAreLeftAsMeant == AdminSpec => []LeavesWhatItMeant
<1>1. Zone!ZoneInv => LeavesWhatItMeant
  BY DEF Zone!ZoneInv, Zone!KeptInv, LeavesWhatItMeant, Zone!LeavesWhatItMeant
<1> QED
  BY <1>1, ZoneInvariance, PTL

\* z_delete, add_rrs: alone on a zone a command changes no row of another user's.
THEOREM OthersZonesAreLeft == AdminSpec => OwnZonesOnly
<1> DEFINE Own(s, i) ==
      /\ zones[i].origin \notin mixed'
      /\ i \in DOMAIN zones' => records'[i] # records[i]
      /\ pc'[s] # pc[s] \/ left'[s] # left[s]
      => task[s].user = zones[i].uid
<1>1. ASSUME Zone!ZoneInv, NEW s \in Session, Work(s),
             NEW r \in Zone!Running, NEW i \in DOMAIN zones
      PROVE  Own(r, i)
  <2> USE DEF Zone!ZoneInv
  <2>1. SessionFrame(s) /\ TableFrame(s)
    BY <1>1, WorkInItsSession, WorkOnItsZone
  <2>2. CASE r # s
    BY <2>1, <2>2 DEF SessionFrame
  <2>3. CASE r = s
    <3>1. SUFFICES ASSUME zones[i].origin \notin mixed, Zone!On(s) = zones[i].origin,
                          i \in DOMAIN zones' => records'[i] # records[i]
                   PROVE  task[s].user = zones[i].uid
      BY <2>1, <2>3 DEF SessionFrame, TableFrame
    <3>2. s \in Zone!Running /\ Zone!IdKnown(s) /\ Zone!Progress(s)
      BY <1>1, <2>1, <3>1 DEF SessionFrame, Zone!SessionInv
    <3>3. CASE Zone!DeleteRecords(s)
      BY <1>1, <3>1, <3>2, <3>3
         DEF Zone!DeleteRecords, Zone!IdKnown, Zone!Emptying, Zone!StoreFields
    <3>4. CASE Zone!DeleteZone(s)
      BY <1>1, <3>1, <3>2, <3>4
         DEF Zone!DeleteZone, Zone!Restrict, Zone!IdKnown, Zone!Emptying, Zone!StoreFields
    <3>5. CASE Zone!InsertZone(s)
      BY <1>1, <3>1, <3>5 DEF Zone!InsertZone, Zone!StoreFields
    <3>6. CASE Zone!AddRr(s)
      BY <1>1, <3>1, <3>2, <3>6
         DEF Zone!AddRr, Zone!NotStored, Zone!Progress, Zone!StoreFields
    <3> QED
      BY <1>1, <3>1, <3>3, <3>4, <3>5, <3>6
         DEF Work, Zone!Test, Zone!DumpRrs, Zone!Open, Zone!Edit, Zone!EditFails, Zone!Select,
         Zone!OpenImport, Zone!AddZone, Zone!SelectId, Zone!UpdateSerial, Zone!Unlink, Zone!Killed
  <2> QED
    BY <2>2, <2>3
<1>2. ASSUME Zone!ZoneInv, NEW s \in Session, NEW t \in Zone!Tasks, NEW f \in Files,
             Zone!Start(s, t, f), NEW r \in Zone!Running, NEW i \in DOMAIN zones
      PROVE  Own(r, i)
  BY <1>2 DEF Zone!Start
<1>3. ASSUME Zone!ZoneInv, Zone!Next
      PROVE  \A i \in DOMAIN zones, r \in Zone!Running : Own(r, i)
  BY <1>1, <1>2, <1>3 DEF Zone!Next, Work
<1>4. Zone!ZoneInv /\ [PublishOnly \/ ZonesOnly \/ GeoOnly]_<<part, vars, zoneVars, geoVars>>
        => [\A i \in DOMAIN zones, s \in Zone!Running :
              /\ zones[i].origin \notin mixed'
              /\ i \in DOMAIN zones' => records'[i] # records[i]
              /\ pc'[s] # pc[s] \/ left'[s] # left[s]
              => task[s].user = zones[i].uid]_Zone!storeVars
  BY <1>3 DEF PublishOnly, ZonesOnly, GeoOnly, zoneVars, Zone!storeVars
<1> QED
  BY <1>4, ZoneInvariance, PTL DEF AdminSpec, OwnZonesOnly, Zone!OwnZonesOnly

-----------------------------------------------------------------------------
(* gupdate and gedit                                                       *)

LEMMA GeoAssumed ==
  /\ \E p \in Updater : Updater = {p}
  /\ Updater \cap Editor = {} /\ "db" \notin Owner
  /\ Blank \in Xml
  /\ Torn \notin Nat /\ Nothing \notin Xml
  /\ {Torn, Nothing} \cap [xml : Xml, ver : Nat] = {}
  BY GeoConstants DEF GeoConstants, Geo!GeoConstants

USE DEF Geo!Process, Geo!Busy

LEMMA GeoFieldsStart ==
  ASSUME Geo!Init
  PROVE  Geo!GeoFields
  BY GeoAssumed DEF Geo!Init, Geo!GeoFields, Geo!Statements, Geo!Unrebuilt

LEMMA GeoStarts ==
  ASSUME Geo!Init
  PROVE  Geo!GeoInv
<1>1. Geo!GeoFields
  BY GeoFieldsStart
<1>2. Geo!StoreInv
  BY GeoAssumed DEF Geo!Init, Geo!StoreInv, Geo!InStep, Geo!Unrebuilt
<1>3. Geo!EditInv
  BY GeoAssumed DEF Geo!Init, Geo!EditInv
<1> QED
  BY <1>1, <1>2, <1>3 DEF Geo!GeoInv

LEMMA GeoFieldsStep ==
  ASSUME Geo!GeoFields, Geo!Next
  PROVE  Geo!GeoFields'
<1> USE DEF Geo!GeoFields, Geo!Statements, Geo!Unrebuilt, Geo!To, Geo!Dies, Geo!Subject, Geo!files
<1>1. CASE Geo!Publish
  BY <1>1 DEF Geo!Publish
<1>2. ASSUME NEW p \in Updater, NEW o \in Geo!Options, Geo!Gupdate(p, o)
      PROVE  Geo!GeoFields'
  BY <1>2, GeoAssumed DEF Geo!Gupdate
<1>3. ASSUME NEW p \in Updater, Geo!Handle(p) \/ Geo!UnlinkDump(p) \/ Geo!Mirror(p) \/ Geo!MirrorFails(p)
      PROVE  Geo!GeoFields'
  BY <1>3, GeoAssumed DEF Geo!Handle, Geo!UnlinkDump, Geo!Mirror, Geo!MirrorFails
<1>4. ASSUME NEW p \in Updater, Geo!Unzip(p) \/ Geo!Save(p) \/ Geo!StoreBegin(p) \/ Geo!StoreEnd(p) \/ Geo!Configs(p)
      PROVE  Geo!GeoFields'
  BY <1>4, GeoAssumed DEF Geo!Unzip, Geo!Save, Geo!StoreBegin, Geo!StoreEnd, Geo!Configs
<1>5. ASSUME NEW p \in Editor, NEW u \in Owner, Geo!Gedit(p, u)
      PROVE  Geo!GeoFields'
  BY <1>5, GeoAssumed DEF Geo!Gedit
<1>6. ASSUME NEW p \in Editor, Geo!Copy(p) \/ Geo!Edit(p) \/ Geo!EditorFails(p) \/ Geo!Compare(p)
      PROVE  Geo!GeoFields'
  BY <1>6, GeoAssumed DEF Geo!Copy, Geo!Edit, Geo!EditorFails, Geo!Compare
<1>7. ASSUME NEW p \in Editor, Geo!Compile(p) \/ Geo!PrintMaps(p)
      PROVE  Geo!GeoFields'
  BY <1>7, GeoAssumed DEF Geo!Compile, Geo!PrintMaps
<1>8. ASSUME NEW p \in Geo!Process, Geo!Kill(p)
      PROVE  Geo!GeoFields'
  BY <1>8, GeoAssumed DEF Geo!Kill
<1> QED
  BY <1>1, <1>2, <1>3, <1>4, <1>5, <1>6, <1>7, <1>8 DEF Geo!Next

LEMMA StoreStep ==
  ASSUME Geo!GeoFields, Geo!StoreInv, Geo!Next
  PROVE  Geo!StoreInv'
<1> USE DEF Geo!GeoFields, Geo!StoreInv, Geo!InStep, Geo!Unrebuilt, Geo!To, Geo!Dies, Geo!Subject
<1>1. CASE Geo!Publish
  BY <1>1 DEF Geo!Publish
<1>2. ASSUME NEW p \in Updater, NEW o \in Geo!Options, Geo!Gupdate(p, o)
      PROVE  Geo!StoreInv'
  BY <1>2, GeoAssumed DEF Geo!Gupdate
<1>3. ASSUME NEW p \in Updater, Geo!Handle(p) \/ Geo!UnlinkDump(p) \/ Geo!MirrorFails(p)
      PROVE  Geo!StoreInv'
  BY <1>3, GeoAssumed DEF Geo!Handle, Geo!UnlinkDump, Geo!MirrorFails
<1>4. ASSUME NEW p \in Updater, Geo!Mirror(p)
      PROVE  Geo!StoreInv'
  BY <1>4, GeoAssumed DEF Geo!Mirror
<1>5. ASSUME NEW p \in Updater, Geo!Unzip(p) \/ Geo!Save(p) \/ Geo!StoreBegin(p)
      PROVE  Geo!StoreInv'
  BY <1>5, GeoAssumed DEF Geo!Unzip, Geo!Save, Geo!StoreBegin
<1>6. ASSUME NEW p \in Updater, Geo!StoreEnd(p) \/ Geo!Configs(p)
      PROVE  Geo!StoreInv'
  BY <1>6, GeoAssumed DEF Geo!StoreEnd, Geo!Configs
<1>7. ASSUME NEW p \in Editor, NEW u \in Owner, Geo!Gedit(p, u)
      PROVE  Geo!StoreInv'
  BY <1>7, GeoAssumed DEF Geo!Gedit
<1>8. ASSUME NEW p \in Editor, Geo!Copy(p) \/ Geo!Edit(p) \/ Geo!EditorFails(p) \/ Geo!Compare(p)
      PROVE  Geo!StoreInv'
  BY <1>8, GeoAssumed DEF Geo!Copy, Geo!Edit, Geo!EditorFails, Geo!Compare
<1>9. ASSUME NEW p \in Editor, Geo!Compile(p) \/ Geo!PrintMaps(p)
      PROVE  Geo!StoreInv'
  BY <1>9, GeoAssumed DEF Geo!Compile, Geo!PrintMaps
<1>10. ASSUME NEW p \in Geo!Process, Geo!Kill(p)
      PROVE  Geo!StoreInv'
  BY <1>10, GeoAssumed DEF Geo!Kill
<1> QED
  BY <1>1, <1>2, <1>3, <1>4, <1>5, <1>6, <1>7, <1>8, <1>9, <1>10 DEF Geo!Next

LEMMA EditStep ==
  ASSUME Geo!GeoFields, Geo!StoreInv, Geo!EditInv, Geo!Next
  PROVE  Geo!EditInv'
<1> USE DEF Geo!GeoFields, Geo!EditInv, Geo!Compiled, Geo!To, Geo!Dies, Geo!Subject, Geo!files
<1>1. CASE Geo!Publish
  BY <1>1 DEF Geo!Publish
<1>2. ASSUME NEW p \in Updater, NEW o \in Geo!Options, Geo!Gupdate(p, o)
      PROVE  Geo!EditInv'
  BY <1>2, GeoAssumed DEF Geo!Gupdate
<1>3. ASSUME NEW p \in Updater, Geo!Handle(p) \/ Geo!UnlinkDump(p) \/ Geo!Mirror(p) \/ Geo!MirrorFails(p)
      PROVE  Geo!EditInv'
  BY <1>3, GeoAssumed DEF Geo!Handle, Geo!UnlinkDump, Geo!Mirror, Geo!MirrorFails
<1>4. ASSUME NEW p \in Updater, Geo!Unzip(p) \/ Geo!Save(p) \/ Geo!StoreBegin(p) \/ Geo!StoreEnd(p) \/ Geo!Configs(p)
      PROVE  Geo!EditInv'
  BY <1>4, GeoAssumed DEF Geo!Unzip, Geo!Save, Geo!StoreBegin, Geo!StoreEnd, Geo!Configs
<1>5. ASSUME NEW p \in Editor, NEW u \in Owner, Geo!Gedit(p, u)
      PROVE  Geo!EditInv'
  BY <1>5, GeoAssumed DEF Geo!Gedit
<1>6. ASSUME NEW p \in Editor, Geo!Copy(p) \/ Geo!Edit(p) \/ Geo!EditorFails(p)
      PROVE  Geo!EditInv'
  BY <1>6, GeoAssumed DEF Geo!Copy, Geo!Edit, Geo!EditorFails
<1>7. ASSUME NEW p \in Editor, Geo!Compare(p)
      PROVE  Geo!EditInv'
  BY <1>7, GeoAssumed DEF Geo!Compare
<1>8. ASSUME NEW p \in Editor, Geo!Compile(p)
      PROVE  Geo!EditInv'
  BY <1>8, GeoAssumed DEF Geo!Compile, Geo!StoreInv
<1>9. ASSUME NEW p \in Editor, Geo!PrintMaps(p)
      PROVE  Geo!EditInv'
  BY <1>9, GeoAssumed DEF Geo!PrintMaps
<1>10. ASSUME NEW p \in Geo!Process, Geo!Kill(p)
      PROVE  Geo!EditInv'
  BY <1>10, GeoAssumed DEF Geo!Kill
<1> QED
  BY <1>1, <1>2, <1>3, <1>4, <1>5, <1>6, <1>7, <1>8, <1>9, <1>10 DEF Geo!Next

LEMMA GeoUndisturbed ==
  ASSUME Geo!GeoInv, UNCHANGED geoVars
  PROVE  Geo!GeoInv'
<1>1. Geo!GeoFields'
  BY DEF Geo!GeoInv, Geo!GeoFields, geoVars
<1>2. Geo!StoreInv'
  BY DEF Geo!GeoInv, Geo!StoreInv, Geo!InStep, geoVars
<1>3. Geo!EditInv'
  BY SMTT(30) DEF Geo!GeoInv, Geo!EditInv, Geo!Compiled, geoVars
<1> QED
  BY <1>1, <1>2, <1>3 DEF Geo!GeoInv

\* gupdate, gedit: every command starts and ends with the files in step, what is
\* stored was an archive that unzips, and a gedit prints the maps in their place.
THEOREM GeoInvariance == AdminSpec => []Geo!GeoInv
<1>1. AdminInit => Geo!GeoInv
  BY GeoStarts DEF AdminInit
<1>2. ASSUME Geo!GeoInv, [PublishOnly \/ ZonesOnly \/ GeoOnly]_<<part, vars, zoneVars, geoVars>>
      PROVE  Geo!GeoInv'
  <2>1. CASE Geo!Next
    BY <1>2, <2>1, GeoFieldsStep, StoreStep, EditStep DEF Geo!GeoInv
  <2>2. CASE UNCHANGED geoVars
    BY <1>2, <2>2, GeoUndisturbed
  <2> QED
    BY <1>2, <2>1, <2>2 DEF PublishOnly, ZonesOnly, GeoOnly
<1> QED
  BY <1>1, <1>2, PTL DEF AdminSpec

\* db.pm, gedit: between two gupdates the stored database is that of the archive,
\* and between two gedits loc.data is whole and what ipmaps.xml says, unless the
\* last command on it has failed.
THEOREM DerivedStaysInStep == AdminSpec => []DerivedInStep
<1>1. ASSUME Geo!GeoInv
      PROVE  Geo!StoreFollowsDump
  <2>1. SUFFICES ASSUME Geo!Busy \cap Updater = {}
                 PROVE  Geo!InStep
    BY DEF Geo!StoreFollowsDump, Geo!InStep
  <2>2. PICK p : Updater = {p}
    BY GeoAssumed
  <2> QED
    BY <1>1, <2>1, <2>2 DEF Geo!GeoInv, Geo!StoreInv, Geo!Unrebuilt
<1>2. ASSUME Geo!GeoInv
      PROVE  Geo!LocFollowsXml
  <2>1. SUFFICES ASSUME NEW u \in Owner \ (told \cup shared), xml[u] # Nothing,
                        \A p \in Geo!Busy \cap Editor : opt[p] # u
                 PROVE  /\ loc[u] \notin {Torn, Nothing}
                        /\ loc[u].xml = xml[u]
                        /\ loc[u].ver \in (1 .. remote) \ Corrupt
    BY DEF Geo!LocFollowsXml
  <2>2. PICK v \in (1 .. remote) \ Corrupt : loc[u] = [xml |-> xml[u], ver |-> v]
    BY <1>2, <2>1 DEF Geo!GeoInv, Geo!EditInv, Geo!Compiled
  <2>3. loc[u] \in [xml : Xml, ver : Nat]
    BY <1>2, <2>1, <2>2 DEF Geo!GeoInv, Geo!GeoFields
  <2> QED
    BY <2>2, <2>3, GeoAssumed
<1>3. Geo!GeoInv => DerivedInStep
  BY <1>1, <1>2 DEF DerivedInStep
<1> QED
  BY <1>3, GeoInvariance, PTL

-----------------------------------------------------------------------------
(* The three together                                                      *)

\* Next to the others each job does nothing but what it does by itself: the
\* theorems about zexport (PublishProofs) hold here.
THEOREM EachByItself == AdminSpec => Spec /\ Zone!Spec /\ Geo!Spec
<1>1. AdminInit => Init /\ Zone!Init /\ Geo!Init
  BY DEF AdminInit
<1>2. [PublishOnly \/ ZonesOnly \/ GeoOnly]_<<part, vars, zoneVars, geoVars>> => [Next]_vars
  BY DEF PublishOnly, ZonesOnly, GeoOnly
<1>3. [PublishOnly \/ ZonesOnly \/ GeoOnly]_<<part, vars, zoneVars, geoVars>>
        => [Zone!Next]_Zone!storeVars
  BY DEF PublishOnly, ZonesOnly, GeoOnly, zoneVars, Zone!storeVars
<1>4. [PublishOnly \/ ZonesOnly \/ GeoOnly]_<<part, vars, zoneVars, geoVars>>
        => [Geo!Next]_Geo!geoVars
  BY DEF PublishOnly, ZonesOnly, GeoOnly, geoVars, Geo!geoVars
<1> QED
  BY <1>1, <1>2, <1>3, <1>4, PTL DEF AdminSpec, Spec, Zone!Spec, Geo!Spec

\* The types of the three parts are kept.
THEOREM AdminTypesCorrect == AdminSpec => []AdminTypeOK
<1>1. Zone!ZoneInv => Zone!TypeOK
  BY DEF Zone!ZoneInv, Zone!StoreFields, Zone!TypeOK
<1>2. Geo!GeoInv => Geo!TypeOK
  BY DEF Geo!GeoInv, Geo!GeoFields, Geo!TypeOK
<1>3. TypeOK /\ Zone!ZoneInv /\ Geo!GeoInv => AdminTypeOK
  BY <1>1, <1>2 DEF AdminTypeOK
<1> QED
  BY <1>3, EachByItself, TypeCorrect, ZoneInvariance, GeoInvariance, PTL
=============================================================================
