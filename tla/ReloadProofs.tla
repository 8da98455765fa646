---------------------------- MODULE ReloadProofs ----------------------------
(***************************************************************************)
(* Proofs, for any set of processes and any bounds, of the safety           *)
(* properties of Reload and of its refinement of Service.  The inductive    *)
(* invariant IInv of Reload is a conjunction; there is one lemma for each    *)
(* conjunct, and each lemma has one step for each action that can disturb    *)
(* its conjunct and one step for all the others.                            *)
(***************************************************************************)
EXTENDS Reload, TLAPS

\* The types are kept; read takes no more than is queued (LoadInv).
LEMMA TypeStep ==
    ASSUME IInv, [Next]_vars
    PROVE  TypeOK'
<1> USE ReloadBounds DEF IInv, TypeOK, CallInv, ProcInv, LoadInv, Version,
       PC
<1>1. CASE Commit
  BY <1>1 DEF Commit, Notify, kernelVars, boundVars, procVars, historyVars
<1>2. CASE Touch
  BY <1>2 DEF Touch, Notify, kernelVars, boundVars, procVars, historyVars
<1>3. CASE Unlink
  BY <1>3 DEF Unlink, Notify, kernelVars, boundVars, procVars, historyVars
<1>4. CASE Return
  BY <1>4 DEF Return, kernelVars, boundVars, procVars, historyVars
<1>5. ASSUME NEW q \in Proc, Ignored(q) PROVE TypeOK'
  BY <1>5 DEF Ignored, kernelVars, boundVars, procVars, historyVars
<1>6. ASSUME NEW q \in Proc, StartWatch(q) PROVE TypeOK'
  BY <1>6 DEF StartWatch, PlaceWatch, Goto, kernelVars, boundVars, procVars,
      historyVars
<1>7. ASSUME NEW q \in Proc, ReadEvents(q) \/ Overrun(q) PROVE TypeOK'
  BY <1>7 DEF ReadEvents, Overrun, Goto, kernelVars, boundVars, procVars, historyVars
<1>8. ASSUME NEW q \in Proc, AddWatch(q) PROVE TypeOK'
  BY <1>8 DEF AddWatch, PlaceWatch, Goto, kernelVars, boundVars, procVars,
      historyVars
<1>9. ASSUME NEW q \in Proc, Kill(q) PROVE TypeOK'
  BY <1>9 DEF Kill, kernelVars, boundVars, procVars, historyVars
<1>10. ASSUME NEW q \in Proc,
              Attrib(q) \/ NothingReported(q) \/ Reported(q) \/ Datare(q)
              \/ DatareFails(q) \/ FindFails(q) \/ Find(q) \/ Answer(q) \/
              Query(q) \/ Start(q)
      PROVE  TypeOK'
  BY <1>10 DEF Attrib, NothingReported, Reported, Datare, DatareFails,
      FindFails, Find, Answer, Query, Start, Goto, kernelVars, boundVars,
      procVars, historyVars
<1>11. CASE UNCHANGED vars
  BY <1>11 DEF vars, kernelVars, boundVars, procVars, historyVars
<1>12. QED
  BY <1>1, <1>2, <1>3, <1>4, <1>5, <1>6, <1>7, <1>8, <1>9, <1>10, <1>11 DEF Next, Kernel, Deliver, Work

\* The name stands for the newest version or for nothing, and nobody is left
\* to be told when no call is in progress.
LEMMA CallStep ==
    ASSUME IInv, [Next]_vars
    PROVE  CallInv'
<1> USE DEF IInv, TypeOK, CallInv, Version
<1>1. CASE Commit
  BY <1>1 DEF Commit, Notify, kernelVars, boundVars, procVars, historyVars
<1>2. CASE Touch
  BY <1>2 DEF Touch, Notify, kernelVars, boundVars, procVars, historyVars
<1>3. CASE Unlink
  BY <1>3 DEF Unlink, Notify, kernelVars, boundVars, procVars, historyVars
<1>4. CASE Return
  BY <1>4 DEF Return, kernelVars, boundVars, procVars, historyVars
<1>5. ASSUME NEW q \in Proc, Attrib(q) PROVE CallInv'
  BY <1>5 DEF Attrib, kernelVars, boundVars, procVars, historyVars
<1>6. ASSUME NEW q \in Proc, Kill(q) PROVE CallInv'
  BY <1>6 DEF Kill, kernelVars, boundVars, procVars, historyVars
<1>7. ASSUME NEW q \in Proc,
              Ignored(q) \/ StartWatch(q) \/ NothingReported(q) \/
              Reported(q) \/ ReadEvents(q) \/ Overrun(q) \/ Datare(q) \/ DatareFails(q)
              \/ AddWatch(q) \/ FindFails(q) \/ Find(q) \/ Answer(q) \/
              Query(q) \/ Start(q)
      PROVE  CallInv'
  BY <1>7 DEF Ignored, StartWatch, NothingReported, Reported, ReadEvents, Overrun,
      Datare, DatareFails, AddWatch, FindFails, Find, Answer, Query, Start,
      PlaceWatch, Goto, kernelVars, boundVars, procVars, historyVars
<1>8. CASE UNCHANGED vars
  BY <1>8 DEF vars, kernelVars, boundVars, procVars, historyVars
<1>9. QED
  BY <1>1, <1>2, <1>3, <1>4, <1>5, <1>6, <1>7, <1>8 DEF Next, Kernel, Deliver, Work

\* A process that has no watch yet has no events.
LEMMA NewStep ==
    ASSUME IInv, [Next]_vars, NEW p \in Proc
    PROVE  NewInv(p)'
<1> USE DEF IInv, TypeOK, CallInv, ProcInv, NewInv, PC
<1>1. CASE Commit
  BY <1>1 DEF Commit, Notify, kernelVars, boundVars, procVars, historyVars
<1>2. CASE Touch
  BY <1>2 DEF Touch, Notify, kernelVars, boundVars, procVars, historyVars
<1>3. CASE Unlink
  BY <1>3 DEF Unlink, Notify, kernelVars, boundVars, procVars, historyVars
<1>4. ASSUME NEW q \in Proc, Attrib(q) PROVE NewInv(p)'
  BY <1>4 DEF Attrib, kernelVars, boundVars, procVars, historyVars
<1>5. ASSUME NEW q \in Proc, Ignored(q) PROVE NewInv(p)'
  BY <1>5 DEF Ignored, kernelVars, boundVars, procVars, historyVars
<1>6. ASSUME NEW q \in Proc, StartWatch(q) PROVE NewInv(p)'
  BY <1>6 DEF StartWatch, PlaceWatch, Goto, kernelVars, boundVars, procVars,
      historyVars
<1>7. ASSUME NEW q \in Proc, Start(q) PROVE NewInv(p)'
  BY <1>7 DEF Start, Goto, kernelVars, boundVars, procVars, historyVars
<1>8. ASSUME NEW q \in Proc, Kill(q) PROVE NewInv(p)'
  BY <1>8 DEF Kill, kernelVars, boundVars, procVars, historyVars
<1>9. CASE Return
  BY <1>9 DEF Return, kernelVars, boundVars, procVars, historyVars
<1>10. ASSUME NEW q \in Proc,
              NothingReported(q) \/ Reported(q) \/ ReadEvents(q) \/ Overrun(q) \/
              Datare(q) \/ DatareFails(q) \/ AddWatch(q) \/ FindFails(q)
              \/ Find(q) \/ Answer(q) \/ Query(q)
      PROVE  NewInv(p)'
  BY <1>10 DEF NothingReported, Reported, ReadEvents, Overrun, Datare, DatareFails,
      AddWatch, FindFails, Find, Answer, Query, PlaceWatch, Goto,
      kernelVars, boundVars, procVars, historyVars
<1>11. CASE UNCHANGED vars
  BY <1>11 DEF vars, kernelVars, boundVars, procVars, historyVars
<1>12. QED
  BY <1>1, <1>2, <1>3, <1>4, <1>5, <1>6, <1>7, <1>8, <1>9, <1>10, <1>11 DEF Next, Kernel, Deliver, Work

\* Every watch is on the current inode or is about to be spent: a call moves
\* the watches of the inode it is about to Reached, IN_IGNORED removes them,
\* and a new watch goes to the current inode.
LEMMA MarksStep ==
    ASSUME IInv, [Next]_vars, NEW p \in Proc
    PROVE  MarksInv(p)'
<1> USE DEF IInv, TypeOK, CallInv, ProcInv, NewInv, MarksInv, Reached,
       Version
<1>1. CASE Commit
  BY <1>1 DEF Commit, Notify, kernelVars, boundVars, procVars, historyVars
<1>2. CASE Touch
  BY <1>2 DEF Touch, Notify, kernelVars, boundVars, procVars, historyVars
<1>3. CASE Unlink
  BY <1>3 DEF Unlink, Notify, kernelVars, boundVars, procVars, historyVars
<1>4. CASE Return
  BY <1>4 DEF Return, kernelVars, boundVars, procVars, historyVars
<1>5. ASSUME NEW q \in Proc, Attrib(q) PROVE MarksInv(p)'
  BY <1>5 DEF Attrib, kernelVars, boundVars, procVars, historyVars
<1>6. ASSUME NEW q \in Proc, Ignored(q) PROVE MarksInv(p)'
  BY <1>6 DEF Ignored, kernelVars, boundVars, procVars, historyVars
<1>7. ASSUME NEW q \in Proc, StartWatch(q) PROVE MarksInv(p)'
  BY <1>7 DEF StartWatch, PlaceWatch, Goto, kernelVars, boundVars, procVars,
      historyVars
<1>8. ASSUME NEW q \in Proc, AddWatch(q) PROVE MarksInv(p)'
  BY <1>8 DEF AddWatch, PlaceWatch, Goto, kernelVars, boundVars, procVars,
      historyVars
<1>9. ASSUME NEW q \in Proc, Kill(q) PROVE MarksInv(p)'
  BY <1>9 DEF Kill, kernelVars, boundVars, procVars, historyVars
<1>10. ASSUME NEW q \in Proc,
              NothingReported(q) \/ Reported(q) \/ ReadEvents(q) \/ Overrun(q) \/
              Datare(q) \/ DatareFails(q) \/ FindFails(q) \/ Find(q) \/
              Answer(q) \/ Query(q) \/ Start(q)
      PROVE  MarksInv(p)'
  BY <1>10 DEF NothingReported, Reported, ReadEvents, Overrun, Datare, DatareFails,
      FindFails, Find, Answer, Query, Start, Goto, kernelVars, boundVars,
      procVars, historyVars
<1>11. CASE UNCHANGED vars
  BY <1>11 DEF vars, kernelVars, boundVars, procVars, historyVars
<1>12. QED
  BY <1>1, <1>2, <1>3, <1>4, <1>5, <1>6, <1>7, <1>8, <1>9, <1>10, <1>11 DEF Next, Kernel, Deliver, Work

\* A call turns what a watch will queue (Later) into what it still queues
\* (Coming), and that into what is queued; only a new watch adds to the sum,
\* and only after read has brought it down to four.
LEMMA LoadStep ==
    ASSUME IInv, [Next]_vars, NEW p \in Proc
    PROVE  LoadInv(p)'
<1> USE DEF IInv, TypeOK, CallInv, ProcInv, NewInv, MarksInv, LoadInv, Load,
       Coming, Later, Reached, EvbufRoom, Version, PC
<1>1. CASE Commit
  BY <1>1 DEF Commit, Notify, kernelVars, boundVars, procVars, historyVars
<1>2. CASE Touch
  BY <1>2 DEF Touch, Notify, kernelVars, boundVars, procVars, historyVars
<1>3. CASE Unlink
  BY <1>3 DEF Unlink, Notify, kernelVars, boundVars, procVars, historyVars
<1>4. CASE Return
  BY <1>4 DEF Return, kernelVars, boundVars, procVars, historyVars
<1>5. ASSUME NEW q \in Proc, Attrib(q) PROVE LoadInv(p)'
  BY <1>5 DEF Attrib, kernelVars, boundVars, procVars, historyVars
<1>6. ASSUME NEW q \in Proc, Ignored(q) PROVE LoadInv(p)'
  BY <1>6 DEF Ignored, kernelVars, boundVars, procVars, historyVars
<1>7. ASSUME NEW q \in Proc, StartWatch(q) PROVE LoadInv(p)'
  BY <1>7 DEF StartWatch, PlaceWatch, Goto, kernelVars, boundVars, procVars,
      historyVars
<1>8. ASSUME NEW q \in Proc, Reported(q) PROVE LoadInv(p)'
  BY <1>8 DEF Reported, Goto, kernelVars, boundVars, procVars, historyVars
<1>9. ASSUME NEW q \in Proc, ReadEvents(q) \/ Overrun(q) PROVE LoadInv(p)'
  BY <1>9 DEF ReadEvents, Overrun, Goto, kernelVars, boundVars, procVars, historyVars
<1>10. ASSUME NEW q \in Proc, AddWatch(q) PROVE LoadInv(p)'
  BY <1>10 DEF AddWatch, PlaceWatch, Goto, kernelVars, boundVars, procVars,
      historyVars
<1>11. ASSUME NEW q \in Proc, Kill(q) PROVE LoadInv(p)'
  BY <1>11 DEF Kill, kernelVars, boundVars, procVars, historyVars
<1>12. ASSUME NEW q \in Proc,
              NothingReported(q) \/ Datare(q) \/ DatareFails(q) \/
              FindFails(q) \/ Find(q) \/ Answer(q) \/ Query(q) \/ Start(q)
      PROVE  LoadInv(p)'
  BY <1>12 DEF NothingReported, Datare, DatareFails, FindFails, Find,
      Answer, Query, Start, Goto, kernelVars, boundVars, procVars,
      historyVars
<1>13. CASE UNCHANGED vars
  BY <1>13 DEF vars, kernelVars, boundVars, procVars, historyVars
<1>14. QED
  BY <1>1, <1>2, <1>3, <1>4, <1>5, <1>6, <1>7, <1>8, <1>9, <1>10, <1>11,
      <1>12, <1>13 DEF Next, Kernel, Deliver, Work

\* While nobody removes the file a settled process watches it or is told.
LEMMA HearStep ==
    ASSUME IInv, [Next]_vars, NEW p \in Proc
    PROVE  HearInv(p)'
<1> USE DEF IInv, TypeOK, CallInv, ProcInv, HearInv, Settled, Owed, Version,
       PC
<1>1. CASE Commit
  BY <1>1 DEF Commit, Notify, kernelVars, boundVars, procVars, historyVars
<1>2. CASE Touch
  BY <1>2 DEF Touch, Notify, kernelVars, boundVars, procVars, historyVars
<1>3. CASE Unlink
  BY <1>3 DEF Unlink, Notify, kernelVars, boundVars, procVars, historyVars
<1>4. CASE Return
  BY <1>4 DEF Return, kernelVars, boundVars, procVars, historyVars
<1>5. ASSUME NEW q \in Proc, Attrib(q) PROVE HearInv(p)'
  BY <1>5 DEF Attrib, kernelVars, boundVars, procVars, historyVars
<1>6. ASSUME NEW q \in Proc, Ignored(q) PROVE HearInv(p)'
  BY <1>6 DEF Ignored, kernelVars, boundVars, procVars, historyVars
<1>7. ASSUME NEW q \in Proc, StartWatch(q) PROVE HearInv(p)'
  BY <1>7 DEF StartWatch, PlaceWatch, Goto, kernelVars, boundVars, procVars,
      historyVars
<1>8. ASSUME NEW q \in Proc, ReadEvents(q) \/ Overrun(q) PROVE HearInv(p)'
  BY <1>8 DEF ReadEvents, Overrun, Goto, kernelVars, boundVars, procVars, historyVars
<1>9. ASSUME NEW q \in Proc, DatareFails(q) PROVE HearInv(p)'
  BY <1>9 DEF DatareFails, Goto, kernelVars, boundVars, procVars,
      historyVars
<1>10. ASSUME NEW q \in Proc, AddWatch(q) PROVE HearInv(p)'
  BY <1>10 DEF AddWatch, PlaceWatch, Goto, kernelVars, boundVars, procVars,
      historyVars
<1>11. ASSUME NEW q \in Proc, Kill(q) PROVE HearInv(p)'
  BY <1>11 DEF Kill, kernelVars, boundVars, procVars, historyVars
<1>12. ASSUME NEW q \in Proc,
              NothingReported(q) \/ Reported(q) \/ Datare(q) \/
              FindFails(q) \/ Find(q) \/ Answer(q) \/ Query(q) \/ Start(q)
      PROVE  HearInv(p)'
  BY <1>12 DEF NothingReported, Reported, Datare, FindFails, Find, Answer,
      Query, Start, Goto, kernelVars, boundVars, procVars, historyVars
<1>13. CASE UNCHANGED vars
  BY <1>13 DEF vars, kernelVars, boundVars, procVars, historyVars
<1>14. QED
  BY <1>1, <1>2, <1>3, <1>4, <1>5, <1>6, <1>7, <1>8, <1>9, <1>10, <1>11,
      <1>12, <1>13 DEF Next, Kernel, Deliver, Work

\* A settled process that did not race maps the current file and watches it,
\* or is told.
LEMMA SyncStep ==
    ASSUME IInv, [Next]_vars, NEW p \in Proc
    PROVE  SyncInv(p)'
<1> USE DEF IInv, TypeOK, CallInv, ProcInv, SyncInv, Settled, Owed, Version,
       PC
<1>1. CASE Commit
  BY <1>1 DEF Commit, Notify, kernelVars, boundVars, procVars, historyVars
<1>2. CASE Touch
  BY <1>2 DEF Touch, Notify, kernelVars, boundVars, procVars, historyVars
<1>3. CASE Unlink
  BY <1>3 DEF Unlink, Notify, kernelVars, boundVars, procVars, historyVars
<1>4. CASE Return
  BY <1>4 DEF Return, kernelVars, boundVars, procVars, historyVars
<1>5. ASSUME NEW q \in Proc, Attrib(q) PROVE SyncInv(p)'
  BY <1>5 DEF Attrib, kernelVars, boundVars, procVars, historyVars
<1>6. ASSUME NEW q \in Proc, Ignored(q) PROVE SyncInv(p)'
  BY <1>6 DEF Ignored, kernelVars, boundVars, procVars, historyVars
<1>7. ASSUME NEW q \in Proc, StartWatch(q) PROVE SyncInv(p)'
  BY <1>7 DEF StartWatch, PlaceWatch, Goto, kernelVars, boundVars, procVars,
      historyVars
<1>8. ASSUME NEW q \in Proc, ReadEvents(q) \/ Overrun(q) PROVE SyncInv(p)'
  BY <1>8 DEF ReadEvents, Overrun, Goto, kernelVars, boundVars, procVars, historyVars
<1>9. ASSUME NEW q \in Proc, DatareFails(q) PROVE SyncInv(p)'
  BY <1>9 DEF DatareFails, Goto, kernelVars, boundVars, procVars,
      historyVars
<1>10. ASSUME NEW q \in Proc, AddWatch(q) PROVE SyncInv(p)'
  BY <1>10 DEF AddWatch, PlaceWatch, Goto, kernelVars, boundVars, procVars,
      historyVars
<1>11. ASSUME NEW q \in Proc, Kill(q) PROVE SyncInv(p)'
  BY <1>11 DEF Kill, kernelVars, boundVars, procVars, historyVars
<1>12. ASSUME NEW q \in Proc,
              NothingReported(q) \/ Reported(q) \/ Datare(q) \/
              FindFails(q) \/ Find(q) \/ Answer(q) \/ Query(q) \/ Start(q)
      PROVE  SyncInv(p)'
  BY <1>12 DEF NothingReported, Reported, Datare, FindFails, Find, Answer,
      Query, Start, Goto, kernelVars, boundVars, procVars, historyVars
<1>13. CASE UNCHANGED vars
  BY <1>13 DEF vars, kernelVars, boundVars, procVars, historyVars
<1>14. QED
  BY <1>1, <1>2, <1>3, <1>4, <1>5, <1>6, <1>7, <1>8, <1>9, <1>10, <1>11,
      <1>12, <1>13 DEF Next, Kernel, Deliver, Work

\* Without events the mapping is as new as the last commit that returned: a
\* commit cannot return before the watchers are told.
LEMMA FreshStep ==
    ASSUME IInv, [Next]_vars, NEW p \in Proc
    PROVE  FreshInv(p)'
<1> USE DEF IInv, TypeOK, CallInv, ProcInv, FreshInv, SyncInv, Settled,
       Owed, Version, PC
<1>1. CASE Return
  BY <1>1 DEF Return, kernelVars, boundVars, procVars, historyVars
<1>2. ASSUME NEW q \in Proc, Attrib(q) PROVE FreshInv(p)'
  BY <1>2 DEF Attrib, kernelVars, boundVars, procVars, historyVars
<1>3. ASSUME NEW q \in Proc, Ignored(q) PROVE FreshInv(p)'
  BY <1>3 DEF Ignored, kernelVars, boundVars, procVars, historyVars
<1>4. ASSUME NEW q \in Proc, StartWatch(q) PROVE FreshInv(p)'
  BY <1>4 DEF StartWatch, PlaceWatch, Goto, kernelVars, boundVars, procVars,
      historyVars
<1>5. ASSUME NEW q \in Proc, NothingReported(q) PROVE FreshInv(p)'
  BY <1>5 DEF NothingReported, Goto, kernelVars, boundVars, procVars,
      historyVars
<1>6. ASSUME NEW q \in Proc, ReadEvents(q) \/ Overrun(q) PROVE FreshInv(p)'
  BY <1>6 DEF ReadEvents, Overrun, Goto, kernelVars, boundVars, procVars, historyVars
<1>7. ASSUME NEW q \in Proc, AddWatch(q) PROVE FreshInv(p)'
  <2>1. /\ UNCHANGED <<live, last, acked, asked, map, queue>>
        /\ pc' = [pc EXCEPT ![q] = "find"]
        /\ raced' = [raced EXCEPT ![q] = live # map[q]]
    BY <1>7 DEF AddWatch, PlaceWatch, Goto, kernelVars
  <2>2. CASE p = q
    <3>1. pc'[p] = "find" /\ (raced'[p] <=> live # map[p])
      BY <2>1, <2>2
    <3>2. ~raced'[p] /\ map[p] # 0 => map[p] >= acked
      BY <3>1
    <3> QED
      BY <2>1, <3>1, <3>2
  <2>3. CASE p # q
    BY <2>1, <2>3
  <2> QED
    BY <2>2, <2>3
<1>8. ASSUME NEW q \in Proc, Find(q) PROVE FreshInv(p)'
  BY <1>8 DEF Find, Goto, kernelVars, boundVars, procVars, historyVars
<1>9. ASSUME NEW q \in Proc, Answer(q) PROVE FreshInv(p)'
  BY <1>9 DEF Answer, Goto, kernelVars, boundVars, procVars, historyVars
<1>10. ASSUME NEW q \in Proc, Query(q) PROVE FreshInv(p)'
  BY <1>10 DEF Query, Goto, kernelVars, boundVars, procVars, historyVars
<1>11. ASSUME NEW q \in Proc, Kill(q) PROVE FreshInv(p)'
  BY <1>11 DEF Kill, kernelVars, boundVars, procVars, historyVars
<1>12. CASE Commit \/ Touch \/ Unlink
  BY <1>12 DEF Commit, Touch, Unlink, Notify, kernelVars, boundVars,
      procVars, historyVars
<1>13. ASSUME NEW q \in Proc,
              Reported(q) \/ Datare(q) \/ DatareFails(q) \/ FindFails(q)
              \/ Start(q)
      PROVE  FreshInv(p)'
  BY <1>13 DEF Reported, Datare, DatareFails, FindFails, Start, Goto,
      kernelVars, boundVars, procVars, historyVars
<1>14. CASE UNCHANGED vars
  BY <1>14 DEF vars, kernelVars, boundVars, procVars, historyVars
<1>15. QED
  BY <1>1, <1>2, <1>3, <1>4, <1>5, <1>6, <1>7, <1>8, <1>9, <1>10, <1>11,
      <1>12, <1>13, <1>14 DEF Next, Kernel, Deliver, Work

\* A new mapping is of the newest version, so no older than any answer.
LEMMA BackStep ==
    ASSUME IInv, [Next]_vars, NEW p \in Proc
    PROVE  BackInv(p)'
<1> USE DEF IInv, TypeOK, CallInv, ProcInv, FreshInv, BackInv, Version, PC
<1>1. CASE Commit
  BY <1>1 DEF Commit, Notify, kernelVars, boundVars, procVars, historyVars
<1>2. ASSUME NEW q \in Proc, Datare(q) PROVE BackInv(p)'
  BY <1>2 DEF Datare, Goto, kernelVars, boundVars, procVars, historyVars
<1>3. ASSUME NEW q \in Proc, DatareFails(q) \/ Overrun(q) PROVE BackInv(p)'
  BY <1>3 DEF DatareFails, Overrun, Goto, kernelVars, boundVars, procVars,
      historyVars
<1>4. ASSUME NEW q \in Proc, Answer(q) PROVE BackInv(p)'
  BY <1>4 DEF Answer, Goto, kernelVars, boundVars, procVars, historyVars
<1>5. ASSUME NEW q \in Proc, Start(q) PROVE BackInv(p)'
  BY <1>5 DEF Start, Goto, kernelVars, boundVars, procVars, historyVars
<1>6. ASSUME NEW q \in Proc, Kill(q) PROVE BackInv(p)'
  BY <1>6 DEF Kill, kernelVars, boundVars, procVars, historyVars
<1>7. CASE Touch \/ Unlink \/ Return
  BY <1>7 DEF Touch, Unlink, Return, Notify, kernelVars, boundVars,
      procVars, historyVars
<1>8. ASSUME NEW q \in Proc,
              Attrib(q) \/ Ignored(q) \/ StartWatch(q) \/
              NothingReported(q) \/ Reported(q) \/ ReadEvents(q) \/
              AddWatch(q) \/ FindFails(q) \/ Find(q) \/ Query(q)
      PROVE  BackInv(p)'
  BY <1>8 DEF Attrib, Ignored, StartWatch, NothingReported, Reported,
      ReadEvents, AddWatch, FindFails, Find, Query, PlaceWatch, Goto,
      kernelVars, boundVars, procVars, historyVars
<1>9. CASE UNCHANGED vars
  BY <1>9 DEF vars, kernelVars, boundVars, procVars, historyVars
<1>10. QED
  BY <1>1, <1>2, <1>3, <1>4, <1>5, <1>6, <1>7, <1>8, <1>9 DEF Next, Kernel, Deliver, Work

-----------------------------------------------------------------------------
\* Nothing is mapped, watched or queued at first.
LEMMA InitInv == Init => IInv
BY ReloadBounds DEF Init, IInv, TypeOK, CallInv, ProcInv, NewInv, MarksInv,
   LoadInv, Load, Coming, Later, Reached, EvbufRoom, HearInv, SyncInv, FreshInv, BackInv,
   Settled, Owed, Version, PC

LEMMA NextInv == IInv /\ [Next]_vars => IInv'
<1> SUFFICES ASSUME IInv, [Next]_vars PROVE IInv'
  OBVIOUS
<1>1. TypeOK' /\ CallInv'
  BY TypeStep, CallStep
<1>2. ASSUME NEW p \in Proc PROVE ProcInv(p)'
  BY NewStep, MarksStep, LoadStep, HearStep, SyncStep, FreshStep, BackStep
     DEF ProcInv
<1> QED
  BY <1>1, <1>2 DEF IInv

\* The inductive invariant holds of every behaviour of Reload.
THEOREM Invariance == Spec => []IInv
BY InitInv, NextInv, PTL DEF Spec

\* The variables of a vdnsd process, the kernel's bookkeeping and the history
\* keep their types.
THEOREM TypeCorrect == Spec => []TypeOK
<1>1. IInv => TypeOK
  BY DEF IInv
<1> QED
  BY <1>1, Invariance, PTL

\* The one-shot watch that tdlookup.c puts back after each reload never leaves
\* a process deaf while the file exists.
THEOREM HearsOfChanges == Spec => []NeverDeaf
<1>1. IInv => NeverDeaf
  BY DEF IInv, ProcInv, HearInv, NeverDeaf
<1> QED
  BY <1>1, Invariance, PTL

\* A process reads an old database only if it has been told of the change, or
\* lost the race between open_read and inotify_add_watch.
THEOREM StaleOnlyForAWhile == Spec => []StaleIsTold
<1>1. IInv => StaleIsTold
  BY DEF IInv, ProcInv, SyncInv, StaleIsTold
<1> QED
  BY <1>1, Invariance, PTL

\* A query taken up after a commit returned is answered from that commit or a
\* later one, the race excepted.
THEOREM AnswersAreFresh == Spec => []FreshAnswer
<1>1. IInv => FreshAnswer
  BY DEF IInv, ProcInv, FreshInv, FreshAnswer
<1> QED
  BY <1>1, Invariance, PTL

\* Where evbuf has room for two events, at most six wait for datachk, however many
\* calls are made: the read writes at most four behind it.
THEOREM EventsAreBounded == Spec => []QueueBound
<1>1. IInv => QueueBound
  BY DEF IInv, TypeOK, ProcInv, LoadInv, Load, Coming, Later, QueueBound, EvbufRoom
<1> QED
  BY <1>1, Invariance, PTL

\* The version a process answers from never decreases.
THEOREM AnswersNeverGoBack == Spec => NeverBack
<1>1. IInv /\ [Next]_vars => [\A p \in Proc : answered'[p] >= answered[p]]_vars
  <2> SUFFICES ASSUME IInv, Next, NEW p \in Proc PROVE answered'[p] >= answered[p]
    BY DEF vars
  <2>1. answered \in [Proc -> Nat]
    BY DEF IInv, TypeOK
  <2>2. ASSUME NEW q \in Proc, Answer(q) PROVE answered'[p] >= answered[p]
    <3>1. map[q] >= answered[q]
      BY <2>2 DEF IInv, ProcInv, FreshInv, BackInv, Answer, Goto
    <3> QED
      BY <2>1, <2>2, <3>1 DEF Answer
  <2>3. CASE UNCHANGED answered
    BY <2>1, <2>3
  <2> QED
    BY <2>2, <2>3 DEF Next, Kernel, Deliver, Work, Commit, Touch, Unlink,
       Return, Attrib, Ignored, StartWatch, NothingReported, Reported,
       ReadEvents, Overrun, Datare, DatareFails, AddWatch, FindFails, Find, Query, Start,
       Kill, PlaceWatch, historyVars
<1> QED
  BY <1>1, Invariance, PTL DEF NeverBack, Spec

-----------------------------------------------------------------------------
(* The refinement: a commit publishes, an unlink withdraws, opening the     *)
(* file turns the process to the current version, and only doit answers.    *)

LEMMA RefineInit == Init => Abstract!Init
BY DEF Init, Abstract!Init

LEMMA RefineNext ==
    ASSUME IInv, [Next]_vars
    PROVE  [Abstract!Next]_(Abstract!vars)
<1> USE DEF IInv, TypeOK, Abstract!vars
<1>1. CASE Commit
  BY <1>1 DEF Commit, procVars, historyVars, Abstract!Next, Abstract!Publish
<1>2. CASE Unlink
  BY <1>2 DEF Unlink, procVars, historyVars, Abstract!Next, Abstract!Withdraw
<1>3. CASE Touch \/ Return
  BY <1>3 DEF Touch, Return, procVars, historyVars
<1>4. ASSUME NEW p \in Proc, Start(p) \/ Datare(p) \/ DatareFails(p)
      PROVE  Abstract!Turn(p)
  BY <1>4 DEF Start, Datare, DatareFails, kernelVars, historyVars, Abstract!Turn
<1>5. ASSUME NEW p \in Proc, Kill(p) \/ Overrun(p) PROVE Abstract!Stop(p)
  BY <1>5 DEF Kill, Overrun, kernelVars, historyVars, Abstract!Stop
<1>6. ASSUME NEW p \in Proc, Answer(p) PROVE Abstract!Answer(p)
  BY <1>6 DEF Answer, Goto, kernelVars, ProcInv, FreshInv, Abstract!Answer
<1>7. ASSUME NEW p \in Proc,
             \/ Deliver(p)
             \/ StartWatch(p) \/ NothingReported(p) \/ Reported(p)
             \/ ReadEvents(p) \/ AddWatch(p) \/ FindFails(p) \/ Find(p)
             \/ Query(p)
      PROVE  UNCHANGED Abstract!vars
  BY <1>7 DEF Deliver, Attrib, Ignored, StartWatch, NothingReported, Reported,
     ReadEvents, AddWatch, FindFails, Find, Query, PlaceWatch, kernelVars,
     historyVars
<1>8. CASE UNCHANGED vars
  BY <1>8 DEF vars, kernelVars, procVars, historyVars
<1> QED
  BY <1>1, <1>2, <1>3, <1>4, <1>5, <1>6, <1>7, <1>8
     DEF Next, Kernel, Work, Abstract!Next

\* The processes together implement the abstract service: what is answered is
\* what was published, from the version current when the process last opened.
THEOREM Refinement == Spec => ImplementsService
<1>1. IInv /\ [Next]_vars => [Abstract!Next]_(Abstract!vars)
  BY RefineNext
<1> QED
  BY <1>1, RefineInit, Invariance, PTL DEF Spec, Abstract!Spec, ImplementsService
=============================================================================
