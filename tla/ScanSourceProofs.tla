-------------------------- MODULE ScanSourceProofs --------------------------
(***************************************************************************)
(* Theorems about ScanSource: the types of its variables, the inductive    *)
(* invariant IInv, and that no finished tree is lost.                      *)
(***************************************************************************)
EXTENDS ScanSourceInv, CatalogTheorems, SequenceTheorems

-----------------------------------------------------------------------------
(* Type correctness                                                        *)

TInv == TypeOK /\ WalkOK

DbType == disk \in CatalogType /\ work \in CatalogType /\ intxn \in BOOLEAN

LEMMA RunType ==
  ASSUME DbType, NEW content \in CatalogType, Run(content)
  PROVE  DbType'
BY DEF DbType, Run

LEMMA FailsType ==
  ASSUME DbType, NEW statement, Fails(statement) \/ CommitFails(statement)
  PROVE  DbType'
BY DEF DbType, Fails, RolledBack, CommitFails, dbVars

LEMMA ReturnType ==
  ASSUME TInv, NEW code \in Results, NEW content \in CatalogType,
         Return(code, content)
  PROVE  TInv'
<1>1. path.place \in Places
  BY DEF TInv, TypeOK, Paths
<1>2. WalkOK'
  BY DEF Return, WalkOK, RecordPoints, BeforeRecords
<1>3. << >> \in Seq(Frames) /\ NoId \in Nat /\ 0 \in 0 .. BatchSize - 1
  BY ScanAssumption DEF NoId
<1>4. AtRoot \in Cursor
  BY <1>1 DEF AtRoot, Cursor, NoId
<1>5. TypeOK'
  BY <1>3, <1>4 DEF TInv, TypeOK, Return, Labels
<1>6. QED
  BY <1>2, <1>5 DEF TInv

LEMMA DropShadowType ==
  ASSUME NEW base \in CatalogType, NEW content \in DropShadow(base)
  PROVE  content \in CatalogType
BY RemoveTreeType DEF DropShadow

LEMMA SourceRowid ==
  ASSUME NEW db \in CatalogType, NEW id \in NewRowids(db.source)
  PROVE  id \in Rowid /\ id \notin IdsOf(db.source)
BY NewRowidsFresh, TableIds

LEMMA ScanRowid ==
  ASSUME NEW db \in CatalogType, NEW id \in NewRowids(db.scan)
  PROVE  id \in Rowid /\ id \notin IdsOf(db.scan)
BY NewRowidsFresh, TableIds

LEMMA EntryRowid ==
  ASSUME NEW db \in CatalogType, NEW id \in NewRowids(db.entry)
  PROVE  id \in Rowid /\ id \notin IdsOf(db.entry)
BY NewRowidsFresh, TableIds

LEMMA InitType == Init => TInv
<1> SUFFICES ASSUME Init PROVE TInv
  OBVIOUS
<1>1. AtRoot \in Cursor
  BY DEF Init, AtRoot, Cursor, NoId
<1>2. path \in Paths
  BY DEF Init, Paths
<1>3. << >> \in Seq(Frames) /\ 0 \in 0 .. BatchSize - 1 /\ 0 \in 0 .. MaxScans
  BY ScanAssumption
<1>4. TypeOK
  BY <1>1, <1>2, <1>3, EmptyCatalogType DEF Init, TypeOK, NoId, Labels, Results
<1>5. QED
  BY <1>4 DEF Init, TInv, WalkOK, RecordPoints, BeforeRecords

(* The stack of activations when one is entered and when one is left.      *)
LEMMA PushType ==
  ASSUME NEW s \in Seq(Frames), NEW f \in Frames
  PROVE  <<f>> \o s \in Seq(Frames) /\ <<f>> \o s # << >>
<1>1. <<f>> \in Seq(Frames) /\ Len(<<f>>) = 1
  OBVIOUS
<1>2. <<f>> \o s \in Seq(Frames) /\ Len(<<f>> \o s) = 1 + Len(s)
  BY <1>1, ConcatProperties
<1>3. QED
  BY <1>2

LEMMA PopType ==
  ASSUME NEW s \in Seq(Frames), s # << >>
  PROVE  Head(s) \in Frames /\ Tail(s) \in Seq(Frames)
OBVIOUS

LEMMA ChildrenType == ASSUME NEW dir PROVE Children(dir) \subseteq Items
BY DEF Children

(* Every step preserves the types.                                         *)
LEMMA NextType == TInv /\ [Next]_vars => TInv'
<1> SUFFICES ASSUME TInv, [Next]_vars PROVE TInv'
  OBVIOUS
<1> USE DEF TInv
<1>1. DbType
  BY DEF TypeOK, DbType
<1>2. CASE StartScan
  <2>1. path' \in Paths
    BY <1>2, ScanAssumption DEF StartScan, Paths
  <2>2. cur' \in Cursor
    BY <1>2, <2>1 DEF StartScan, Cursor, Paths, NoId
  <2>3. scans' \in 0 .. MaxScans
    BY <1>2, ScanAssumption DEF StartScan, TypeOK
  <2>4. TypeOK'
    BY <1>2, <2>1, <2>2, <2>3 DEF StartScan, TypeOK, dbVars, NoId, Labels, Results
  <2>5. WalkOK'
    BY <1>2 DEF StartScan, WalkOK, RecordPoints, BeforeRecords
  <2>6. QED
    BY <2>4, <2>5
<1>3. CASE Recover
  <2>1. DbType'
    BY <1>1, <1>3, RunType, RemoveSourcesType DEF Recover, TypeOK
  <2>2. QED
    BY <1>3, <2>1 DEF Recover, DbType, TypeOK, WalkOK, jobVars, walkVars, Labels,
                      RecordPoints, BeforeRecords
<1>4. CASE LookUp
  <2>1. CASE Return("error", disk)
    BY <2>1, ReturnType DEF TypeOK, Results
  <2>2. CASE pc' = "newsource" /\ UNCHANGED <<dbVars, path, sid, scid, walkVars, active,
                                              cancelled, skipped, result, scans>>
    <3>1. \A r \in FindByPath(work, path) : r \in Nat
      BY DEF FindByPath, TypeOK, CatalogType, Rowid
    <3>2. old' \in Nat
      BY <1>4, <2>2, <3>1 DEF LookUp, NoId, Return
    <3>3. QED
      BY <2>2, <3>2 DEF TypeOK, WalkOK, dbVars, walkVars, Labels, RecordPoints, BeforeRecords
  <2>3. QED
    BY <1>4, <2>1, <2>2 DEF LookUp
<1>5. CASE CreateSource
  <2>1. CASE Return("error", disk)
    BY <2>1, ReturnType DEF TypeOK, Results
  <2>2. ASSUME NEW id \in NewRowids(work.source), Run(InsertSource(work, id, path)), sid' = id,
               pc' = "newscan",
               UNCHANGED <<path, old, scid, walkVars, active, cancelled, skipped, result, scans>>
        PROVE  TInv'
    <3>1. id \in Rowid /\ id \in Nat
      BY SourceRowid DEF TypeOK, Rowid
    <3>2. DbType'
      BY <1>1, <2>2, <3>1, RunType, InsertSourceType DEF TypeOK
    <3>3. QED
      BY <2>2, <3>1, <3>2 DEF DbType, TypeOK, WalkOK, walkVars, Labels, RecordPoints, BeforeRecords
  <2>3. QED
    BY <1>5, <2>1, <2>2 DEF CreateSource
<1>6. CASE CreateScan
  <2>1. CASE Return("error", disk)
    BY <2>1, ReturnType DEF TypeOK, Results
  <2>2. ASSUME NEW id \in NewRowids(work.scan), Run(InsertScan(work, id, sid)), scid' = id,
               pc' = "begin",
               UNCHANGED <<path, old, sid, walkVars, active, cancelled, skipped, result, scans>>
        PROVE  TInv'
    <3>1. id \in Rowid /\ id \in Nat
      BY ScanRowid DEF TypeOK, Rowid
    <3>2. sid \in Rowid
      BY <1>6 DEF CreateScan, WalkOK, RecordPoints, BeforeRecords, Labels
    <3>3. DbType'
      BY <1>1, <2>2, <3>1, <3>2, RunType, InsertScanType DEF TypeOK
    <3>4. QED
      BY <2>2, <3>1, <3>2, <3>3 DEF DbType, TypeOK, WalkOK, walkVars, Labels
  <2>3. QED
    BY <1>6, <2>1, <2>2 DEF CreateScan
<1>7. CASE BeginScan
  BY <1>7 DEF BeginScan, TypeOK, WalkOK, jobVars, walkVars, Labels, RecordPoints, BeforeRecords
<1>8. CASE OpenDirectory
  <2>1. PICK todo \in {Children(cur.item)} \cup {{}} :
          stack' = <<[id |-> cur.id, dir |-> cur.item, todo |-> todo]>> \o stack
    BY <1>8 DEF OpenDirectory
  <2>2. [id |-> cur.id, dir |-> cur.item, todo |-> todo] \in Frames
    BY <2>1, ChildrenType DEF TypeOK, Cursor, Frames
  <2>3. stack' \in Seq(Frames) /\ stack' # << >>
    BY <2>1, <2>2, PushType DEF TypeOK
  <2>4. QED
    BY <1>8, <2>3 DEF OpenDirectory, TypeOK, WalkOK, dbVars, jobVars, Labels,
                      RecordPoints, BeforeRecords
<1>9. CASE LoseListing
  <2>1. stack # << >>
    BY <1>9 DEF LoseListing, WalkOK
  <2>2. Innermost \in Frames /\ Tail(stack) \in Seq(Frames)
    BY <2>1, PopType DEF TypeOK, Innermost
  <2>3. [Innermost EXCEPT !.todo = {}] \in Frames
    BY <2>2 DEF Frames
  <2>4. stack' \in Seq(Frames) /\ stack' # << >>
    BY <1>9, <2>2, <2>3, PushType DEF LoseListing
  <2>5. QED
    BY <1>9, <2>4 DEF LoseListing, TypeOK, WalkOK, dbVars, jobVars
<1>10. CASE VisitEntry
  <2>1. stack # << >>
    BY <1>10 DEF VisitEntry, WalkOK
  <2>2. Innermost \in Frames /\ Tail(stack) \in Seq(Frames)
    BY <2>1, PopType DEF TypeOK, Innermost
  <2>3. PICK item \in Innermost.todo :
          /\ stack' = <<[Innermost EXCEPT !.todo = @ \ {item}]>> \o Tail(stack)
          /\ \/ \E id \in NewRowids(work.entry) :
                  /\ EntryKeysHold(work, id, sid, Innermost.id)
                  /\ Run(InsertEntry(work, id, sid, Innermost.id, item))
                  /\ cur' = [id |-> id, item |-> item]
                  /\ pc' = "index"
                  /\ UNCHANGED skipped
             \/ /\ \/ "unreadable" \in Trouble /\ UNCHANGED dbVars
                   \/ Fails("entry")
                   \/ /\ \E id \in NewRowids(work.entry) :
                           ~EntryKeysHold(work, id, sid, Innermost.id)
                      /\ UNCHANGED dbVars
                /\ CountError(item)
                /\ UNCHANGED <<pc, cur>>
    BY <1>10 DEF VisitEntry
  <2>4. item \in Items /\ Innermost.id \in Nat
    BY <2>2 DEF Frames
  <2>5. [Innermost EXCEPT !.todo = @ \ {item}] \in Frames
    BY <2>2 DEF Frames
  <2>6. stack' \in Seq(Frames) /\ stack' # << >>
    BY <2>2, <2>3, <2>5, PushType
  <2>7. sid \in Rowid
    BY <1>10 DEF VisitEntry, WalkOK, RecordPoints, BeforeRecords, Labels
  <2>8. ASSUME NEW id \in NewRowids(work.entry),
               Run(InsertEntry(work, id, sid, Innermost.id, item)),
               cur' = [id |-> id, item |-> item], pc' = "index", UNCHANGED skipped
        PROVE  TInv'
    <3>1. id \in Rowid /\ id \in Nat
      BY EntryRowid DEF TypeOK, Rowid
    <3>2. DbType'
      BY <1>1, <2>4, <2>7, <2>8, <3>1, RunType, InsertEntryType DEF TypeOK
    <3>3. cur' \in Cursor /\ cur'.id \in Rowid
      BY <2>4, <2>8, <3>1 DEF Cursor
    <3>4. QED
      BY <1>10, <2>6, <2>7, <2>8, <3>2, <3>3 DEF VisitEntry, DbType, TypeOK, WalkOK, jobVars, Labels
  <2>9. ASSUME UNCHANGED dbVars \/ Fails("entry"), CountError(item), UNCHANGED <<pc, cur>>
        PROVE  TInv'
    <3>1. DbType'
      BY <1>1, <2>9, FailsType DEF DbType, dbVars
    <3>2. skipped' \subseteq Items \cup Places
      BY <2>4, <2>9 DEF CountError, TypeOK
    <3>3. QED
      BY <1>10, <2>6, <2>9, <3>1, <3>2 DEF VisitEntry, DbType, TypeOK, WalkOK, jobVars
  <2>10. QED
    BY <2>3, <2>8, <2>9
<1>11. CASE IndexEntry
  <2>1. DbType'
    <3>1. CASE cur.id \notin work.fts /\ Run(InsertFts(work, cur.id))
      <4>1. cur.id \in Rowid
        BY <1>11 DEF IndexEntry, WalkOK
      <4>2. QED
        BY <1>1, <3>1, <4>1, RunType, InsertFtsType DEF TypeOK
    <3>2. CASE UNCHANGED dbVars \/ Fails("fts")
      BY <1>1, <3>2, FailsType DEF DbType, dbVars
    <3>3. QED
      BY <1>11, <3>1, <3>2 DEF IndexEntry
  <2>2. batch' \in 0 .. BatchSize - 1
    BY <1>11, ScanAssumption DEF IndexEntry, NextBatch, TypeOK
  <2>3. pc' \in {"batch", "entry"}
    BY <1>11 DEF IndexEntry
  <2>4. QED
    BY <1>11, <2>1, <2>2, <2>3 DEF IndexEntry, DbType, TypeOK, WalkOK, jobVars, Labels,
                                   RecordPoints, BeforeRecords
<1>12. CASE CommitBatch
  <2>1. DbType' /\ pc' \in {"entry", "unwind"}
    BY <1>1, <1>12, FailsType DEF CommitBatch, DbType
  <2>2. QED
    BY <1>12, <2>1 DEF CommitBatch, DbType, TypeOK, WalkOK, jobVars, walkVars, Labels,
                       RecordPoints, BeforeRecords
<1>13. CASE FinishEntry
  <2>1. DbType'
    <3>1. CASE Run(InsertSide(work, cur.id))
      <4>1. cur.id \in Rowid
        BY <1>13 DEF FinishEntry, WalkOK
      <4>2. QED
        BY <1>1, <3>1, <4>1, RunType, InsertSideType DEF TypeOK
    <3>2. CASE UNCHANGED dbVars \/ Fails("side")
      BY <1>1, <3>2, FailsType DEF DbType, dbVars
    <3>3. QED
      BY <1>13, <3>1, <3>2 DEF FinishEntry
  <2>2. pc' \in {"open", "walk"}
    BY <1>13 DEF FinishEntry
  <2>3. QED
    BY <1>13, <2>1, <2>2 DEF FinishEntry, DbType, TypeOK, WalkOK, jobVars, walkVars, Labels,
                             RecordPoints, BeforeRecords
<1>14. CASE LeaveDirectory
  <2>1. stack # << >>
    BY <1>14 DEF LeaveDirectory, WalkOK
  <2>2. stack' \in Seq(Frames)
    BY <1>14, <2>1, PopType DEF LeaveDirectory, Outer, TypeOK
  <2>3. \/ pc' = "commit"
        \/ pc' = "walk" /\ stack' # << >>
    BY <1>14 DEF LeaveDirectory, AfterReturn, Outer
  <2>4. QED
    BY <1>14, <2>2, <2>3 DEF LeaveDirectory, TypeOK, WalkOK, dbVars, jobVars, Labels,
                             RecordPoints, BeforeRecords
<1>15. CASE LeaveOnError
  <2>1. stack # << >>
    BY <1>15 DEF LeaveOnError, WalkOK
  <2>2. stack' \in Seq(Frames) /\ Innermost.dir \in Items \cup Places
    BY <1>15, <2>1, PopType DEF LeaveOnError, Outer, Innermost, TypeOK, Frames
  <2>3. \/ pc' = "failed"
        \/ pc' = "walk" /\ stack' # << >>
    BY <1>15 DEF LeaveOnError, AfterReturn, Outer
  <2>4. skipped' \subseteq Items \cup Places
    BY <1>15, <2>2 DEF LeaveOnError, CountError, TypeOK
  <2>5. QED
    BY <1>15, <2>2, <2>3, <2>4 DEF LeaveOnError, TypeOK, WalkOK, dbVars, jobVars, Labels,
                                   RecordPoints, BeforeRecords
<1>16. CASE StopWalk
  BY <1>16 DEF StopWalk, TypeOK, WalkOK, dbVars, jobVars, Labels, RecordPoints, BeforeRecords
<1>17. CASE ScanFile
  <2>1. sid \in Rowid
    BY <1>17 DEF ScanFile, WalkOK, RecordPoints, BeforeRecords, Labels
  <2>2. CASE (Fails("entry") \/ Fails("side")) /\ pc' \in {"commit", "failed"}
    BY <1>1, <1>17, <2>1, <2>2, FailsType DEF ScanFile, DbType, TypeOK, WalkOK, jobVars, walkVars, Labels
  <2>3. ASSUME NEW id \in NewRowids(work.entry), NEW item \in Children(path.place),
               NEW side \in {{}} \cup (IF item \in Hashed THEN {{id}} ELSE {}),
               Run([InsertEntry(work, id, sid, NoId, item) EXCEPT !.side = @ \cup side]),
               pc' = "commit"
        PROVE  TInv'
    <3>1. id \in Rowid
      BY EntryRowid DEF TypeOK
    <3>2. InsertEntry(work, id, sid, NoId, item) \in CatalogType
      BY <2>1, <3>1, ChildrenType, InsertEntryType DEF TypeOK, NoId
    <3>3. side \subseteq Rowid
      BY <3>1
    <3>4. [InsertEntry(work, id, sid, NoId, item) EXCEPT !.side = @ \cup side] \in CatalogType
      BY <3>2, <3>3 DEF CatalogType
    <3>5. DbType'
      BY <1>1, <2>3, <3>4, RunType
    <3>6. QED
      BY <1>17, <2>1, <2>3, <3>5 DEF ScanFile, DbType, TypeOK, WalkOK, jobVars, walkVars, Labels
  <2>4. QED
    BY <1>17, <2>2, <2>3 DEF ScanFile, Fails
<1>18. CASE CancelFirstScan
  <2>1. FinishScan(disk, scid, "Cancelled") \in CatalogType
    BY FinishScanType DEF TypeOK, Statuses
  <2>2. QED
    BY <1>18, <2>1, ReturnType DEF CancelFirstScan, TypeOK, Results
<1>19. CASE CancelReplacement
  BY <1>19, ReturnType, DropShadowType DEF CancelReplacement, TypeOK, Results
<1>20. CASE FailScan
  BY <1>20, ReturnType, DropShadowType DEF FailScan, TypeOK, Results
<1>21. CASE CommitScan
  <2>1. DbType'
    BY <1>1, <1>21, FailsType DEF CommitScan, Commits, DbType
  <2>2. QED
    BY <1>21, <2>1 DEF CommitScan, DbType, TypeOK, WalkOK, jobVars, walkVars, Labels,
                       RecordPoints, BeforeRecords
<1>22. CASE RemoveOld
  <2>1. DbType'
    <3>1. RemoveTree(work, old) \in CatalogType
      BY <1>1, RemoveTreeType DEF DbType
    <3>2. intxn' \in BOOLEAN /\ disk' = disk /\ work' \in {work, disk, RemoveTree(work, old)}
      BY <1>1, <1>22 DEF RemoveOld, DbType, dbVars
    <3>3. QED
      BY <1>1, <3>1, <3>2 DEF DbType
  <2>2. pc' \in {"close", "drop"} /\ active' \in BOOLEAN
    BY <1>22, <1>1 DEF RemoveOld, DbType, AfterSwitchError
  <2>3. QED
    BY <1>22, <2>1, <2>2 DEF RemoveOld, DbType, TypeOK, WalkOK, jobVars, walkVars, Labels,
                             RecordPoints, BeforeRecords
<1>23. CASE CloseScan
  <2>1. FinishScan(work, scid, IF cancelled THEN "Cancelled" ELSE "Completed") \in CatalogType
    BY FinishScanType DEF TypeOK, Statuses
  <2>2. DbType'
    BY <1>1, <1>23, <2>1, RunType, FailsType DEF CloseScan
  <2>3. QED
    BY <1>23, <2>2 DEF CloseScan, DbType, TypeOK, WalkOK, jobVars, walkVars, Labels,
                       RecordPoints, BeforeRecords
<1>24. CASE CommitSwitch
  <2>1. DbType' /\ pc' \in {"done", "drop"}
    BY <1>1, <1>24 DEF CommitSwitch, Commits, DbType, dbVars, AfterSwitchError
  <2>2. QED
    BY <1>24, <2>1 DEF CommitSwitch, DbType, TypeOK, WalkOK, jobVars, walkVars, Labels,
                       RecordPoints, BeforeRecords
<1>25. CASE DropAfterSwitch
  BY <1>25, ReturnType, DropShadowType DEF DropAfterSwitch, TypeOK, Results
<1>26. CASE Finish
  BY <1>26, ReturnType DEF Finish, TypeOK, Results
<1>27. CASE Interrupt
  BY <1>27 DEF Interrupt, TypeOK, WalkOK, dbVars, jobVars, walkVars
<1>28. CASE Crash
  BY <1>28, ReturnType DEF Crash, TypeOK, Results
<1>29. CASE Rest \/ UNCHANGED vars
  BY <1>29 DEF Rest, vars, TypeOK, WalkOK, dbVars, jobVars, walkVars
<1>30. QED
  BY <1>2, <1>3, <1>4, <1>5, <1>6, <1>7, <1>8, <1>9, <1>10, <1>11, <1>12, <1>13, <1>14, <1>15,
     <1>16, <1>17, <1>18, <1>19, <1>20, <1>21, <1>22, <1>23, <1>24, <1>25, <1>26, <1>27, <1>28,
     <1>29 DEF Next, ScannerStep

(* At every moment, whatever is scanned and whatever fails, the variables  *)
(* of scan_source and both contents of the database have their types: the  *)
(* record ids it holds on to, the stack of activations, the batch counter  *)
(* within its bound, rows whose foreign keys are rowids.                   *)
THEOREM TypeCorrect == Spec => []TypeOK
<1>1. TInv => TypeOK
  BY DEF TInv
<1>2. QED
  BY <1>1, InitType, NextType, PTL DEF Spec

-----------------------------------------------------------------------------
(* No finished tree is lost.  IInv is inductive, and no step allowed by it *)
(* takes the last finished tree of a place away.  The one assumption of    *)
(* FinishedTreesSurvive is that the UPDATE which closes the scan row,      *)
(* ScanManager::finish, is not among the statements that fail leaving      *)
(* their transaction open.                                                 *)

(* The part of IInv that is not about types.                               *)
RInv == ConnectionOK /\ KeysOK(disk) /\ RecordsOK /\ SwitchOK

LEMMA IInvParts == IInv <=> TInv /\ RInv
BY DEF IInv, TInv, RInv

Keeps(db1, db2) ==
  \A place \in Places : Settled(db1, place) # {} => Settled(db2, place) # {}

-----------------------------------------------------------------------------
(* What happens to the keys and to the finished trees of a content         *)

LEMMA SettledRows ==
  ASSUME NEW db, NEW place, NEW r
  PROVE  r \in Settled(db, place) <=>
           /\ r \in db.source
           /\ r.path.place = place
           /\ \E x \in db.scan : x.source = r.id /\ x.status # "InProgress"
BY DEF Settled, SettledIds, SettledScans

LEMMA KeepsSame ==
  ASSUME NEW db1, NEW db2, SameRecords(db1, db2)
  PROVE  Keeps(db1, db2) /\ (KeysOK(db1) => KeysOK(db2))
BY DEF Keeps, Settled, SettledIds, SettledScans, SameRecords, KeysOK

LEMMA KeepsGrowing ==
  ASSUME NEW db1, NEW db2, db1.source \subseteq db2.source, db1.scan \subseteq db2.scan
  PROVE  Keeps(db1, db2)
<1> SUFFICES ASSUME NEW place \in Places, NEW r \in Settled(db1, place)
             PROVE  r \in Settled(db2, place)
  BY DEF Keeps
<1> QED
  BY SettledRows

(* Recovery: whatever part of the removals ran, a scan row outlives its    *)
(* source row nowhere, and only unfinished trees were touched.             *)
LEMMA RecoveryKeeps ==
  ASSUME NEW db \in CatalogType, KeysOK(db), NEW done, DOMAIN done = InProgressSources(db),
         \A s \in DOMAIN done : done[s] \in 0 .. RemoveSteps
  PROVE  KeysOK(RemoveSources(db, done)) /\ Keeps(db, RemoveSources(db, done))
<1> DEFINE new == RemoveSources(db, done)
<1>1. /\ new.source = {r \in db.source : ~(r.id \in DOMAIN done /\ done[r.id] >= 5)}
      /\ new.scan = {r \in db.scan : ~(r.source \in DOMAIN done /\ done[r.source] >= 4)}
  BY RemoveSourcesType
<1> HIDE DEF new
<1>2. KeysOK(new)
  <2>1. ASSUME NEW x \in new.scan PROVE x.source \in IdsOf(new.source)
    <3>1. PICK r \in db.source : r.id = x.source
      BY <1>1 DEF KeysOK, IdsOf
    <3>2. ~(r.id \in DOMAIN done /\ done[r.id] >= 5)
      BY <1>1, <3>1 DEF RemoveSteps
    <3>3. QED
      BY <1>1, <3>1, <3>2 DEF IdsOf
  <2>2. QED
    BY <1>1, <2>1 DEF KeysOK
<1>3. ASSUME NEW place \in Places, NEW r \in Settled(db, place)
      PROVE  r \in Settled(new, place)
  <2>1. PICK x \in db.scan : x.source = r.id /\ x.status # "InProgress"
    BY SettledRows
  <2>2. r.id \notin DOMAIN done
    BY <2>1 DEF InProgressSources, KeysOK
  <2>3. QED
    BY <1>1, <2>1, <2>2, SettledRows
<1>4. QED
  BY <1>2, <1>3 DEF Keeps, new

(* drop_shadow: the tree it removes is not finished.                       *)
LEMMA DropShadowKeeps ==
  ASSUME NEW db \in CatalogType, KeysOK(db),
         \E x \in db.scan : x.source = sid /\ x.status = "InProgress",
         NEW content \in DropShadow(db)
  PROVE  KeysOK(content) /\ Keeps(db, content)
<1>1. CASE content = db
  BY <1>1 DEF Keeps
<1>2. CASE content = RemoveTree(db, sid)
  <2>1. /\ content.source = {r \in db.source : r.id # sid}
        /\ content.scan = {r \in db.scan : r.source # sid}
    BY <1>2, RemoveTreeType
  <2>2. KeysOK(content)
    BY <2>1 DEF KeysOK, IdsOf
  <2>3. ASSUME NEW place \in Places, NEW r \in Settled(db, place)
        PROVE  r \in Settled(content, place)
    BY <2>1, SettledRows DEF KeysOK
  <2>4. QED
    BY <2>2, <2>3 DEF Keeps
<1>3. QED
  BY <1>1, <1>2 DEF DropShadow

(* Closing a scan row only adds to what is finished.                       *)
LEMMA FinishKeeps ==
  ASSUME NEW db \in CatalogType, KeysOK(db), NEW id, NEW status \in {"Completed", "Cancelled"}
  PROVE  KeysOK(FinishScan(db, id, status)) /\ Keeps(db, FinishScan(db, id, status))
<1> DEFINE new == FinishScan(db, id, status)
<1> DEFINE Closed(x) == IF x.id = id THEN [x EXCEPT !.status = status] ELSE x
<1>1. new.source = db.source /\ new.scan = {Closed(x) : x \in db.scan}
  BY FinishScanType DEF Statuses
<1>2. \A x \in db.scan : /\ Closed(x).id = x.id
                         /\ Closed(x).source = x.source
                         /\ x.status # "InProgress" => Closed(x).status # "InProgress"
  BY DEF CatalogType
<1> HIDE DEF new, Closed
<1>3. KeysOK(new)
  BY <1>1, <1>2 DEF KeysOK
<1>4. ASSUME NEW place \in Places, NEW r \in Settled(db, place)
      PROVE  r \in Settled(new, place)
  <2>1. PICK x \in db.scan : x.source = r.id /\ x.status # "InProgress"
    BY SettledRows
  <2>2. Closed(x) \in new.scan /\ Closed(x).source = r.id /\ Closed(x).status # "InProgress"
    BY <1>1, <1>2, <2>1
  <2>3. QED
    BY <1>1, <2>2, SettledRows
<1>5. QED
  BY <1>3, <1>4 DEF Keeps, new

-----------------------------------------------------------------------------
(* The steps of the walk and of the last COMMIT write entries, full-text   *)
(* and side rows only: the source and scan rows stay as they are.          *)

WalkAction ==
  \/ BeginScan \/ OpenDirectory \/ LoseListing \/ VisitEntry \/ IndexEntry \/ CommitBatch
  \/ FinishEntry \/ LeaveDirectory \/ LeaveOnError \/ StopWalk \/ ScanFile \/ CommitScan

QuietDb ==
  /\ SameRecords(disk, disk')
  /\ SameRecords(work', disk')
  /\ ~intxn' => work' = disk'

Quiet ==
  /\ pc \in EntryPoints
  /\ pc' \in EntryPoints \ {"begin"}
  /\ UNCHANGED jobVars
  /\ QuietDb

LEMMA QuietRun ==
  ASSUME IInv, pc \in EntryPoints, NEW content, SameRecords(content, work), Run(content)
  PROVE  QuietDb
BY DEF IInv, ConnectionOK, SameRecords, Run, QuietDb

LEMMA QuietFails ==
  ASSUME IInv, pc \in EntryPoints, NEW statement,
         UNCHANGED dbVars \/ Fails(statement) \/ CommitFails(statement)
  PROVE  QuietDb
BY DEF IInv, ConnectionOK, SameRecords, Fails, RolledBack, CommitFails, QuietDb, dbVars

LEMMA EntriesOnly ==
  ASSUME NEW db \in CatalogType, NEW id, NEW s, NEW parent, NEW item, NEW side
  PROVE  /\ SameRecords(InsertEntry(db, id, s, parent, item), db)
         /\ SameRecords([InsertEntry(db, id, s, parent, item) EXCEPT !.side = @ \cup side], db)
         /\ SameRecords(InsertFts(db, id), db)
         /\ SameRecords(InsertSide(db, id), db)
BY DEF CatalogType, SameRecords, InsertEntry, InsertFts, InsertSide

LEMMA WalkIsQuiet == IInv /\ WalkAction => Quiet
<1> SUFFICES ASSUME IInv, WalkAction PROVE Quiet
  OBVIOUS
<1> USE DEF EntryPoints
<1>1. work \in CatalogType
  BY DEF IInv, TypeOK
<1>2. CASE BeginScan
  <2>1. work = disk /\ intxn'
    BY <1>2 DEF BeginScan, IInv, ConnectionOK
  <2>2. pc = "begin" /\ pc' \in {"file", "open", "failed"}
    BY <1>2 DEF BeginScan
  <2>3. QED
    BY <1>2, <2>1, <2>2 DEF BeginScan, Quiet, QuietDb, SameRecords
<1>3. CASE OpenDirectory \/ LoseListing \/ StopWalk
  BY <1>3, QuietFails DEF OpenDirectory, LoseListing, StopWalk, Quiet
<1>4. CASE VisitEntry
  <2>1. QuietDb
    BY <1>1, <1>4, EntriesOnly, QuietRun, QuietFails DEF VisitEntry
  <2>2. QED
    BY <1>4, <2>1 DEF VisitEntry, Quiet
<1>5. CASE IndexEntry
  <2>1. QuietDb
    BY <1>1, <1>5, EntriesOnly, QuietRun, QuietFails DEF IndexEntry
  <2>2. QED
    BY <1>5, <2>1 DEF IndexEntry, Quiet
<1>6. CASE CommitBatch
  <2>1. CASE CommitFails("batch")
    BY <1>6, <2>1, QuietFails DEF CommitBatch, Quiet
  <2>2. CASE intxn /\ disk' = work /\ UNCHANGED <<work, intxn>> /\ pc' = "entry"
    BY <1>6, <2>2 DEF CommitBatch, IInv, ConnectionOK, Quiet, QuietDb, SameRecords
  <2>3. QED
    BY <1>6, <2>1, <2>2 DEF CommitBatch
<1>7. CASE FinishEntry
  <2>1. QuietDb
    BY <1>1, <1>7, EntriesOnly, QuietRun, QuietFails DEF FinishEntry
  <2>2. QED
    BY <1>7, <2>1 DEF FinishEntry, Quiet
<1>8. CASE LeaveDirectory \/ LeaveOnError
  <2>1. QuietDb
    BY <1>8, QuietFails DEF LeaveDirectory, LeaveOnError
  <2>2. pc \in EntryPoints /\ pc' \in {"walk", "commit", "failed"}
    BY <1>8 DEF LeaveDirectory, LeaveOnError, AfterReturn
  <2>3. QED
    BY <1>8, <2>1, <2>2 DEF LeaveDirectory, LeaveOnError, Quiet
<1>9. CASE ScanFile
  <2>1. QuietDb
    BY <1>1, <1>9, EntriesOnly, QuietRun, QuietFails DEF ScanFile, Fails
  <2>2. QED
    BY <1>9, <2>1 DEF ScanFile, Quiet
<1>10. CASE CommitScan
  <2>1. CASE CommitFails("final")
    BY <1>10, <2>1, QuietFails DEF CommitScan, Quiet
  <2>2. CASE Commits
    BY <1>10, <2>2 DEF CommitScan, Commits, IInv, ConnectionOK, Quiet, QuietDb, SameRecords
  <2>3. QED
    BY <1>10, <2>1, <2>2 DEF CommitScan
<1>11. QED
  BY <1>2, <1>3, <1>4, <1>5, <1>6, <1>7, <1>8, <1>9, <1>10 DEF WalkAction

LEMMA QuietRInv == IInv /\ Quiet => RInv'
<1> SUFFICES ASSUME IInv, Quiet PROVE RInv'
  OBVIOUS
<1> USE DEF Quiet, QuietDb
<1>1. ConnectionOK'
  BY DEF ConnectionOK, EntryPoints, BeforeRecords, SameRecords
<1>2. KeysOK(disk)'
  BY KeepsSame DEF IInv, KeysOK, SameRecords
<1>3. RecordsOK'
  BY DEF IInv, RecordsOK, EntryPoints, RecordPoints, OpenScanPoints, BeforeRecords, Labels,
         SameRecords, jobVars, IdsOf
<1>4. SwitchOK'
  BY DEF SwitchOK, EntryPoints
<1>5. QED
  BY <1>1, <1>2, <1>3, <1>4 DEF RInv

-----------------------------------------------------------------------------
(* The end of scan_source                                                  *)

LEMMA ReturnRInv ==
  ASSUME NEW code, NEW content, KeysOK(content), Return(code, content)
  PROVE  RInv'
BY DEF Return, RInv, KeysOK, ConnectionOK, RecordsOK, SwitchOK, BeforeRecords, EntryPoints,
       RecordPoints, OpenScanPoints

(* The scan row of the running scan is the only one of its source.         *)
LEMMA RunningScanOpen ==
  ASSUME IInv, pc \in OpenScanPoints
  PROVE  \E x \in disk.scan : x.source = sid /\ x.status = "InProgress"
BY DEF IInv, RecordsOK

(* What the transaction of the switch commits: the records without those   *)
(* of the old tree, and the scan row of the new one closed.                *)
LEMMA SwitchRecords ==
  ASSUME IInv, pc = "swcommit", intxn
  PROVE  /\ KeysOK(work)
         /\ work.source = {r \in disk.source : r.id # old}
         /\ [id |-> sid, path |-> path] \in work.source
         /\ \A x \in work.scan : \E y \in disk.scan :
              y.source # old /\ y.source = x.source /\ (x.source # sid => x = y)
         /\ \A y \in disk.scan : y.source \notin {old, sid} => y \in work.scan
         /\ \E x \in work.scan :
              x.source = sid /\ ("finish" \notin Failing => x.status # "InProgress")
<1>1. work.source = {r \in disk.source : r.id # old}
  BY DEF IInv, SwitchOK
<1>2. PICK status \in ClosingStatuses :
        work.scan = {IF x.id = scid THEN [x EXCEPT !.status = status] ELSE x :
                       x \in {y \in disk.scan : y.source # old}}
  BY DEF IInv, SwitchOK
<1> DEFINE Closed(x) == IF x.id = scid THEN [x EXCEPT !.status = status] ELSE x
<1> DEFINE mine == [id |-> scid, source |-> sid, status |-> "InProgress"]
<1>3. work.scan = {Closed(x) : x \in {y \in disk.scan : y.source # old}}
  BY <1>2
<1>4. "finish" \notin Failing => status # "InProgress"
  BY DEF ClosingStatuses
<1>5. \A x \in disk.scan : /\ Closed(x).id = x.id
                           /\ Closed(x).source = x.source
                           /\ x.id = scid => Closed(x).status = status
                           /\ x.id # scid => Closed(x) = x
  BY DEF IInv, TypeOK, CatalogType
<1> HIDE DEF Closed
<1>6. [id |-> sid, path |-> path] \in disk.source /\ old # sid /\ mine \in disk.scan
  BY DEF IInv, RecordsOK, OpenScanPoints, RecordPoints, BeforeRecords, Labels
<1>7. mine.id = scid /\ mine.source = sid
  OBVIOUS
<1> HIDE DEF mine
<1>8. KeysOK(disk)
  BY DEF IInv
<1>9. KeysOK(work)
  <2>1. \A a, b \in work.source : a.id = b.id => a = b
    BY <1>1, <1>8 DEF KeysOK
  <2>2. \A x, y \in work.scan : x.id = y.id \/ x.source = y.source => x = y
    BY <1>3, <1>5, <1>8 DEF KeysOK
  <2>3. \A x \in work.scan : x.source \in IdsOf(work.source)
    BY <1>1, <1>3, <1>5, <1>8 DEF KeysOK, IdsOf
  <2>4. QED
    BY <2>1, <2>2, <2>3 DEF KeysOK
<1>10. [id |-> sid, path |-> path] \in work.source
  BY <1>1, <1>6
<1>11. ASSUME NEW x \in work.scan
       PROVE  \E y \in disk.scan :
                y.source # old /\ y.source = x.source /\ (x.source # sid => x = y)
  <2>1. PICK y \in disk.scan : y.source # old /\ x = Closed(y)
    BY <1>3
  <2>2. y.id = scid => y = mine
    BY <1>6, <1>7, <1>8 DEF KeysOK
  <2>3. QED
    BY <1>5, <1>7, <2>1, <2>2
<1>12. ASSUME NEW y \in disk.scan, y.source \notin {old, sid}
       PROVE  y \in work.scan
  <2>1. y.id # scid
    BY <1>6, <1>7, <1>8, <1>12 DEF KeysOK
  <2>2. Closed(y) = y
    BY <1>5, <2>1
  <2>3. QED
    BY <1>3, <1>12, <2>2
<1>13. \E x \in work.scan :
         x.source = sid /\ ("finish" \notin Failing => x.status # "InProgress")
  <2>1. Closed(mine) \in work.scan
    BY <1>3, <1>6, <1>7
  <2>2. Closed(mine).source = sid /\ Closed(mine).status = status
    BY <1>5, <1>6, <1>7
  <2>3. QED
    BY <1>4, <2>1, <2>2
<1>14. QED
  BY <1>1, <1>9, <1>10, <1>11, <1>12, <1>13

LEMMA SwitchKeeps ==
  ASSUME IInv, pc = "swcommit", intxn, "finish" \notin Failing
  PROVE  Keeps(disk, work)
<1>1. SUFFICES ASSUME NEW place \in Places, NEW r \in Settled(disk, place)
               PROVE  Settled(work, place) # {}
  BY DEF Keeps
<1>2. PICK x \in disk.scan : x.source = r.id /\ x.status # "InProgress"
  BY SettledRows
<1>3. r \in disk.source /\ r.path.place = place
  BY SettledRows
<1>4. /\ [id |-> sid, path |-> path] \in work.source
      /\ \E y \in work.scan : y.source = sid /\ y.status # "InProgress"
  BY SwitchRecords
<1>5. CASE r.id \in {old, sid}
  <2>1. /\ [id |-> sid, path |-> path] \in disk.source
        /\ \A q \in disk.source : q.id = old => q.path.place = path.place
        /\ KeysOK(disk)
    BY DEF IInv, RecordsOK, RecordPoints, BeforeRecords, Labels
  <2>2. path.place = place
    BY <1>3, <1>5, <2>1 DEF KeysOK
  <2>3. [id |-> sid, path |-> path] \in Settled(work, place)
    BY <1>4, <2>2, SettledRows
  <2>4. QED
    BY <2>3
<1>6. CASE r.id \notin {old, sid}
  <2>1. x \in work.scan
    BY <1>2, <1>6, SwitchRecords
  <2>2. r \in work.source
    BY <1>3, <1>6, SwitchRecords
  <2>3. r \in Settled(work, place)
    BY <1>2, <1>3, <2>1, <2>2, SettledRows
  <2>4. QED
    BY <2>3
<1>7. QED
  BY <1>5, <1>6

-----------------------------------------------------------------------------
(* The two halves of the theorem                                           *)

LEMMA InitRInv == Init => RInv
BY DEF Init, RInv, ConnectionOK, KeysOK, RecordsOK, SwitchOK, EmptyCatalog, BeforeRecords,
       EntryPoints, RecordPoints, OpenScanPoints

LEMMA NextRInv ==
  ASSUME IInv, [Next]_vars
  PROVE  RInv'
<1>1. disk \in CatalogType /\ work \in CatalogType /\ KeysOK(disk)
  BY DEF IInv, TypeOK
<1>2. CASE WalkAction
  BY <1>2, WalkIsQuiet, QuietRInv
<1>3. CASE StartScan
  BY <1>1, <1>3 DEF StartScan, dbVars, IInv, KeysOK, RInv, ConnectionOK, RecordsOK, SwitchOK,
                    BeforeRecords, EntryPoints, RecordPoints, OpenScanPoints
<1>4. CASE Recover
  <2>1. ~intxn /\ work = disk
    BY <1>4 DEF Recover, IInv, ConnectionOK, BeforeRecords
  <2>2. KeysOK(RemoveSources(disk, Completely(InProgressSources(disk))))
    BY <1>1, RecoveryKeeps DEF Completely, RemoveSteps
  <2>3. \A done \in [InProgressSources(disk) -> 0 .. RemoveSteps] :
          KeysOK(RemoveSources(disk, done))
    BY <1>1, RecoveryKeeps
  <2>4. KeysOK(disk') /\ ~intxn' /\ work' = disk' /\ pc' = "lookup"
    BY <1>4, <2>1, <2>2, <2>3 DEF Recover, Run
  <2>5. QED
    BY <2>4 DEF RInv, KeysOK, ConnectionOK, RecordsOK, SwitchOK, BeforeRecords, EntryPoints,
                RecordPoints, OpenScanPoints
<1>5. CASE LookUp
  <2>1. CASE Return("error", disk)
    BY <1>1, <2>1, ReturnRInv
  <2>2. CASE pc' = "newsource" /\ ~Return("error", disk)
    <3>1. UNCHANGED <<dbVars, path>> /\ old' \in FindByPath(work, path) \cup {NoId}
      BY <1>5, <2>2 DEF LookUp
    <3>2. ~intxn /\ work = disk
      BY <1>5 DEF LookUp, IInv, ConnectionOK, BeforeRecords
    <3>3. \A id \in FindByPath(disk, path) :
            \E r \in disk.source : r.id = id /\ r.path.place = path.place
      BY DEF FindByPath, Trimmed, IInv, TypeOK, Paths
    <3>4. \A r \in disk.source : r.id # NoId
      BY <1>1 DEF CatalogType, Rowid, NoId
    <3>5. old' \in IdsOf(disk.source) \cup {NoId}
      BY <3>1, <3>2, <3>3 DEF IdsOf
    <3>6. \A r \in disk.source : r.id = old' => r.path.place = path.place
      BY <1>1, <3>1, <3>2, <3>3, <3>4 DEF KeysOK
    <3>7. QED
      BY <1>1, <2>2, <3>1, <3>2, <3>5, <3>6
         DEF dbVars, RInv, KeysOK, ConnectionOK, RecordsOK, SwitchOK, BeforeRecords,
             EntryPoints, RecordPoints, OpenScanPoints
  <2>3. QED
    BY <1>5, <2>1, <2>2 DEF LookUp
<1>6. CASE CreateSource
  <2>1. CASE Return("error", disk)
    BY <1>1, <2>1, ReturnRInv
  <2>2. ASSUME NEW id \in NewRowids(work.source), Run(InsertSource(work, id, path)), sid' = id,
               pc' = "newscan", UNCHANGED <<path, old>>
        PROVE  RInv'
    <3>1. ~intxn /\ work = disk /\ old \in IdsOf(disk.source) \cup {NoId}
      BY <1>6 DEF CreateSource, IInv, ConnectionOK, RecordsOK, BeforeRecords
    <3>2. id \in Rowid /\ id \notin IdsOf(disk.source)
      BY <1>1, <2>2, <3>1, SourceRowid
    <3>3. /\ disk'.source = disk.source \cup {[id |-> id, path |-> path]}
          /\ disk'.scan = disk.scan
          /\ work' = disk' /\ ~intxn'
      BY <1>1, <2>2, <3>1, <3>2, InsertSourceType DEF Run, IInv, TypeOK
    <3>4. \A r \in disk.source : r.id = old => r.path.place = path.place
      BY <1>6 DEF CreateSource, IInv, RecordsOK
    <3>5. old # id
      BY <3>1, <3>2 DEF Rowid, NoId
    <3>6. KeysOK(disk')
      BY <1>1, <3>2, <3>3 DEF KeysOK, IdsOf
    <3>7. ConnectionOK' /\ SwitchOK'
      BY <2>2, <3>3 DEF ConnectionOK, SwitchOK, EntryPoints
    <3>8. RecordsOK'
      BY <1>1, <2>2, <3>2, <3>3, <3>4, <3>5 DEF RecordsOK, OpenScanPoints, KeysOK
    <3>9. QED
      BY <3>6, <3>7, <3>8 DEF RInv, KeysOK
  <2>3. QED
    BY <1>6, <2>1, <2>2 DEF CreateSource
<1>7. CASE CreateScan
  <2>1. CASE Return("error", disk)
    BY <1>1, <2>1, ReturnRInv
  <2>2. ASSUME NEW id \in NewRowids(work.scan), Run(InsertScan(work, id, sid)), scid' = id,
               pc' = "begin", UNCHANGED <<path, old, sid>>
        PROVE  RInv'
    <3>1. ~intxn /\ work = disk
      BY <1>7 DEF CreateScan, IInv, ConnectionOK
    <3>2. /\ [id |-> sid, path |-> path] \in disk.source
          /\ old # sid
          /\ \A x \in disk.scan : x.source # sid
          /\ \A r \in disk.source : r.id = old => r.path.place = path.place
      BY <1>7 DEF CreateScan, IInv, RecordsOK, RecordPoints, BeforeRecords, Labels
    <3>3. id \in Rowid /\ id \notin IdsOf(disk.scan)
      BY <1>1, <2>2, <3>1, ScanRowid
    <3>4. sid \in Rowid
      BY <1>1, <3>2 DEF CatalogType
    <3>5. /\ disk'.source = disk.source
          /\ disk'.scan = disk.scan \cup {[id |-> id, source |-> sid, status |-> "InProgress"]}
          /\ work' = disk' /\ ~intxn'
      BY <1>1, <2>2, <3>1, <3>3, <3>4, InsertScanType DEF Run
    <3>6. KeysOK(disk')
      BY <1>1, <3>2, <3>3, <3>5 DEF KeysOK, IdsOf
    <3>7. ConnectionOK' /\ SwitchOK'
      BY <2>2, <3>5 DEF ConnectionOK, SwitchOK, SameRecords
    <3>8. RecordsOK'
      BY <2>2, <3>2, <3>5 DEF RecordsOK
    <3>9. QED
      BY <3>6, <3>7, <3>8 DEF RInv, KeysOK
  <2>3. QED
    BY <1>7, <2>1, <2>2 DEF CreateScan
<1>8. CASE CancelFirstScan
  BY <1>1, <1>8, FinishKeeps, ReturnRInv DEF CancelFirstScan
<1>9. CASE CancelReplacement
  <2>1. PICK content \in DropShadow(disk) : Return("cancelled", content)
    BY <1>9 DEF CancelReplacement
  <2>2. pc \in OpenScanPoints
    BY <1>9 DEF CancelReplacement, OpenScanPoints, RecordPoints, BeforeRecords, Labels
  <2>3. QED
    BY <1>1, <2>1, <2>2, RunningScanOpen, DropShadowKeeps, ReturnRInv
<1>10. CASE FailScan
  <2>1. PICK content \in DropShadow(disk) : Return("error", content)
    BY <1>10 DEF FailScan
  <2>2. pc \in OpenScanPoints
    BY <1>10 DEF FailScan, OpenScanPoints, RecordPoints, BeforeRecords, Labels
  <2>3. QED
    BY <1>1, <2>1, <2>2, RunningScanOpen, DropShadowKeeps, ReturnRInv
<1>11. CASE RemoveOld
  <2>1. /\ pc = "switch" /\ pc' \in {"close", "drop"} /\ disk' = disk /\ UNCHANGED jobVars
    BY <1>11 DEF RemoveOld, AfterSwitchError, dbVars
  <2>2. SameRecords(work, disk)
    BY <2>1 DEF IInv, ConnectionOK, EntryPoints
  <2>3. KeysOK(disk)' /\ RecordsOK'
    BY <1>1, <2>1 DEF IInv, KeysOK, RecordsOK, RecordPoints, OpenScanPoints, BeforeRecords,
                      Labels, jobVars
  <2>4. CASE pc' = "drop"
    <3>1. ~intxn' => work' = disk'
      BY <1>11, <2>4 DEF RemoveOld, dbVars, IInv, ConnectionOK
    <3>2. QED
      BY <2>3, <2>4, <3>1 DEF RInv, ConnectionOK, SwitchOK, BeforeRecords, EntryPoints
  <2>5. CASE pc' = "close"
    <3>1. intxn' /\ \/ old = NoId /\ work' = work
                    \/ work' = RemoveTree(work, old)
      BY <1>11, <2>5 DEF RemoveOld, AfterSwitchError
    <3>2. \A r \in disk.source : r.id # NoId
      BY <1>1 DEF CatalogType, Rowid, NoId
    <3>3. \A x \in disk.scan : x.source # NoId
      BY <1>1 DEF CatalogType, Rowid, NoId
    <3>4. /\ work'.source = {r \in disk.source : r.id # old}
          /\ work'.scan = {x \in disk.scan : x.source # old}
      BY <1>1, <2>2, <3>1, <3>2, <3>3, RemoveTreeType DEF SameRecords
    <3>5. SwitchOK'
      BY <2>1, <2>5, <3>4 DEF SwitchOK, jobVars
    <3>6. QED
      BY <2>3, <2>5, <3>1, <3>5 DEF RInv, ConnectionOK, BeforeRecords, EntryPoints
  <2>6. QED
    BY <2>1, <2>4, <2>5
<1>12. CASE CloseScan
  <2>1. pc = "close" /\ pc' = "swcommit" /\ intxn /\ UNCHANGED jobVars
    BY <1>12 DEF CloseScan, IInv, ConnectionOK
  <2>2. \/ /\ intxn' /\ disk' = disk
           /\ \E status \in {"Completed", "Cancelled"} : work' = FinishScan(work, scid, status)
        \/ "finish" \in Failing /\ intxn' /\ disk' = disk /\ work' = work
        \/ ~intxn' /\ disk' = disk /\ work' = disk
    BY <1>12, <2>1 DEF CloseScan, Run, Fails, RolledBack, dbVars
  <2>3. KeysOK(disk)' /\ RecordsOK'
    BY <1>1, <2>1, <2>2 DEF IInv, KeysOK, RecordsOK, RecordPoints, OpenScanPoints,
                            BeforeRecords, Labels, jobVars
  <2>4. ConnectionOK'
    BY <2>1, <2>2 DEF ConnectionOK, BeforeRecords, EntryPoints
  <2>5. /\ work.source = {r \in disk.source : r.id # old}
        /\ work.scan = {x \in disk.scan : x.source # old}
    BY <2>1 DEF IInv, SwitchOK
  <2>6. SwitchOK'
    <3>1. CASE ~intxn'
      BY <2>1, <3>1 DEF SwitchOK
    <3>2. ASSUME NEW status \in {"Completed", "Cancelled"}, disk' = disk,
                 work' = FinishScan(work, scid, status)
          PROVE  SwitchOK'
      <4>1. /\ work'.source = work.source
            /\ work'.scan = {IF x.id = scid THEN [x EXCEPT !.status = status] ELSE x :
                               x \in work.scan}
        BY <1>1, <3>2, FinishScanType DEF Statuses
      <4>2. /\ work'.source = {r \in disk'.source : r.id # old'}
            /\ work'.scan = {IF x.id = scid' THEN [x EXCEPT !.status = status] ELSE x :
                               x \in {y \in disk'.scan : y.source # old'}}
        BY <2>1, <2>5, <3>2, <4>1 DEF jobVars
      <4>3. status \in ClosingStatuses /\ pc' = "swcommit"
        BY <2>1 DEF ClosingStatuses
      <4>4. QED
        BY <4>2, <4>3 DEF SwitchOK, ClosingStatuses
    <3>3. CASE "finish" \in Failing /\ disk' = disk /\ work' = work
      <4>1. [id |-> scid, source |-> sid, status |-> "InProgress"] \in disk.scan
        BY <2>1 DEF IInv, RecordsOK, OpenScanPoints, RecordPoints, BeforeRecords, Labels
      <4>2. \A x \in disk.scan : x.id = scid =>
              x = [id |-> scid, source |-> sid, status |-> "InProgress"]
        BY <1>1, <4>1 DEF KeysOK
      <4>3. \A x \in disk.scan :
              (IF x.id = scid THEN [x EXCEPT !.status = "InProgress"] ELSE x) = x
        BY <4>2
      <4>4. work.scan = {IF x.id = scid THEN [x EXCEPT !.status = "InProgress"] ELSE x :
                           x \in {y \in disk.scan : y.source # old}}
        BY <2>5, <4>3
      <4>5. QED
        BY <2>1, <2>5, <3>3, <4>4 DEF SwitchOK, jobVars, ClosingStatuses
    <3>4. QED
      BY <2>2, <3>1, <3>2, <3>3
  <2>7. QED
    BY <2>3, <2>4, <2>6 DEF RInv
<1>13. CASE CommitSwitch
  <2>1. pc = "swcommit" /\ UNCHANGED jobVars
    BY <1>13 DEF CommitSwitch
  <2>2. CASE Commits /\ pc' = "done"
    <3>1. intxn /\ disk' = work /\ work' = work /\ ~intxn'
      BY <2>2 DEF Commits
    <3>2. /\ KeysOK(work)
          /\ [id |-> sid, path |-> path] \in work.source
          /\ \A r \in work.source : r.id # old
      BY <2>1, <3>1, SwitchRecords
    <3>3. QED
      BY <2>1, <2>2, <3>1, <3>2 DEF RInv, KeysOK, ConnectionOK, RecordsOK, SwitchOK,
                                    RecordPoints, OpenScanPoints, EntryPoints, BeforeRecords,
                                    jobVars
  <2>3. CASE disk' = disk /\ pc' = "drop" /\ (~intxn' => work' = disk')
    BY <1>1, <2>1, <2>3 DEF IInv, RInv, KeysOK, ConnectionOK, RecordsOK, SwitchOK, RecordPoints,
                            OpenScanPoints, EntryPoints, BeforeRecords, Labels, jobVars
  <2>4. QED
    BY <1>13, <2>2, <2>3 DEF CommitSwitch, AfterSwitchError, dbVars, IInv, ConnectionOK
<1>14. CASE DropAfterSwitch
  <2>1. PICK content \in {disk} \cup DropShadow(disk) : Return("error", content)
    BY <1>14 DEF DropAfterSwitch
  <2>2. pc \in OpenScanPoints
    BY <1>14 DEF DropAfterSwitch, OpenScanPoints, RecordPoints, BeforeRecords, Labels
  <2>3. QED
    BY <1>1, <2>1, <2>2, RunningScanOpen, DropShadowKeeps, ReturnRInv
<1>15. CASE Finish \/ Crash
  BY <1>1, <1>15, ReturnRInv DEF Finish, Crash
<1>16. CASE Interrupt \/ Rest \/ UNCHANGED vars
  BY <1>16 DEF Interrupt, Rest, vars, dbVars, jobVars, IInv, RInv, KeysOK, ConnectionOK,
               RecordsOK, SwitchOK
<1>17. QED
  BY <1>2, <1>3, <1>4, <1>5, <1>6, <1>7, <1>8, <1>9, <1>10, <1>11, <1>12, <1>13, <1>14,
     <1>15, <1>16 DEF Next, ScannerStep, WalkAction

LEMMA NextKeeps ==
  ASSUME "finish" \notin Failing, IInv, [Next]_vars
  PROVE  Keeps(disk, disk')
<1>1. disk \in CatalogType /\ KeysOK(disk)
  BY DEF IInv, TypeOK
<1>2. CASE WalkAction
  BY <1>2, WalkIsQuiet, KeepsSame DEF Quiet, QuietDb
<1>3. CASE disk' = disk
  BY <1>3 DEF Keeps
<1>4. CASE Recover
  <2>1. ~intxn /\ work = disk
    BY <1>4 DEF Recover, IInv, ConnectionOK, BeforeRecords
  <2>2. Keeps(disk, RemoveSources(disk, Completely(InProgressSources(disk))))
    BY <1>1, RecoveryKeeps DEF Completely, RemoveSteps
  <2>3. \A done \in [InProgressSources(disk) -> 0 .. RemoveSteps] :
          Keeps(disk, RemoveSources(disk, done))
    BY <1>1, RecoveryKeeps
  <2>4. QED
    BY <1>4, <2>1, <2>2, <2>3 DEF Recover, Run
<1>5. CASE CreateSource
  <2>1. ~intxn /\ work = disk
    BY <1>5 DEF CreateSource, IInv, ConnectionOK, BeforeRecords
  <2>2. CASE disk' # disk
    <3>1. PICK id \in NewRowids(work.source) : Run(InsertSource(work, id, path))
      BY <1>5, <2>2 DEF CreateSource, Return
    <3>2. id \in Rowid
      BY <1>1, <2>1, <3>1, SourceRowid
    <3>3. disk.source \subseteq disk'.source /\ disk.scan \subseteq disk'.scan
      BY <1>1, <2>1, <3>1, <3>2, InsertSourceType DEF Run, IInv, TypeOK
    <3>4. QED
      BY <3>3, KeepsGrowing
  <2>3. QED
    BY <1>3, <2>2
<1>6. CASE CreateScan
  <2>1. ~intxn /\ work = disk /\ sid \in Rowid
    BY <1>6 DEF CreateScan, IInv, ConnectionOK, WalkOK, RecordPoints, BeforeRecords, Labels
  <2>2. CASE disk' # disk
    <3>1. PICK id \in NewRowids(work.scan) : Run(InsertScan(work, id, sid))
      BY <1>6, <2>2 DEF CreateScan, Return
    <3>2. id \in Rowid
      BY <1>1, <2>1, <3>1, ScanRowid
    <3>3. disk.source \subseteq disk'.source /\ disk.scan \subseteq disk'.scan
      BY <1>1, <2>1, <3>1, <3>2, InsertScanType DEF Run
    <3>4. QED
      BY <3>3, KeepsGrowing
  <2>3. QED
    BY <1>3, <2>2
<1>7. CASE CancelFirstScan
  BY <1>1, <1>3, <1>7, FinishKeeps DEF CancelFirstScan, Return
<1>8. CASE CancelReplacement \/ FailScan \/ DropAfterSwitch
  <2>1. pc \in OpenScanPoints
    BY <1>8 DEF CancelReplacement, FailScan, DropAfterSwitch, OpenScanPoints, RecordPoints,
                BeforeRecords, Labels
  <2>2. PICK content \in {disk} \cup DropShadow(disk) : disk' = content
    BY <1>8 DEF CancelReplacement, FailScan, DropAfterSwitch, Return
  <2>3. QED
    BY <1>1, <1>3, <2>1, <2>2, RunningScanOpen, DropShadowKeeps
<1>9. CASE CommitSwitch
  <2>1. CASE Commits
    BY <1>9, <2>1, SwitchKeeps DEF CommitSwitch, Commits
  <2>2. QED
    BY <1>3, <1>9, <2>1 DEF CommitSwitch, dbVars
<1>10. CASE CloseScan
  <2>1. intxn
    BY <1>10 DEF CloseScan, IInv, ConnectionOK
  <2>2. disk' = disk
    BY <1>10, <2>1 DEF CloseScan, Run, Fails, RolledBack, dbVars
  <2>3. QED
    BY <1>3, <2>2
<1>11. CASE StartScan \/ LookUp \/ RemoveOld \/ Finish \/ Interrupt \/ Crash \/ Rest \/ UNCHANGED vars
  <2>1. disk' = disk
    BY <1>11 DEF StartScan, LookUp, RemoveOld, Finish, Interrupt, Crash, Rest, Return, vars, dbVars
  <2>2. QED
    BY <1>3, <2>1
<1>12. QED
  BY <1>2, <1>4, <1>5, <1>6, <1>7, <1>8, <1>9, <1>10, <1>11 DEF Next, ScannerStep, WalkAction

-----------------------------------------------------------------------------
(* Whatever fails, is cancelled or killed, the records of the running      *)
(* scan, the tree it replaces and what its switch is about to commit are   *)
(* at each control point what IInv says: the InProgress scan row of the    *)
(* shadow tree is there from its creation to the switch, no source has two *)
(* scan rows, and nothing else is in the transaction of the switch.        *)
THEOREM RecordsAreSafe == Spec => []IInv
<1>1. Init => IInv
  BY InitType, InitRInv, IInvParts
<1>2. IInv /\ [Next]_vars => IInv'
  <2>1. TInv' /\ RInv' => IInv'
    BY IInvParts DEF IInv, TInv, RInv
  <2>2. QED
    BY <2>1, NextType, NextRInv, IInvParts
<1>3. QED
  BY <1>1, <1>2, PTL DEF Spec

(* As long as ScanManager::finish succeeds, a place that has a finished    *)
(* tree has one after every step: whatever else of scan_source fails, is   *)
(* cancelled or killed, for every tree, batch size and number of scans.    *)
THEOREM FinishedTreesSurvive ==
  ASSUME "finish" \notin Failing
  PROVE  Spec => NeverLost
<1>1. IInv /\ [Next]_vars =>
        [\A place \in Places : Settled(disk, place) # {} => Settled(disk', place) # {}]_vars
  BY NextKeeps DEF Keeps
<1>2. QED
  BY <1>1, RecordsAreSafe, PTL DEF Spec, NeverLost
=============================================================================
