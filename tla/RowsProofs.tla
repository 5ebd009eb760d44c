----------------------------- MODULE RowsProofs -----------------------------
(***************************************************************************)
(* The rows of the catalogue: no row is left behind by the tree it came    *)
(* with, and no finished tree is altered.  The argument is RowsInv: every  *)
(* statement keeps the owners of the rows, and touches the shadow tree or  *)
(* the trees it is meant to remove, and no other.                          *)
(***************************************************************************)
EXTENDS ScanSourceProofs

-----------------------------------------------------------------------------
(* Trees of two contents compared row by row                               *)

LEMMA TreeSame ==
  ASSUME NEW db1, NEW db2, NEW s,
         \A e : e.source = s => (e \in db1.entry <=> e \in db2.entry),
         \A e \in db1.entry : e.source = s =>
           (e.id \in db1.fts <=> e.id \in db2.fts) /\ (e.id \in db1.side <=> e.id \in db2.side),
         \A x : x.source = s => (x \in db1.scan <=> x \in db2.scan)
  PROVE  Tree(db2, s) = Tree(db1, s)
<1>1. EntriesOf(db1, s) = EntriesOf(db2, s)
  BY DEF EntriesOf
<1>2. \A i \in EntryIdsOf(db1, s) :
        (i \in db1.fts <=> i \in db2.fts) /\ (i \in db1.side <=> i \in db2.side)
  BY DEF EntryIdsOf, EntriesOf, IdsOf
<1>3. EntryIdsOf(db1, s) = EntryIdsOf(db2, s)
  BY <1>1 DEF EntryIdsOf
<1>4. /\ db1.fts \cap EntryIdsOf(db1, s) = db2.fts \cap EntryIdsOf(db2, s)
      /\ db1.side \cap EntryIdsOf(db1, s) = db2.side \cap EntryIdsOf(db2, s)
  BY <1>2, <1>3
<1>5. {x \in db1.scan : x.source = s} = {x \in db2.scan : x.source = s}
  OBVIOUS
<1>6. QED
  BY <1>1, <1>4, <1>5 DEF Tree

LEMMA TreeRows ==
  ASSUME NEW db1, NEW db2, NEW s, Tree(db2, s) = Tree(db1, s)
  PROVE  /\ \A e : e.source = s => (e \in db1.entry <=> e \in db2.entry)
         /\ \A e \in db1.entry : e.source = s =>
              (e.id \in db1.fts <=> e.id \in db2.fts) /\ (e.id \in db1.side <=> e.id \in db2.side)
         /\ \A x : x.source = s => (x \in db1.scan <=> x \in db2.scan)
<1>1. /\ EntriesOf(db1, s) = EntriesOf(db2, s)
      /\ db1.fts \cap EntryIdsOf(db1, s) = db2.fts \cap EntryIdsOf(db2, s)
      /\ db1.side \cap EntryIdsOf(db1, s) = db2.side \cap EntryIdsOf(db2, s)
      /\ {x \in db1.scan : x.source = s} = {x \in db2.scan : x.source = s}
  BY DEF Tree
<1>2. EntryIdsOf(db1, s) = EntryIdsOf(db2, s)
  BY <1>1 DEF EntryIdsOf
<1>3. \A e \in db1.entry : e.source = s => e.id \in EntryIdsOf(db1, s)
  BY DEF EntryIdsOf, EntriesOf, IdsOf
<1>4. \A e : e.source = s => (e \in db1.entry <=> e \in db2.entry)
  BY <1>1 DEF EntriesOf
<1>5. \A x : x.source = s => (x \in db1.scan <=> x \in db2.scan)
  BY <1>1
<1>6. QED
  BY <1>1, <1>2, <1>3, <1>4, <1>5

LEMMA KeptSame == ASSUME NEW db, NEW S PROVE TreesKept(db, db, S)
BY DEF TreesKept

LEMMA KeptTwice ==
  ASSUME NEW a, NEW b, NEW c, NEW S, NEW T, T \subseteq S,
         TreesKept(a, b, S), TreesKept(b, c, T),
         \A r \in a.source : r.id \notin S => r \in b.source
  PROVE  TreesKept(a, c, S)
BY DEF TreesKept, IdsOf

-----------------------------------------------------------------------------
(* What each statement does to the rows                                    *)

(* new is db with an entry written, and its side rows if it has any.       *)
Written(db, new, id, s, parent, item, side) ==
  /\ new.source = db.source
  /\ new.scan = db.scan
  /\ new.fts = db.fts
  /\ new.side = db.side \cup side
  /\ new.entry = db.entry \cup {[id |-> id, source |-> s, parent |-> parent, item |-> item]}

LEMMA InsertEntryWrites ==
  ASSUME NEW db \in CatalogType, NEW id, NEW s, NEW parent, NEW item, NEW side
  PROVE  /\ Written(db, InsertEntry(db, id, s, parent, item), id, s, parent, item, {})
         /\ Written(db, [InsertEntry(db, id, s, parent, item) EXCEPT !.side = @ \cup side],
                    id, s, parent, item, side)
BY DEF InsertEntry, CatalogType, Written

(* A new entry has a new rowid and an existing source.                     *)
LEMMA InsertEntryRows ==
  ASSUME NEW db \in CatalogType, EntriesOK(db), NEW id \in NewRowids(db.entry),
         NEW s \in IdsOf(db.source), NEW parent, NEW item, NEW side \in SUBSET {id},
         NEW new, Written(db, new, id, s, parent, item, side)
  PROVE  /\ EntriesOK(new)
         /\ TreesKept(db, new, {s})
         /\ SameRecords(new, db)
         /\ id \notin IdsOf(db.entry)
         /\ \A e \in new.entry : e.id = id => e.source = s
         /\ id \in IdsOf(new.entry)
<1>1. id \notin IdsOf(db.entry)
  BY EntryRowid
<1> DEFINE row == [id |-> id, source |-> s, parent |-> parent, item |-> item]
<1>2. /\ new.source = db.source /\ new.scan = db.scan /\ new.fts = db.fts
      /\ new.entry = db.entry \cup {row} /\ new.side = db.side \cup side
  BY DEF Written
<1>3. row.id = id /\ row.source = s
  OBVIOUS
<1> HIDE DEF row
<1>4. \A e \in db.entry : e.id # id
  BY <1>1 DEF IdsOf
<1>5. IdsOf(new.entry) = IdsOf(db.entry) \cup {id}
  BY <1>2, <1>3 DEF IdsOf
<1>6. EntriesOK(new)
  <2>1. \A a, b \in new.entry : a.id = b.id => a = b
    BY <1>2, <1>3, <1>4 DEF EntriesOK
  <2>2. \A e \in new.entry : e.source \in IdsOf(new.source)
    BY <1>2, <1>3 DEF EntriesOK
  <2>3. new.fts \cup new.side \subseteq IdsOf(new.entry)
    BY <1>2, <1>5 DEF EntriesOK
  <2>4. QED
    BY <2>1, <2>2, <2>3 DEF EntriesOK
<1>7. ASSUME NEW t \in IdsOf(db.source) \ {s} PROVE Tree(new, t) = Tree(db, t)
  <2>1. \A e : e.source = t => (e \in db.entry <=> e \in new.entry)
    BY <1>2, <1>3
  <2>2. \A e \in db.entry : e.source = t =>
          (e.id \in db.fts <=> e.id \in new.fts) /\ (e.id \in db.side <=> e.id \in new.side)
    BY <1>2, <1>4
  <2>3. \A x : x.source = t => (x \in db.scan <=> x \in new.scan)
    BY <1>2
  <2>4. QED
    BY <2>1, <2>2, <2>3, TreeSame
<1>8. \A e \in new.entry : e.id = id => e.source = s
  BY <1>2, <1>3, <1>4
<1>9. QED
  BY <1>1, <1>2, <1>5, <1>6, <1>7, <1>8 DEF TreesKept, SameRecords

(* new is db with the full-text row or the side rows of one entry written. *)
Indexed(db, new, id) ==
  /\ new.source = db.source
  /\ new.scan = db.scan
  /\ new.entry = db.entry
  /\ new.fts \in {db.fts, db.fts \cup {id}}
  /\ new.side \in {db.side, db.side \cup {id}}

LEMMA InsertIndexWrites ==
  ASSUME NEW db \in CatalogType, NEW id
  PROVE  Indexed(db, InsertFts(db, id), id) /\ Indexed(db, InsertSide(db, id), id)
BY DEF InsertFts, InsertSide, CatalogType, Indexed

(* A full-text or side row is written for an entry of the source s.        *)
LEMMA InsertIndexRows ==
  ASSUME NEW db \in CatalogType, EntriesOK(db), NEW id \in IdsOf(db.entry), NEW s,
         \A e \in db.entry : e.id = id => e.source = s,
         NEW new, Indexed(db, new, id)
  PROVE  /\ EntriesOK(new)
         /\ TreesKept(db, new, {s})
         /\ SameRecords(new, db)
         /\ new.entry = db.entry
<1>1. /\ new.source = db.source /\ new.scan = db.scan /\ new.entry = db.entry
      /\ new.fts \in {db.fts, db.fts \cup {id}} /\ new.side \in {db.side, db.side \cup {id}}
  BY DEF Indexed
<1>2. EntriesOK(new)
  BY <1>1 DEF EntriesOK
<1>3. ASSUME NEW t \in IdsOf(db.source) \ {s} PROVE Tree(new, t) = Tree(db, t)
  <2>1. \A e \in db.entry : e.source = t => e.id # id
    OBVIOUS
  <2>2. \A e \in db.entry : e.source = t =>
          (e.id \in db.fts <=> e.id \in new.fts) /\ (e.id \in db.side <=> e.id \in new.side)
    BY <1>1, <2>1
  <2>3. QED
    BY <1>1, <2>2, TreeSame
<1>4. QED
  BY <1>1, <1>2, <1>3 DEF TreesKept, SameRecords

LEMMA InsertSourceRows ==
  ASSUME NEW db \in CatalogType, EntriesOK(db), NEW id, NEW p,
         NEW new, new = InsertSource(db, id, p)
  PROVE  EntriesOK(new) /\ TreesKept(db, new, {})
<1>1. /\ db.source \subseteq new.source /\ new.scan = db.scan /\ new.entry = db.entry
      /\ new.fts = db.fts /\ new.side = db.side
  BY DEF InsertSource, CatalogType
<1>2. EntriesOK(new)
  BY <1>1 DEF EntriesOK, IdsOf
<1>3. QED
  BY <1>1, <1>2, TreeSame DEF TreesKept

LEMMA InsertScanRows ==
  ASSUME NEW db \in CatalogType, EntriesOK(db), NEW id, NEW s,
         NEW new, new = InsertScan(db, id, s)
  PROVE  EntriesOK(new) /\ TreesKept(db, new, {s})
<1>1. /\ new.source = db.source /\ new.entry = db.entry
      /\ new.scan = db.scan \cup {[id |-> id, source |-> s, status |-> "InProgress"]}
      /\ new.fts = db.fts /\ new.side = db.side
  BY DEF InsertScan, CatalogType
<1>2. EntriesOK(new)
  BY <1>1 DEF EntriesOK
<1>3. ASSUME NEW t, t # s PROVE \A x : x.source = t => (x \in db.scan <=> x \in new.scan)
  BY <1>1, <1>3
<1>4. QED
  BY <1>1, <1>2, <1>3, TreeSame DEF TreesKept

LEMMA FinishScanRows ==
  ASSUME NEW db \in CatalogType, EntriesOK(db), NEW id, NEW s, NEW status \in Statuses,
         \A x \in db.scan : x.id = id => x.source = s,
         NEW new, new = FinishScan(db, id, status)
  PROVE  EntriesOK(new) /\ TreesKept(db, new, {s})
<1> DEFINE Closed(x) == IF x.id = id THEN [x EXCEPT !.status = status] ELSE x
<1>1. /\ new.source = db.source /\ new.entry = db.entry
      /\ new.fts = db.fts /\ new.side = db.side
  BY DEF FinishScan, CatalogType
<1>2. new.scan = {Closed(x) : x \in db.scan}
  BY FinishScanType
<1>3. \A x \in db.scan : Closed(x).source = x.source /\ (x.id # id => Closed(x) = x)
  BY DEF CatalogType
<1> HIDE DEF Closed
<1>4. EntriesOK(new)
  BY <1>1 DEF EntriesOK
<1>5. ASSUME NEW t, t # s PROVE \A x : x.source = t => (x \in db.scan <=> x \in new.scan)
  BY <1>2, <1>3, <1>5
<1>6. QED
  BY <1>1, <1>4, <1>5, TreeSame DEF TreesKept

(* remove_tree, as far as it got for each source: the order of its DELETEs *)
(* lets no row outlive the row it hangs off.                               *)
LEMMA RemoveSourcesRows ==
  ASSUME NEW db \in CatalogType, EntriesOK(db), NEW done,
         \A s \in DOMAIN done : done[s] \in 0 .. RemoveSteps,
         NEW new, new = RemoveSources(db, done)
  PROVE  EntriesOK(new) /\ TreesKept(db, new, DOMAIN done)
<1> DEFINE Passed(s, n) == s \in DOMAIN done /\ done[s] >= n
<1>1. /\ new.source = {r \in db.source : ~Passed(r.id, 5)}
      /\ new.scan = {r \in db.scan : ~Passed(r.source, 4)}
  BY RemoveSourcesType
<1>2. /\ new.entry = {e \in db.entry : ~Passed(e.source, 3)}
      /\ new.fts = db.fts \ IdsOf({e \in db.entry : Passed(e.source, 2)})
      /\ new.side = db.side \ IdsOf({e \in db.entry : Passed(e.source, 1)})
  BY DEF RemoveSources
<1>3. \A s : /\ Passed(s, 5) => Passed(s, 3)
             /\ Passed(s, 3) => Passed(s, 2) /\ Passed(s, 1)
  BY DEF RemoveSteps
<1>4. \A s, n : s \notin DOMAIN done => ~Passed(s, n)
  OBVIOUS
<1> HIDE DEF Passed
<1>5. EntriesOK(new)
  <2>1. \A a, b \in new.entry : a.id = b.id => a = b
    BY <1>2 DEF EntriesOK
  <2>2. ASSUME NEW e \in new.entry PROVE e.source \in IdsOf(new.source)
    BY <1>1, <1>2, <1>3 DEF EntriesOK, IdsOf
  <2>3. ASSUME NEW i \in new.fts \cup new.side PROVE i \in IdsOf(new.entry)
    <3>1. PICK e \in db.entry : e.id = i
      BY <1>2 DEF EntriesOK, IdsOf
    <3>2. ~Passed(e.source, 2) \/ ~Passed(e.source, 1)
      BY <1>2, <3>1 DEF IdsOf
    <3>3. e \in new.entry
      BY <1>2, <1>3, <3>2
    <3>4. QED
      BY <3>1, <3>3 DEF IdsOf
  <2>4. QED
    BY <2>1, <2>2, <2>3 DEF EntriesOK
<1>6. ASSUME NEW t \in IdsOf(db.source) \ DOMAIN done PROVE Tree(new, t) = Tree(db, t)
  <2>1. \A e : e.source = t => (e \in db.entry <=> e \in new.entry)
    BY <1>2, <1>4
  <2>2. ASSUME NEW e \in db.entry, e.source = t
        PROVE  (e.id \in db.fts <=> e.id \in new.fts) /\ (e.id \in db.side <=> e.id \in new.side)
    <3>1. \A f \in db.entry : f.id = e.id => ~Passed(f.source, 1) /\ ~Passed(f.source, 2)
      BY <1>4, <2>2 DEF EntriesOK
    <3>2. QED
      BY <1>2, <3>1 DEF IdsOf
  <2>3. \A x : x.source = t => (x \in db.scan <=> x \in new.scan)
    BY <1>1, <1>4
  <2>4. QED
    BY <2>1, <2>2, <2>3, TreeSame
<1>7. QED
  BY <1>5, <1>6 DEF TreesKept

LEMMA RemoveTreeRows ==
  ASSUME NEW db \in CatalogType, EntriesOK(db), NEW s, NEW new, new = RemoveTree(db, s)
  PROVE  EntriesOK(new) /\ TreesKept(db, new, {s})
<1> DEFINE done == Completely({s})
<1>1. DOMAIN done = {s} /\ \A x \in DOMAIN done : done[x] \in 0 .. RemoveSteps
  BY DEF Completely, RemoveSteps
<1>2. new = RemoveSources(db, done)
  BY DEF RemoveTree
<1> HIDE DEF done
<1>3. QED
  BY <1>1, <1>2, RemoveSourcesRows

-----------------------------------------------------------------------------
(* The steps of the walk: a statement writes for the shadow tree only, and *)
(* a failing one leaves the transaction as it is or goes back to the file. *)

RowsOK == EntriesOK(disk) /\ EntriesOK(work) /\ TreesKept(disk, work, {sid})

LEMMA WalkRows ==
  ASSUME RowsInv, pc \in EntryPoints
  PROVE  /\ RowsOK /\ SameRecords(work, disk)
         /\ sid \in IdsOf(work.source)
BY DEF RowsInv, RowsOK, IInv, ConnectionOK, RecordsOK, EntryPoints, RecordPoints, BeforeRecords,
       Labels, SameRecords, IdsOf

LEMMA RunRows ==
  ASSUME RowsInv, pc \in EntryPoints, NEW content, SameRecords(content, work),
         EntriesOK(content), TreesKept(work, content, {sid}), Run(content), sid' = sid
  PROVE  RowsOK' /\ TreesKept(disk, disk', {sid}) /\ work' = content
<1>1. RowsOK /\ work.source = disk.source /\ (~intxn => work = disk)
  BY WalkRows DEF SameRecords, RowsInv, IInv, ConnectionOK
<1>2. TreesKept(disk, content, {sid})
  BY <1>1, KeptTwice DEF RowsOK
<1>3. work' = content /\ disk' \in {disk, content}
  BY DEF Run
<1>4. CASE disk' = disk
  BY <1>1, <1>2, <1>3, <1>4, KeptSame DEF RowsOK, EntriesOK, TreesKept
<1>5. CASE disk' = content
  BY <1>2, <1>3, <1>5, KeptSame DEF RowsOK, EntriesOK, TreesKept
<1>6. QED
  BY <1>3, <1>4, <1>5

LEMMA FailRows ==
  ASSUME RowsInv, pc \in EntryPoints, NEW statement, sid' = sid,
         UNCHANGED dbVars \/ Fails(statement) \/ CommitFails(statement)
  PROVE  RowsOK' /\ TreesKept(disk, disk', {sid}) /\ work' \in {work, disk}
<1>1. RowsOK
  BY WalkRows
<1>2. disk' = disk /\ work' \in {work, disk}
  BY DEF dbVars, Fails, RolledBack, CommitFails
<1>3. TreesKept(disk, disk, {sid})
  BY KeptSame
<1>4. QED
  BY <1>1, <1>2, <1>3 DEF RowsOK, EntriesOK, TreesKept

(* The busy entry after a rollback: if its rowid is in the file, it is     *)
(* still an entry of the shadow tree.                                      *)
LEMMA CursorRows ==
  ASSUME RowsInv, pc \in {"index", "batch", "entry"}
  PROVE  \A e \in disk.entry \cup work.entry : e.id = cur.id => e.source = sid
<1>1. ASSUME NEW e \in disk.entry, e.id = cur.id, e.source # sid PROVE FALSE
  <2>1. e.source \in IdsOf(disk.source) \ {sid}
    BY <1>1 DEF RowsInv, EntriesOK
  <2>2. Tree(work, e.source) = Tree(disk, e.source)
    BY <2>1 DEF RowsInv, TreesKept, EntryPoints
  <2>3. e \in work.entry
    BY <2>2, TreeRows
  <2>4. QED
    BY <1>1, <2>3 DEF RowsInv
<1>2. QED
  BY <1>1 DEF RowsInv

CursorOK ==
  /\ pc = "index" => cur.id \in IdsOf(work.entry)
  /\ pc \in {"index", "batch", "entry"} =>
       \A e \in work.entry : e.id = cur.id => e.source = sid

LEMMA WalkActionRows ==
  ASSUME RowsInv, WalkAction
  PROVE  RowsOK' /\ CursorOK' /\ TreesKept(disk, disk', {sid})
<1>1. /\ pc \in EntryPoints /\ pc' \in EntryPoints /\ sid' = sid
      /\ disk \in CatalogType /\ work \in CatalogType
  BY WalkIsQuiet DEF RowsInv, Quiet, jobVars, IInv, TypeOK
<1>2. RowsOK /\ SameRecords(work, disk) /\ sid \in IdsOf(work.source)
  BY <1>1, WalkRows
<1>3. CASE BeginScan \/ OpenDirectory \/ LoseListing \/ LeaveDirectory \/ LeaveOnError \/ StopWalk
  <2>1. disk' = disk /\ work' = work /\ pc' \notin {"index", "batch", "entry"}
    BY <1>3 DEF BeginScan, OpenDirectory, LoseListing, LeaveDirectory, LeaveOnError, StopWalk,
                dbVars, AfterReturn
  <2>2. QED
    BY <1>1, <1>2, <2>1, KeptSame DEF RowsOK, EntriesOK, TreesKept, CursorOK
<1>4. CASE VisitEntry
  <2>1. CASE pc' = "index" /\ \E item : \E id \in NewRowids(work.entry) :
               /\ Run(InsertEntry(work, id, sid, Innermost.id, item))
               /\ cur'.id = id
    <3>1. PICK item : \E id \in NewRowids(work.entry) :
                 Run(InsertEntry(work, id, sid, Innermost.id, item)) /\ cur'.id = id
      BY <2>1
    <3>2. PICK id \in NewRowids(work.entry) :
                 Run(InsertEntry(work, id, sid, Innermost.id, item)) /\ cur'.id = id
      BY <3>1
    <3>3. PICK new : new = InsertEntry(work, id, sid, Innermost.id, item)
      OBVIOUS
    <3>4. PICK side \in SUBSET {id} : Written(work, new, id, sid, Innermost.id, item, side)
      BY <1>1, <3>3, InsertEntryWrites
    <3>5. /\ EntriesOK(new) /\ TreesKept(work, new, {sid}) /\ SameRecords(new, work)
          /\ \A e \in new.entry : e.id = id => e.source = sid
          /\ id \in IdsOf(new.entry)
      <4>1. EntriesOK(work)
        BY <1>2 DEF RowsOK
      <4>2. EntriesOK(new) /\ TreesKept(work, new, {sid}) /\ SameRecords(new, work)
        BY <1>1, <1>2, <3>4, <4>1, InsertEntryRows
      <4>3. id \in IdsOf(new.entry)
        BY <1>1, <1>2, <3>4, <4>1, InsertEntryRows
      <4>4. \A e \in new.entry : e.id = id => e.source = sid
        BY <1>1, <1>2, <3>4, <4>1, InsertEntryRows
      <4>5. QED
        BY <4>2, <4>3, <4>4
    <3>6. RowsOK' /\ TreesKept(disk, disk', {sid}) /\ work' = new
      BY <1>1, <3>2, <3>3, <3>5, RunRows
    <3>7. QED
      BY <1>1, <2>1, <3>2, <3>5, <3>6 DEF CursorOK
  <2>2. CASE pc' = "walk" /\ (UNCHANGED dbVars \/ Fails("entry"))
    BY <1>1, <2>2, FailRows DEF CursorOK
  <2>3. PICK item \in Innermost.todo :
          \/ /\ \E id \in NewRowids(work.entry) :
                  /\ Run(InsertEntry(work, id, sid, Innermost.id, item))
                  /\ cur' = [id |-> id, item |-> item]
             /\ pc' = "index"
          \/ pc' = "walk" /\ (UNCHANGED dbVars \/ Fails("entry"))
    BY <1>4 DEF VisitEntry
  <2>4. QED
    BY <2>1, <2>2, <2>3
<1>5. CASE IndexEntry
  <2>1. pc = "index" /\ pc' \in {"batch", "entry"} /\ cur' = cur
    BY <1>5 DEF IndexEntry
  <2>2. /\ cur.id \in IdsOf(work.entry)
        /\ \A e \in disk.entry \cup work.entry : e.id = cur.id => e.source = sid
    BY <2>1, CursorRows DEF RowsInv
  <2>3. CASE Run(InsertFts(work, cur.id))
    <3>1. PICK new : new = InsertFts(work, cur.id)
      OBVIOUS
    <3>2. /\ EntriesOK(new) /\ TreesKept(work, new, {sid}) /\ SameRecords(new, work)
          /\ new.entry = work.entry
      <4>1. EntriesOK(work)
        BY <1>2 DEF RowsOK
      <4>2. Indexed(work, new, cur.id)
        BY <1>1, <3>1, InsertIndexWrites
      <4>3. QED
        BY <1>1, <2>2, <4>1, <4>2, InsertIndexRows
    <3>3. RowsOK' /\ TreesKept(disk, disk', {sid}) /\ work' = new
      BY <1>1, <2>3, <3>1, <3>2, RunRows
    <3>4. QED
      BY <1>1, <2>1, <2>2, <3>2, <3>3 DEF CursorOK
  <2>4. CASE UNCHANGED dbVars \/ Fails("fts")
    <3>1. RowsOK' /\ TreesKept(disk, disk', {sid}) /\ work' \in {work, disk}
      BY <1>1, <2>4, FailRows
    <3>2. QED
      BY <1>1, <2>1, <2>2, <3>1 DEF CursorOK
  <2>5. QED
    BY <1>5, <2>3, <2>4 DEF IndexEntry
<1>6. CASE CommitBatch
  <2>1. pc = "batch" /\ pc' \in {"entry", "unwind"} /\ cur' = cur
    BY <1>6 DEF CommitBatch, walkVars
  <2>2. \A e \in disk.entry \cup work.entry : e.id = cur.id => e.source = sid
    BY <2>1, CursorRows
  <2>3. CASE disk' = work /\ work' = work
    BY <1>1, <1>2, <2>1, <2>2, <2>3, KeptSame DEF RowsOK, EntriesOK, TreesKept, CursorOK
  <2>4. CASE CommitFails("batch")
    <3>1. RowsOK' /\ TreesKept(disk, disk', {sid}) /\ work' \in {work, disk}
      BY <1>1, <2>4, FailRows
    <3>2. QED
      BY <1>1, <2>1, <2>2, <3>1 DEF CursorOK
  <2>5. QED
    BY <1>6, <2>3, <2>4 DEF CommitBatch
<1>7. CASE FinishEntry
  <2>1. pc = "entry" /\ pc' \in {"open", "walk"}
    BY <1>7 DEF FinishEntry
  <2>2. CASE Run(InsertSide(work, cur.id)) /\ cur.id \in IdsOf(work.entry)
    <3>1. PICK new : new = InsertSide(work, cur.id)
      OBVIOUS
    <3>2. EntriesOK(new) /\ TreesKept(work, new, {sid}) /\ SameRecords(new, work)
      <4>1. EntriesOK(work)
        BY <1>2 DEF RowsOK
      <4>2. Indexed(work, new, cur.id)
        BY <1>1, <3>1, InsertIndexWrites
      <4>3. \A e \in work.entry : e.id = cur.id => e.source = sid
        BY <2>1, CursorRows
      <4>4. QED
        BY <1>1, <2>2, <4>1, <4>2, <4>3, InsertIndexRows
    <3>3. RowsOK' /\ TreesKept(disk, disk', {sid}) /\ work' = new
      BY <1>1, <2>2, <3>1, <3>2, RunRows
    <3>4. QED
      BY <2>1, <3>3 DEF CursorOK
  <2>3. CASE UNCHANGED dbVars \/ Fails("side")
    BY <1>1, <2>1, <2>3, FailRows DEF CursorOK
  <2>4. QED
    BY <1>7, <2>2, <2>3 DEF FinishEntry
<1>8. CASE ScanFile
  <2>1. pc' \in {"commit", "failed"}
    BY <1>8 DEF ScanFile
  <2>2. CASE Fails("entry") \/ Fails("side")
    BY <1>1, <2>1, <2>2, FailRows DEF CursorOK
  <2>3. ASSUME NEW id \in NewRowids(work.entry), NEW item, NEW side \in SUBSET {id},
               Run([InsertEntry(work, id, sid, NoId, item) EXCEPT !.side = @ \cup side])
        PROVE  RowsOK' /\ TreesKept(disk, disk', {sid})
    <3>1. PICK new : new = [InsertEntry(work, id, sid, NoId, item) EXCEPT !.side = @ \cup side]
      OBVIOUS
    <3>2. Written(work, new, id, sid, NoId, item, side)
      BY <1>1, <3>1, InsertEntryWrites
    <3>3. EntriesOK(new) /\ TreesKept(work, new, {sid}) /\ SameRecords(new, work)
      BY <1>1, <1>2, <3>2, InsertEntryRows DEF RowsOK
    <3>4. QED
      BY <1>1, <2>3, <3>1, <3>3, RunRows
  <2>4. QED
    BY <1>8, <2>1, <2>2, <2>3 DEF ScanFile, Fails, CursorOK
<1>9. CASE CommitScan
  <2>1. pc' = "switch"
    BY <1>9 DEF CommitScan
  <2>2. CASE Commits
    BY <1>1, <1>2, <2>1, <2>2, KeptSame DEF Commits, RowsOK, EntriesOK, TreesKept, CursorOK
  <2>3. CASE CommitFails("final")
    BY <1>1, <2>1, <2>3, FailRows DEF CursorOK
  <2>4. QED
    BY <1>9, <2>2, <2>3 DEF CommitScan
<1>10. QED
  BY <1>3, <1>4, <1>5, <1>6, <1>7, <1>8, <1>9 DEF WalkAction

-----------------------------------------------------------------------------
(* The other steps                                                         *)

RowsRest ==
  /\ EntriesOK(disk)
  /\ EntriesOK(work)
  /\ pc \in EntryPoints => TreesKept(disk, work, {sid})
  /\ pc \in {"close", "swcommit"} /\ intxn => TreesKept(disk, work, {sid, old})
  /\ CursorOK

LEMMA RowsParts == RowsInv <=> IInv /\ RowsRest
BY DEF RowsInv, RowsRest, CursorOK

Untouched ==
  \A s \in SettledIds(disk) \cap SettledIds(disk') : Tree(disk', s) = Tree(disk, s)

LEMMA UntouchedKept ==
  ASSUME KeysOK(disk), NEW S, TreesKept(disk, disk', S),
         \A s \in S : s \notin SettledIds(disk) \/ s \notin SettledIds(disk')
  PROVE  Untouched
<1>1. SettledIds(disk) \subseteq IdsOf(disk.source)
  BY DEF SettledIds, SettledScans, KeysOK
<1>2. QED
  BY <1>1 DEF Untouched, TreesKept

LEMMA ShadowIsOpen ==
  ASSUME IInv, pc \in RecordPoints \ {"done"}
  PROVE  sid \notin SettledIds(disk)
BY DEF IInv, KeysOK, RecordsOK, OpenScanPoints, SettledIds, SettledScans

LEMMA ReturnRows ==
  ASSUME NEW code, NEW content, EntriesOK(content), Return(code, content)
  PROVE  RowsRest'
BY DEF Return, RowsRest, EntriesOK, CursorOK, EntryPoints

LEMMA DropShadowRows ==
  ASSUME NEW db \in CatalogType, EntriesOK(db), NEW content \in DropShadow(db)
  PROVE  EntriesOK(content) /\ TreesKept(db, content, {sid})
BY RemoveTreeRows, KeptSame DEF DropShadow

(* A step that leaves the file alone.                                      *)
LEMMA SameRows ==
  ASSUME RowsInv, disk' = disk, work' \in {work, disk},
         pc' \notin {"index", "batch", "entry"},
         pc' \in EntryPoints => pc \in EntryPoints /\ sid' = sid,
         pc' \in {"close", "swcommit"} /\ intxn' =>
           TreesKept(disk, work', {sid', old'})
  PROVE  RowsRest' /\ Untouched
<1>1. EntriesOK(disk) /\ EntriesOK(work)
  BY DEF RowsInv
<1>2. EntriesOK(disk') /\ EntriesOK(work')
  BY <1>1
<1>3. pc' \in EntryPoints => TreesKept(disk', work', {sid'})
  BY KeptSame DEF RowsInv
<1>4. CursorOK'
  BY DEF CursorOK
<1>5. Untouched
  BY DEF Untouched
<1>6. QED
  BY <1>2, <1>3, <1>4, <1>5 DEF RowsRest, EntriesOK, TreesKept

LEMMA InitRows == Init => RowsRest
BY DEF Init, RowsRest, EntriesOK, CursorOK, EmptyCatalog, EntryPoints, IdsOf

LEMMA NextRows ==
  ASSUME RowsInv, [Next]_vars
  PROVE  RowsRest' /\ Untouched
<1>1. /\ disk \in CatalogType /\ work \in CatalogType /\ KeysOK(disk)
      /\ EntriesOK(disk) /\ EntriesOK(work) /\ IInv
  BY DEF RowsInv, IInv, TypeOK
<1>2. CASE WalkAction
  <2>1. pc \in EntryPoints /\ pc' \in EntryPoints
    BY <1>1, <1>2, WalkIsQuiet DEF Quiet
  <2>2. pc' \notin {"close", "swcommit"} /\ pc \in RecordPoints \ {"done"}
    BY <2>1 DEF EntryPoints, RecordPoints, BeforeRecords, Labels
  <2>3. RowsOK' /\ CursorOK' /\ TreesKept(disk, disk', {sid})
    BY <1>2, WalkActionRows
  <2>4. Untouched
    BY <1>1, <2>2, <2>3, ShadowIsOpen, UntouchedKept
  <2>5. QED
    BY <2>2, <2>3, <2>4 DEF RowsOK, RowsRest
<1>3. CASE StartScan \/ LookUp
  <2>1. CASE Return("error", disk)
    BY <1>1, <2>1, ReturnRows DEF Return, Untouched
  <2>2. CASE pc' \in {"recover", "newsource"} /\ UNCHANGED dbVars
    BY <2>2, SameRows DEF dbVars, EntryPoints
  <2>3. QED
    BY <1>3, <2>1, <2>2 DEF StartScan, LookUp
<1>4. CASE Recover
  <2>1. ~intxn /\ work = disk
    BY <1>1, <1>4 DEF Recover, IInv, ConnectionOK, BeforeRecords
  <2>2. PICK done :
          /\ DOMAIN done = InProgressSources(disk)
          /\ \A s \in DOMAIN done : done[s] \in 0 .. RemoveSteps
          /\ Run(RemoveSources(disk, done))
    <3>1. CASE Run(RemoveSources(disk, Completely(InProgressSources(disk))))
      BY <3>1 DEF Completely, RemoveSteps
    <3>2. CASE \E done \in [InProgressSources(disk) -> 0 .. RemoveSteps] :
                 Run(RemoveSources(disk, done))
      BY <3>2
    <3>3. QED
      BY <1>4, <2>1, <3>1, <3>2 DEF Recover
  <2>3. disk' = RemoveSources(disk, done) /\ work' = disk' /\ pc' = "lookup"
    BY <1>4, <2>1, <2>2 DEF Recover, Run
  <2>4. EntriesOK(disk') /\ TreesKept(disk, disk', DOMAIN done)
    BY <1>1, <2>2, <2>3, RemoveSourcesRows
  <2>5. \A s \in DOMAIN done : s \notin SettledIds(disk)
    BY <1>1, <2>2 DEF InProgressSources, SettledIds, SettledScans, KeysOK
  <2>6. Untouched
    BY <1>1, <2>4, <2>5, UntouchedKept
  <2>7. RowsRest'
    BY <2>3, <2>4 DEF RowsRest, EntriesOK, CursorOK, EntryPoints
  <2>8. QED
    BY <2>6, <2>7
<1>5. CASE CreateSource
  <2>1. CASE Return("error", disk)
    BY <1>1, <2>1, ReturnRows DEF Return, Untouched
  <2>2. ASSUME NEW id, Run(InsertSource(work, id, path)), pc' = "newscan"
        PROVE  RowsRest' /\ Untouched
    <3>1. ~intxn /\ work = disk
      BY <1>1, <1>5 DEF CreateSource, IInv, ConnectionOK, BeforeRecords
    <3>2. disk' = InsertSource(disk, id, path) /\ work' = disk'
      BY <2>2, <3>1 DEF Run
    <3>3. EntriesOK(disk') /\ TreesKept(disk, disk', {})
      BY <1>1, <3>2, InsertSourceRows
    <3>4. Untouched
      BY <1>1, <3>3, UntouchedKept
    <3>5. QED
      BY <2>2, <3>2, <3>3, <3>4 DEF RowsRest, EntriesOK, CursorOK, EntryPoints
  <2>3. QED
    BY <1>5, <2>1, <2>2 DEF CreateSource
<1>6. CASE CreateScan
  <2>1. CASE Return("error", disk)
    BY <1>1, <2>1, ReturnRows DEF Return, Untouched
  <2>2. ASSUME NEW id, Run(InsertScan(work, id, sid)), pc' = "begin", sid' = sid
        PROVE  RowsRest' /\ Untouched
    <3>1. ~intxn /\ work = disk /\ pc = "newscan"
      BY <1>1, <1>6 DEF CreateScan, IInv, ConnectionOK
    <3>2. disk' = InsertScan(disk, id, sid) /\ work' = disk'
      BY <2>2, <3>1 DEF Run
    <3>3. EntriesOK(disk') /\ TreesKept(disk, disk', {sid})
      BY <1>1, <3>2, InsertScanRows
    <3>4. Untouched
      BY <1>1, <3>1, <3>3, UntouchedKept, ShadowIsOpen DEF RecordPoints, BeforeRecords, Labels
    <3>5. TreesKept(disk', work', {sid})
      BY <3>2, KeptSame
    <3>6. QED
      BY <2>2, <3>2, <3>3, <3>4, <3>5 DEF RowsRest, EntriesOK, CursorOK, TreesKept
  <2>3. QED
    BY <1>6, <2>1, <2>2 DEF CreateScan
<1>7. CASE CancelFirstScan
  <2>1. CASE Return("ok", disk)
    BY <1>1, <2>1, ReturnRows DEF Return, Untouched
  <2>2. CASE Return("ok", FinishScan(disk, scid, "Cancelled"))
    <3>1. /\ [id |-> scid, source |-> sid, status |-> "InProgress"] \in disk.scan
          /\ pc \in RecordPoints \ {"done"}
      BY <1>1, <1>7 DEF CancelFirstScan, IInv, RecordsOK, OpenScanPoints, RecordPoints,
                        BeforeRecords, Labels
    <3>2. \A x \in disk.scan : x.id = scid => x.source = sid
      BY <1>1, <3>1 DEF KeysOK
    <3>3. disk' = FinishScan(disk, scid, "Cancelled")
      BY <2>2 DEF Return
    <3>4. EntriesOK(disk') /\ TreesKept(disk, disk', {sid})
      BY <1>1, <3>2, <3>3, FinishScanRows DEF Statuses
    <3>5. Untouched
      BY <1>1, <3>1, <3>4, ShadowIsOpen, UntouchedKept
    <3>6. QED
      BY <2>2, <3>3, <3>4, <3>5, ReturnRows
  <2>3. QED
    BY <1>7, <2>1, <2>2 DEF CancelFirstScan
<1>8. CASE CancelReplacement \/ FailScan \/ DropAfterSwitch
  <2>1. pc \in RecordPoints \ {"done"}
    BY <1>8 DEF CancelReplacement, FailScan, DropAfterSwitch, RecordPoints, BeforeRecords, Labels
  <2>2. PICK code, content : Return(code, content) /\ content \in {disk} \cup DropShadow(disk)
    BY <1>8 DEF CancelReplacement, FailScan, DropAfterSwitch
  <2>3. EntriesOK(content) /\ TreesKept(disk, content, {sid})
    BY <1>1, <2>2, DropShadowRows, KeptSame
  <2>4. disk' = content
    BY <2>2 DEF Return
  <2>5. Untouched
    BY <1>1, <2>1, <2>3, <2>4, ShadowIsOpen, UntouchedKept
  <2>6. QED
    BY <2>2, <2>3, <2>5, ReturnRows
<1>9. CASE RemoveOld
  <2>1. pc = "switch" /\ pc' \in {"close", "drop"} /\ disk' = disk /\ UNCHANGED jobVars
    BY <1>9 DEF RemoveOld, AfterSwitchError, dbVars
  <2>2. TreesKept(disk, work, {sid}) /\ work.source = disk.source
    BY <1>1, <2>1 DEF RowsInv, EntryPoints, IInv, ConnectionOK, SameRecords
  <2>3. TreesKept(disk, work, {sid, old})
    BY <2>2 DEF TreesKept
  <2>4. CASE work' \in {work, disk}
    <3>1. TreesKept(disk, work', {sid', old'})
      BY <2>1, <2>3, <2>4, KeptSame DEF jobVars
    <3>2. QED
      BY <2>1, <2>4, <3>1, SameRows DEF EntryPoints
  <2>5. CASE work' = RemoveTree(work, old)
    <3>1. EntriesOK(work') /\ TreesKept(work, work', {old})
      BY <1>1, <2>5, RemoveTreeRows
    <3>2. TreesKept(disk, work', {sid, old})
      BY <2>2, <2>3, <3>1, KeptTwice
    <3>3. RowsRest'
      BY <1>1, <2>1, <3>1, <3>2 DEF RowsRest, EntriesOK, TreesKept, CursorOK, EntryPoints, jobVars
    <3>4. QED
      BY <2>1, <3>3 DEF Untouched
  <2>6. QED
    BY <1>9, <2>4, <2>5 DEF RemoveOld, dbVars
<1>10. CASE CloseScan
  <2>1. pc = "close" /\ pc' = "swcommit" /\ intxn /\ UNCHANGED jobVars
    BY <1>1, <1>10 DEF CloseScan, IInv, ConnectionOK
  <2>2. TreesKept(disk, work, {sid, old})
    BY <2>1 DEF RowsInv
  <2>3. CASE Fails("finish")
    <3>1. disk' = disk /\ work' \in {work, disk}
      BY <2>3 DEF Fails, RolledBack, dbVars
    <3>2. TreesKept(disk, work', {sid', old'})
      BY <2>1, <2>2, <3>1, KeptSame DEF jobVars
    <3>3. QED
      BY <2>1, <3>1, <3>2, SameRows DEF EntryPoints
  <2>4. ASSUME NEW status \in Statuses, Run(FinishScan(work, scid, status))
        PROVE  RowsRest' /\ Untouched
    <3>1. disk' = disk /\ work' = FinishScan(work, scid, status)
      BY <2>1, <2>4 DEF Run
    <3>2. /\ [id |-> scid, source |-> sid, status |-> "InProgress"] \in disk.scan
          /\ work.scan \subseteq disk.scan /\ work.source \subseteq disk.source
      BY <1>1, <2>1 DEF IInv, RecordsOK, SwitchOK, OpenScanPoints, RecordPoints, BeforeRecords,
                        Labels
    <3>3. \A x \in work.scan : x.id = scid => x.source = sid
      BY <1>1, <3>2 DEF KeysOK
    <3>4. EntriesOK(work') /\ TreesKept(work, work', {sid})
      BY <1>1, <2>4, <3>1, <3>3, FinishScanRows
    <3>5. \A r \in disk.source : r.id \notin {sid, old} => r \in work.source
      BY <1>1, <2>1 DEF IInv, SwitchOK
    <3>6. TreesKept(disk, work', {sid, old})
      BY <2>2, <3>4, <3>5, KeptTwice
    <3>7. RowsRest'
      BY <1>1, <2>1, <3>1, <3>4, <3>6 DEF RowsRest, EntriesOK, TreesKept, CursorOK, EntryPoints,
                                          jobVars
    <3>8. QED
      BY <3>1, <3>7 DEF Untouched
  <2>5. QED
    BY <1>10, <2>3, <2>4 DEF CloseScan, Statuses
<1>11. CASE CommitSwitch
  <2>1. CASE Commits /\ pc' = "done"
    <3>1. pc = "swcommit" /\ intxn /\ disk' = work /\ work' = work
      BY <1>11, <2>1 DEF CommitSwitch, Commits
    <3>2. TreesKept(disk, disk', {sid, old})
      BY <3>1 DEF RowsInv
    <3>3. sid \notin SettledIds(disk)
      BY <1>1, <3>1, ShadowIsOpen DEF RecordPoints, BeforeRecords, Labels
    <3>4. old \notin SettledIds(disk')
      BY <1>1, <3>1, SwitchRecords DEF SettledIds, SettledScans
    <3>5. Untouched
      BY <1>1, <3>2, <3>3, <3>4, UntouchedKept
    <3>6. RowsRest'
      BY <1>1, <2>1, <3>1 DEF RowsRest, EntriesOK, CursorOK, EntryPoints
    <3>7. QED
      BY <3>5, <3>6
  <2>2. CASE disk' = disk /\ work' \in {work, disk} /\ pc' = "drop"
    BY <2>2, SameRows DEF EntryPoints
  <2>3. QED
    BY <1>11, <2>1, <2>2 DEF CommitSwitch, AfterSwitchError, dbVars
<1>12. CASE Finish \/ Crash
  BY <1>1, <1>12, ReturnRows DEF Finish, Crash, Return, Untouched
<1>13. CASE Interrupt \/ Rest \/ UNCHANGED vars
  <2>1. UNCHANGED <<dbVars, pc, jobVars, walkVars>>
    BY <1>13 DEF Interrupt, Rest, vars
  <2>2. RowsRest
    BY RowsParts
  <2>3. QED
    BY <2>1, <2>2 DEF dbVars, jobVars, walkVars, RowsRest, EntriesOK, TreesKept, CursorOK, Untouched
<1>14. QED
  BY <1>2, <1>3, <1>4, <1>5, <1>6, <1>7, <1>8, <1>9, <1>10, <1>11, <1>12, <1>13
     DEF Next, ScannerStep, WalkAction

-----------------------------------------------------------------------------
(* RowsInv is inductive: whatever fails or is killed, neither the file nor *)
(* the open transaction ever has a dangling row, and the transaction       *)
(* differs from the file in the shadow tree and the replaced tree only.    *)
THEOREM RowsAreSafe == Spec => []RowsInv
<1>1. Init => RowsInv
  BY InitType, InitRInv, IInvParts, InitRows, RowsParts
<1>2. RowsInv /\ [Next]_vars => RowsInv'
  <2>1. RowsInv /\ [Next]_vars => IInv'
    BY NextType, NextRInv, IInvParts, RowsParts DEF IInv, TInv, RInv
  <2>2. IInv' /\ RowsRest' => RowsInv'
    BY RowsParts DEF RowsInv, RowsRest, CursorOK
  <2>3. QED
    BY <2>1, <2>2, NextRows
<1>3. QED
  BY <1>1, <1>2, PTL DEF Spec

(* Every row in the file has its owner, and no two rows a rowid: no entry, *)
(* full-text, checksum, container or scan row outlives the tree it came    *)
(* with, however many removals were cut short.                             *)
THEOREM NoRowIsLeftBehind == Spec => []NoDanglingRows
<1>1. RowsInv => NoDanglingRows
  BY DEF RowsInv, IInv, KeysOK, EntriesOK, NoDanglingRows
<1>2. QED
  BY <1>1, RowsAreSafe, PTL

(* As long as it is in the file, a finished tree keeps its entries, index  *)
(* rows, side rows and scan row, whatever later scans do and whatever of   *)
(* them fails: reused rowids never give a row to another tree.             *)
THEOREM FinishedTreesAreNotAltered == Spec => SettledTreesUntouched
<1>1. RowsInv /\ [Next]_vars =>
        [\A s \in SettledIds(disk) \cap SettledIds(disk') : Tree(disk', s) = Tree(disk, s)]_vars
  BY NextRows DEF Untouched
<1>2. QED
  BY <1>1, RowsAreSafe, PTL DEF Spec, SettledTreesUntouched

-----------------------------------------------------------------------------
(* What the steps do to the source and scan rows                           *)

LEMMA RemoveAllRecords ==
  ASSUME NEW db \in CatalogType, NEW S, NEW new, new = RemoveSources(db, Completely(S))
  PROVE  /\ new.source = {r \in db.source : r.id \notin S}
         /\ new.scan = {x \in db.scan : x.source \notin S}
<1> DEFINE done == Completely(S)
<1>1. \A s : /\ (s \in DOMAIN done /\ done[s] >= 5) <=> s \in S
             /\ (s \in DOMAIN done /\ done[s] >= 4) <=> s \in S
  BY DEF Completely, RemoveSteps
<1>2. new = RemoveSources(db, done)
  OBVIOUS
<1> HIDE DEF done
<1>3. QED
  BY <1>1, <1>2, RemoveSourcesType

LEMMA FinishScanRecords ==
  ASSUME NEW db \in CatalogType, NEW id, NEW status \in Statuses,
         NEW new, new = FinishScan(db, id, status)
  PROVE  /\ new.source = db.source
         /\ \A x \in db.scan : \E y \in new.scan :
              y.source = x.source /\ y.status = (IF x.id = id THEN status ELSE x.status)
         /\ \A y \in new.scan : \E x \in db.scan :
              y.source = x.source /\ y.status = (IF x.id = id THEN status ELSE x.status)
<1> DEFINE Closed(x) == IF x.id = id THEN [x EXCEPT !.status = status] ELSE x
<1>1. new.source = db.source /\ new.scan = {Closed(x) : x \in db.scan}
  BY FinishScanType
<1>2. \A x \in db.scan : /\ Closed(x).source = x.source
                         /\ Closed(x).status = (IF x.id = id THEN status ELSE x.status)
  BY DEF CatalogType
<1> HIDE DEF Closed
<1>3. QED
  BY <1>1, <1>2

(* Between the creation of its scan row and the switch, a scan moves on    *)
(* without touching any source or scan row in the file.                    *)
MovesOn ==
  /\ pc \in OpenScanPoints
  /\ pc' \in OpenScanPoints
  /\ UNCHANGED <<jobVars, result>>
  /\ SameRecords(disk', disk)

Switches ==
  /\ pc = "swcommit"
  /\ intxn
  /\ disk' = work
  /\ pc' = "done"
  /\ UNCHANGED <<jobVars, result>>

Drops ==
  /\ pc \in OpenScanPoints
  /\ \E code \in {"error", "cancelled"} : \E content \in {disk, RemoveTree(disk, sid)} :
       Return(code, content)

Pauses == UNCHANGED <<disk, pc, jobVars, result>>

LEMMA NextByRecords ==
  ASSUME IInv, [Next]_vars
  PROVE  \/ StartScan \/ Recover \/ LookUp \/ CreateSource \/ CreateScan
         \/ MovesOn \/ Switches \/ CancelFirstScan \/ Drops \/ Finish \/ Crash \/ Pauses
<1> USE DEF OpenScanPoints, RecordPoints, BeforeRecords, Labels
<1>1. CASE WalkAction
  <2>1. pc \in OpenScanPoints /\ pc' \in OpenScanPoints /\ UNCHANGED jobVars
    BY <1>1, WalkIsQuiet DEF Quiet, EntryPoints
  <2>2. UNCHANGED result
    BY <1>1 DEF WalkAction, BeginScan, OpenDirectory, LoseListing, VisitEntry, IndexEntry,
                CommitBatch, FinishEntry, LeaveDirectory, LeaveOnError, StopWalk, ScanFile,
                CommitScan
  <2>3. SameRecords(disk', disk)
    BY <1>1, WalkIsQuiet DEF Quiet, QuietDb, SameRecords
  <2>4. QED
    BY <2>1, <2>2, <2>3 DEF MovesOn
<1>2. CASE RemoveOld \/ CloseScan
  <2>1. /\ pc \in {"switch", "close"} /\ pc' \in {"close", "drop", "swcommit"}
        /\ UNCHANGED <<jobVars, result>>
    BY <1>2 DEF RemoveOld, CloseScan, AfterSwitchError
  <2>2. disk' = disk
    BY <1>2 DEF RemoveOld, CloseScan, Run, Fails, RolledBack, dbVars, IInv, ConnectionOK
  <2>3. QED
    BY <2>1, <2>2 DEF MovesOn, SameRecords
<1>3. CASE CommitSwitch
  <2>1. CASE Commits /\ pc' = "done"
    BY <1>3, <2>1 DEF CommitSwitch, Commits, Switches
  <2>2. CASE disk' = disk /\ pc' = "drop"
    BY <1>3, <2>2 DEF CommitSwitch, MovesOn, SameRecords
  <2>3. QED
    BY <1>3, <2>1, <2>2 DEF CommitSwitch, AfterSwitchError, dbVars
<1>4. CASE CancelReplacement \/ FailScan \/ DropAfterSwitch
  <2>1. pc \in OpenScanPoints
    BY <1>4 DEF CancelReplacement, FailScan, DropAfterSwitch
  <2>2. QED
    BY <1>4, <2>1 DEF CancelReplacement, FailScan, DropAfterSwitch, DropShadow, Drops
<1>5. CASE Interrupt \/ Rest \/ UNCHANGED vars
  BY <1>5 DEF Interrupt, Rest, vars, dbVars, jobVars, Pauses
<1>6. QED
  BY <1>1, <1>2, <1>3, <1>4, <1>5 DEF Next, ScannerStep, WalkAction

(* Recovery when it succeeds: what is unfinished goes, the rest stays.     *)
LEMMA RecoverRecords ==
  ASSUME IInv, Recover, "recover" \notin Failing
  PROVE  /\ pc = "recover" /\ pc' = "lookup" /\ UNCHANGED <<jobVars, result>>
         /\ disk'.source = {r \in disk.source : r.id \notin InProgressSources(disk)}
         /\ disk'.scan = {x \in disk.scan : x.status # "InProgress"}
<1>1. pc = "recover" /\ pc' = "lookup" /\ UNCHANGED <<jobVars, result>>
  BY DEF Recover
<1>2. ~intxn /\ work = disk
  BY DEF Recover, IInv, ConnectionOK, BeforeRecords
<1>3. disk' = RemoveSources(disk, Completely(InProgressSources(disk)))
  BY <1>2 DEF Recover, Run
<1>4. disk'.scan = {x \in disk.scan : x.source \notin InProgressSources(disk)}
  BY <1>3, RemoveAllRecords DEF IInv, TypeOK
<1>5. \A x \in disk.scan : x.source \notin InProgressSources(disk) <=> x.status # "InProgress"
  BY DEF IInv, KeysOK, InProgressSources
<1>6. disk'.source = {r \in disk.source : r.id \notin InProgressSources(disk)}
  BY <1>3, RemoveAllRecords DEF IInv, TypeOK
<1>7. QED
  BY <1>1, <1>4, <1>5, <1>6

LEMMA CreateSourceRecords ==
  ASSUME IInv, CreateSource
  PROVE  /\ pc = "newsource"
         /\ \/ /\ pc' = "newscan" /\ UNCHANGED <<path, old, scid, result>>
               /\ sid' \in Rowid /\ sid' \notin IdsOf(disk.source)
               /\ disk'.source = disk.source \cup {[id |-> sid', path |-> path]}
               /\ disk'.scan = disk.scan
            \/ Return("error", disk)
<1>1. /\ pc = "newsource" /\ ~intxn /\ work = disk
      /\ disk \in CatalogType /\ path \in Paths
  BY DEF CreateSource, IInv, ConnectionOK, BeforeRecords, TypeOK
<1>2. ASSUME NEW id \in NewRowids(work.source), Run(InsertSource(work, id, path)), sid' = id
      PROVE  /\ sid' \in Rowid /\ sid' \notin IdsOf(disk.source)
             /\ disk'.source = disk.source \cup {[id |-> sid', path |-> path]}
             /\ disk'.scan = disk.scan
  BY <1>1, <1>2, SourceRowid, InsertSourceType DEF Run
<1>3. QED
  BY <1>1, <1>2 DEF CreateSource

LEMMA CreateScanRecords ==
  ASSUME IInv, CreateScan
  PROVE  /\ pc = "newscan"
         /\ \/ /\ pc' = "begin" /\ UNCHANGED <<path, old, sid, result>>
               /\ disk'.source = disk.source
               /\ disk'.scan =
                    disk.scan \cup {[id |-> scid', source |-> sid, status |-> "InProgress"]}
            \/ "scan" \in Failing /\ Return("error", disk)
<1>1. /\ pc = "newscan" /\ ~intxn /\ work = disk
      /\ disk \in CatalogType /\ sid \in Rowid
  BY DEF CreateScan, IInv, ConnectionOK, TypeOK, WalkOK, RecordPoints, BeforeRecords, Labels
<1>2. ASSUME NEW id \in NewRowids(work.scan), Run(InsertScan(work, id, sid)), scid' = id
      PROVE  /\ disk'.source = disk.source
             /\ disk'.scan =
                  disk.scan \cup {[id |-> scid', source |-> sid, status |-> "InProgress"]}
  BY <1>1, <1>2, ScanRowid, InsertScanType DEF Run
<1>3. QED
  BY <1>1, <1>2 DEF CreateScan

LEMMA DropRecords ==
  ASSUME IInv, NEW content \in {disk, RemoveTree(disk, sid)}
  PROVE  \/ content.source = disk.source /\ content.scan = disk.scan
         \/ /\ content.source = {r \in disk.source : r.id # sid}
            /\ content.scan = {x \in disk.scan : x.source # sid}
BY RemoveTreeType DEF IInv, TypeOK

-----------------------------------------------------------------------------
(* The mark of what a dead scan leaves                                     *)

LEMMA NextLeft ==
  ASSUME "newscan" \notin CrashPoints, "scan" \notin Failing, "recover" \notin Failing,
         LeftInv, [Next]_vars
  PROVE  LeftoversAreMarked'
<1>1. IInv /\ KeysOK(disk) /\ disk \in CatalogType
  BY DEF LeftInv, IInv, TypeOK
<1>2. \A r \in disk.source :
        (\E x \in disk.scan : x.source = r.id) \/ (pc = "newscan" /\ r.id = sid)
  BY DEF LeftInv, LeftoversAreMarked
<1>3. CASE pc # "newscan" /\ disk'.source = disk.source /\ disk'.scan = disk.scan
  BY <1>2, <1>3 DEF LeftoversAreMarked
<1>4. CASE StartScan \/ LookUp \/ MovesOn \/ Finish
  BY <1>3, <1>4 DEF StartScan, LookUp, MovesOn, Finish, Return, dbVars, SameRecords,
                    OpenScanPoints
<1>5. CASE Pauses
  BY <1>2, <1>5 DEF Pauses, jobVars, LeftoversAreMarked
<1>6. CASE Crash
  BY <1>3, <1>6 DEF Crash, Return
<1>7. CASE Recover
  <2>1. /\ pc = "recover"
        /\ disk'.source = {r \in disk.source : r.id \notin InProgressSources(disk)}
        /\ disk'.scan = {x \in disk.scan : x.status # "InProgress"}
    BY <1>1, <1>7, RecoverRecords
  <2>2. ASSUME NEW r \in disk'.source PROVE \E x \in disk'.scan : x.source = r.id
    <3>1. PICK x \in disk.scan : x.source = r.id
      BY <1>2, <2>1
    <3>2. x.status # "InProgress"
      BY <2>1, <3>1 DEF InProgressSources
    <3>3. QED
      BY <2>1, <3>1, <3>2
  <2>3. QED
    BY <2>2 DEF LeftoversAreMarked
<1>8. CASE CreateSource
  <2>1. CASE Return("error", disk)
    BY <1>1, <1>3, <1>8, <2>1, CreateSourceRecords DEF Return
  <2>2. CASE pc' = "newscan"
    <3>1. /\ pc = "newsource"
          /\ disk'.source = disk.source \cup {[id |-> sid', path |-> path]}
          /\ disk'.scan = disk.scan
      BY <1>1, <1>8, <2>2, CreateSourceRecords DEF Return
    <3>2. QED
      BY <1>2, <2>2, <3>1 DEF LeftoversAreMarked
  <2>3. QED
    BY <1>1, <1>8, <2>1, <2>2, CreateSourceRecords
<1>9. CASE CreateScan
  <2>1. /\ pc = "newscan" /\ sid' = sid
        /\ disk'.source = disk.source
        /\ disk'.scan = disk.scan \cup {[id |-> scid', source |-> sid, status |-> "InProgress"]}
    BY <1>1, <1>9, CreateScanRecords
  <2>2. QED
    BY <1>2, <2>1 DEF LeftoversAreMarked
<1>10. CASE CancelFirstScan
  <2>1. PICK content \in {disk, FinishScan(disk, scid, "Cancelled")} : Return("ok", content)
    BY <1>10 DEF CancelFirstScan
  <2>2. /\ content.source = disk.source
        /\ \A x \in disk.scan : \E y \in content.scan : y.source = x.source
    BY <1>1, <2>1, FinishScanRecords DEF Statuses
  <2>3. pc # "newscan" /\ disk' = content
    BY <1>10, <2>1 DEF CancelFirstScan, Return
  <2>4. QED
    BY <1>2, <2>2, <2>3 DEF LeftoversAreMarked
<1>11. CASE Drops
  <2>1. PICK content \in {disk, RemoveTree(disk, sid)} : disk' = content
    BY <1>11 DEF Drops, Return
  <2>2. pc # "newscan"
    BY <1>11 DEF Drops, OpenScanPoints
  <2>3. QED
    BY <1>1, <1>2, <2>1, <2>2, DropRecords DEF LeftoversAreMarked
<1>12. CASE Switches
  <2>1. /\ disk'.source = {r \in disk.source : r.id # old}
        /\ \A y \in disk.scan : y.source \notin {old, sid} => y \in disk'.scan
        /\ \E x \in disk'.scan : x.source = sid
    BY <1>1, <1>12, SwitchRecords DEF Switches
  <2>2. pc # "newscan"
    BY <1>12 DEF Switches
  <2>3. QED
    BY <1>2, <2>1, <2>2 DEF LeftoversAreMarked
<1>13. QED
  BY <1>1, <1>4, <1>5, <1>6, <1>7, <1>8, <1>9, <1>10, <1>11, <1>12, NextByRecords

LEMMA NextIInv == IInv /\ [Next]_vars => IInv'
BY NextType, NextRInv, IInvParts DEF IInv, TInv, RInv

LEMMA InitIInv == Init => IInv
BY InitType, InitRInv, IInvParts

(* Whatever a dead scan left in the file can be found by the next recovery *)
(* - unless it died, or could not write its scan row, right after the      *)
(* INSERT of its source row (run killed_early), or recovery itself was cut *)
(* short between the scan row and the source row of a tree.                *)
THEOREM LeftoversCanBeFound ==
  ASSUME "newscan" \notin CrashPoints, "scan" \notin Failing, "recover" \notin Failing
  PROVE  Spec => []LeftoversAreMarked
<1>1. Init => LeftInv
  BY InitIInv DEF LeftInv, LeftoversAreMarked, Init, EmptyCatalog
<1>2. LeftInv /\ [Next]_vars => LeftInv'
  BY NextIInv, NextLeft DEF LeftInv
<1>3. LeftInv => LeftoversAreMarked
  BY DEF LeftInv
<1>4. QED
  BY <1>1, <1>2, <1>3, PTL DEF Spec

-----------------------------------------------------------------------------
(* No leftover beside the running scan                                     *)

LEMMA NextOpen ==
  ASSUME "recover" \notin Failing, OpenInv, [Next]_vars
  PROVE  OnlyShadowOpen'
<1> USE DEF OnlyShadowOpen, NoLeftoverBesideScan
<1>1. IInv /\ KeysOK(disk) /\ disk \in CatalogType
  BY DEF OpenInv, IInv, TypeOK
<1>2. /\ pc \notin {"idle", "recover"} =>
           \A x \in disk.scan : x.status = "InProgress" => x.source = sid
      /\ pc \in {"lookup", "newsource"} => \A x \in disk.scan : x.status # "InProgress"
  BY DEF OpenInv
<1>3. CASE StartScan \/ CancelFirstScan \/ Drops \/ Finish \/ Crash
  BY <1>3 DEF StartScan, CancelFirstScan, Drops, Finish, Crash, Return
<1>4. CASE Recover
  BY <1>1, <1>4, RecoverRecords
<1>5. CASE LookUp
  BY <1>2, <1>5 DEF LookUp, Return, dbVars
<1>6. CASE CreateSource
  BY <1>1, <1>2, <1>6, CreateSourceRecords DEF Return
<1>7. CASE CreateScan
  <2>1. CASE pc' = "idle"
    BY <2>1
  <2>2. CASE pc' = "begin"
    <3>1. /\ sid' = sid
          /\ disk'.scan =
               disk.scan \cup {[id |-> scid', source |-> sid, status |-> "InProgress"]}
      BY <1>1, <1>7, <2>2, CreateScanRecords DEF Return
    <3>2. pc = "newscan"
      BY <1>7 DEF CreateScan
    <3>3. QED
      BY <1>2, <2>2, <3>1, <3>2
  <2>3. QED
    BY <1>1, <1>7, <2>1, <2>2, CreateScanRecords DEF Return
<1>8. CASE MovesOn
  <2>1. pc \notin {"idle", "recover"} /\ pc' \notin {"lookup", "newsource"}
    BY <1>8 DEF MovesOn, OpenScanPoints, RecordPoints, BeforeRecords, Labels
  <2>2. QED
    BY <1>2, <1>8, <2>1 DEF MovesOn, SameRecords, jobVars
<1>9. CASE Switches
  <2>1. /\ pc = "swcommit" /\ pc' = "done" /\ sid' = sid
        /\ \A x \in disk'.scan : x.source # sid => x \in disk.scan
    BY <1>1, <1>9, SwitchRecords DEF Switches, jobVars
  <2>2. QED
    BY <1>2, <2>1
<1>10. CASE Pauses
  BY <1>2, <1>10 DEF Pauses, jobVars
<1>11. QED
  BY <1>1, <1>3, <1>4, <1>5, <1>6, <1>7, <1>8, <1>9, <1>10, NextByRecords

LEMMA InitOpen == Init => OnlyShadowOpen
BY DEF Init, OnlyShadowOpen, NoLeftoverBesideScan

(* From the end of recovery to the end of the scan the only unfinished     *)
(* scan row in the file is that of the running scan, provided that no      *)
(* removal of recovery fails.                                              *)
THEOREM OnlyTheShadowIsOpen ==
  ASSUME "recover" \notin Failing
  PROVE  Spec => []NoLeftoverBesideScan
<1>1. Init => OpenInv
  BY InitIInv, InitOpen DEF OpenInv
<1>2. OpenInv /\ [Next]_vars => OpenInv'
  BY NextIInv, NextOpen DEF OpenInv
<1>3. OpenInv => NoLeftoverBesideScan
  BY DEF OpenInv, OnlyShadowOpen
<1>4. QED
  BY <1>1, <1>2, <1>3, PTL DEF Spec

-----------------------------------------------------------------------------
(* The result of scan_source and the content of the catalogue              *)

HonestRest ==
  /\ ResultIsHonest
  /\ pc # "idle" => result = "running"
  /\ pc \in {"recover", "lookup", "newsource"} => sid = NoId
  /\ pc = "done" => [id |-> sid, path |-> path] \in Settled(disk, path.place)

LEMMA NoIdIsNotSettled ==
  ASSUME IInv
  PROVE  NoId \notin SettledIds(disk)
BY DEF IInv, TypeOK, CatalogType, Rowid, NoId, SettledIds, SettledScans

(* Returning without the new tree.                                         *)
LEMMA ReturnHonest ==
  ASSUME NEW code \in {"error", "cancelled", "crashed"}, NEW content, Return(code, content),
         code # "crashed" => sid \notin SettledIds(content)
  PROVE  HonestRest'
BY DEF Return, HonestRest, ResultIsHonest

LEMMA NextHonest ==
  ASSUME "finish" \notin Failing, HonestInv, [Next]_vars
  PROVE  HonestRest'
<1>1. IInv /\ KeysOK(disk) /\ disk \in CatalogType /\ HonestRest
  BY DEF HonestInv, HonestRest, IInv, TypeOK
<1>2. CASE StartScan
  BY <1>2 DEF StartScan, HonestRest, ResultIsHonest
<1>3. CASE Recover
  BY <1>1, <1>3 DEF Recover, HonestRest, ResultIsHonest, jobVars
<1>4. CASE LookUp
  <2>1. CASE Return("error", disk)
    <3>1. sid \notin SettledIds(disk)
      BY <1>1, <1>4, NoIdIsNotSettled DEF LookUp, HonestRest
    <3>2. QED
      BY <2>1, <3>1, ReturnHonest
  <2>2. CASE pc' = "newsource" /\ UNCHANGED <<sid, result>>
    BY <1>1, <1>4, <2>2 DEF LookUp, HonestRest, ResultIsHonest
  <2>3. QED
    BY <1>4, <2>1, <2>2 DEF LookUp
<1>5. CASE CreateSource
  <2>1. CASE Return("error", disk)
    <3>1. sid \notin SettledIds(disk)
      BY <1>1, <1>5, NoIdIsNotSettled DEF CreateSource, HonestRest
    <3>2. QED
      BY <2>1, <3>1, ReturnHonest
  <2>2. CASE pc' = "newscan" /\ UNCHANGED result
    BY <1>1, <1>5, <2>2 DEF CreateSource, HonestRest, ResultIsHonest
  <2>3. QED
    BY <1>5, <2>1, <2>2 DEF CreateSource
<1>6. CASE CreateScan
  <2>1. pc = "newscan"
    BY <1>6 DEF CreateScan
  <2>2. CASE Return("error", disk)
    <3>1. sid \notin SettledIds(disk)
      BY <1>1, <2>1, ShadowIsOpen DEF RecordPoints, BeforeRecords, Labels
    <3>2. QED
      BY <2>2, <3>1, ReturnHonest
  <2>3. CASE pc' = "begin" /\ UNCHANGED result
    BY <1>1, <2>1, <2>3 DEF HonestRest, ResultIsHonest
  <2>4. QED
    BY <1>6, <2>2, <2>3 DEF CreateScan
<1>7. CASE MovesOn
  BY <1>1, <1>7 DEF MovesOn, HonestRest, ResultIsHonest, OpenScanPoints, RecordPoints,
                    BeforeRecords
<1>8. CASE Switches
  <2>1. /\ [id |-> sid, path |-> path] \in disk'.source
        /\ \E x \in disk'.scan : x.source = sid /\ x.status # "InProgress"
    BY <1>1, <1>8, SwitchRecords DEF Switches
  <2>2. [id |-> sid, path |-> path] \in Settled(disk', path.place)
    BY <2>1, SettledRows
  <2>3. QED
    BY <1>1, <1>8, <2>2 DEF Switches, HonestRest, ResultIsHonest, jobVars
<1>9. CASE CancelFirstScan
  <2>1. Return("ok", FinishScan(disk, scid, "Cancelled"))
    BY <1>9 DEF CancelFirstScan
  <2>2. PICK content : content = FinishScan(disk, scid, "Cancelled")
    OBVIOUS
  <2>3. /\ [id |-> sid, path |-> path] \in disk.source
        /\ [id |-> scid, source |-> sid, status |-> "InProgress"] \in disk.scan
    BY <1>1, <1>9 DEF CancelFirstScan, IInv, RecordsOK, OpenScanPoints, RecordPoints,
                      BeforeRecords, Labels
  <2>4. /\ content.source = disk.source
        /\ \A x \in disk.scan : \E y \in content.scan :
             y.source = x.source /\ y.status = (IF x.id = scid THEN "Cancelled" ELSE x.status)
    BY <1>1, <2>2, FinishScanRecords DEF Statuses
  <2>5. \E y \in content.scan : y.source = sid /\ y.status = "Cancelled"
    BY <2>3, <2>4
  <2>6. [id |-> sid, path |-> path] \in Settled(content, path.place)
    BY <2>3, <2>4, <2>5, SettledRows
  <2>7. QED
    BY <2>1, <2>2, <2>6 DEF Return, HonestRest, ResultIsHonest
<1>10. CASE Drops
  <2>1. PICK code \in {"error", "cancelled"}, content \in {disk, RemoveTree(disk, sid)} :
          Return(code, content)
    BY <1>10 DEF Drops
  <2>2. sid \notin SettledIds(disk)
    BY <1>1, <1>10, ShadowIsOpen DEF Drops, OpenScanPoints
  <2>3. sid \notin SettledIds(content)
    BY <1>1, <2>1, <2>2, DropRecords DEF SettledIds, SettledScans
  <2>4. QED
    BY <2>1, <2>3, ReturnHonest
<1>11. CASE Finish
  BY <1>1, <1>11 DEF Finish, Return, HonestRest, ResultIsHonest
<1>12. CASE Crash
  BY <1>12, ReturnHonest DEF Crash
<1>13. CASE Pauses
  BY <1>1, <1>13 DEF Pauses, jobVars, HonestRest, ResultIsHonest
<1>14. QED
  BY <1>1, <1>2, <1>3, <1>4, <1>5, <1>6, <1>7, <1>8, <1>9, <1>10, <1>11, <1>12, <1>13,
     NextByRecords

(* As long as ScanManager::finish succeeds, scan_source tells the truth:   *)
(* with a source id it returns a tree the catalogue shows, and after an    *)
(* error or a cancellation nothing of the new tree is shown.               *)
THEOREM TheResultIsTrue ==
  ASSUME "finish" \notin Failing
  PROVE  Spec => []ResultIsHonest
<1>1. Init => HonestInv
  BY InitIInv DEF HonestInv, ResultIsHonest, Init
<1>2. HonestInv /\ [Next]_vars => HonestInv'
  <2>1. IInv' /\ HonestRest' => HonestInv'
    BY DEF HonestInv, HonestRest
  <2>2. HonestInv => IInv
    BY DEF HonestInv
  <2>3. QED
    BY <2>1, <2>2, NextIInv, NextHonest
<1>3. HonestInv => ResultIsHonest
  BY DEF HonestInv
<1>4. QED
  BY <1>1, <1>2, <1>3, PTL DEF Spec

-----------------------------------------------------------------------------
(* One finished tree per place                                             *)

PlaceRest ==
  /\ OneTreePerPlace
  /\ ~path.sep /\ \A r \in disk.source : ~r.path.sep
  /\ pc \in {"newsource"} \cup (RecordPoints \ {"done"}) =>
       \A r \in Settled(disk, path.place) : r.id = old

LEMMA PlaceParts == PlaceInv <=> IInv /\ LeftoversAreMarked /\ OnlyShadowOpen /\ PlaceRest
BY DEF PlaceInv, PlaceRest

(* A step after which no other tree is finished than before.               *)
LEMMA NothingFinished ==
  ASSUME PlaceRest, disk'.source \subseteq disk.source,
         \A y \in disk'.scan : y.status # "InProgress" =>
           \E x \in disk.scan : x.source = y.source /\ x.status # "InProgress"
  PROVE  /\ \A place : Settled(disk', place) \subseteq Settled(disk, place)
         /\ OneTreePerPlace'
         /\ \A r \in disk'.source : ~r.path.sep
<1>1. ASSUME NEW place, NEW r \in Settled(disk', place) PROVE r \in Settled(disk, place)
  BY SettledRows
<1>2. QED
  BY <1>1 DEF PlaceRest, OneTreePerPlace

(* A step that shows the new tree in place of the old one.                 *)
LEMMA NewTreeShown ==
  ASSUME PlaceRest,
         \A place \in Places : \A r \in Settled(disk', place) :
           \/ r = [id |-> sid, path |-> path]
           \/ r \in Settled(disk, place) /\ r.id # old,
         \A r \in Settled(disk, path.place) : r.id = old
  PROVE  OneTreePerPlace'
<1>1. SUFFICES ASSUME NEW place \in Places, NEW a \in Settled(disk', place),
                      NEW b \in Settled(disk', place)
               PROVE  a = b
  BY DEF OneTreePerPlace
<1> DEFINE mine == [id |-> sid, path |-> path]
<1>2. mine.path = path /\ a.path.place = place /\ b.path.place = place
  BY SettledRows
<1>3. /\ a = mine \/ (a \in Settled(disk, place) /\ a.id # old)
      /\ b = mine \/ (b \in Settled(disk, place) /\ b.id # old)
  OBVIOUS
<1> HIDE DEF mine
<1>4. CASE place = path.place
  BY <1>3, <1>4
<1>5. CASE place # path.place
  BY <1>2, <1>3, <1>5 DEF PlaceRest, OneTreePerPlace
<1>6. QED
  BY <1>4, <1>5

(* find_by_path after recovery finds the finished tree of the place if it  *)
(* has one: all its rows carry the path as it is written now.              *)
LEMMA LookUpFinds ==
  ASSUME "lookup" \notin Failing, PlaceInv, LookUp
  PROVE  \A r \in Settled(disk, path.place) : r.id = old'
<1>1. pc = "lookup" /\ work = disk /\ path \in Paths /\ disk \in CatalogType
  BY DEF LookUp, PlaceInv, IInv, ConnectionOK, BeforeRecords, TypeOK
<1> DEFINE matching == {r \in disk.source : r.path \in {path, Trimmed(path)}}
<1> DEFINE first == {q \in matching : \A o \in matching : q.id <= o.id}
<1>2. /\ FindByPath(disk, path) = {q.id : q \in first}
      /\ old' \in FindByPath(disk, path) \/ (FindByPath(disk, path) = {} /\ old' = NoId)
  BY <1>1 DEF FindByPath, LookUp
<1>3. \A r \in disk.source : r \in matching <=> r.path.place = path.place
  <2>1. Trimmed(path) = path
    BY <1>1 DEF Trimmed, Paths, PlaceInv
  <2>2. \A r \in disk.source : r.path \in Paths /\ r.path.sep = FALSE
    BY <1>1 DEF CatalogType, PlaceInv, Paths
  <2>3. path \in Paths /\ path.sep = FALSE
    BY <1>1 DEF PlaceInv, Paths
  <2>4. \A r \in disk.source : r.path = path <=> r.path.place = path.place
    BY <2>2, <2>3 DEF Paths
  <2>5. QED
    BY <2>1, <2>4
<1>4. ASSUME NEW r \in matching PROVE r \in Settled(disk, path.place)
  <2>1. PICK x \in disk.scan : x.source = r.id
    BY <1>1 DEF PlaceInv, LeftoversAreMarked
  <2>2. x.status # "InProgress"
    BY <1>1 DEF PlaceInv, OnlyShadowOpen
  <2>3. QED
    BY <1>3, <2>1, <2>2, SettledRows
<1>5. \A a, b \in Settled(disk, path.place) : a = b
  BY <1>1 DEF PlaceInv, OneTreePerPlace, Paths
<1>6. \A r \in Settled(disk, path.place) : r \in matching /\ r.id \in Nat
  BY <1>1, <1>3, SettledRows DEF CatalogType, Rowid
<1>7. matching \subseteq disk.source
  OBVIOUS
<1> HIDE DEF matching
<1>8. ASSUME NEW r \in Settled(disk, path.place) PROVE r.id = old'
  <2>1. \A o \in matching : o = r
    BY <1>4, <1>5
  <2>2. r \in first
    BY <1>6, <2>1
  <2>3. \A q \in first : q = r
    BY <2>1
  <2> HIDE DEF first
  <2>4. FindByPath(disk, path) # {}
    BY <1>2, <2>2
  <2>5. QED
    BY <1>2, <2>3, <2>4
<1>9. QED
  BY <1>8

LEMMA NextPlace ==
  ASSUME "recover" \notin Failing, "lookup" \notin Failing, Seps \subseteq {FALSE},
         PlaceInv, [Next]_vars
  PROVE  PlaceRest'
<1> USE DEF RecordPoints, BeforeRecords, Labels
<1>1. /\ IInv /\ KeysOK(disk) /\ disk \in CatalogType /\ PlaceRest
      /\ ~path.sep /\ (\A r \in disk.source : ~r.path.sep)
  BY DEF PlaceInv, PlaceRest, IInv, TypeOK
<1>2. ASSUME disk'.source = disk.source, disk'.scan = disk.scan, path' = path,
             pc' \in {"newsource"} \cup (RecordPoints \ {"done"}) =>
               pc \in {"newsource"} \cup (RecordPoints \ {"done"}) /\ old' = old
      PROVE  PlaceRest'
  <2>1. \A place : Settled(disk', place) = Settled(disk, place)
    BY <1>2 DEF Settled, SettledIds, SettledScans
  <2>2. QED
    BY <1>1, <1>2, <2>1 DEF PlaceRest, OneTreePerPlace
<1>3. CASE StartScan
  <2>1. ~path'.sep /\ disk' = disk /\ pc' = "recover"
    BY <1>3 DEF StartScan, dbVars
  <2>2. QED
    BY <1>1, <2>1 DEF PlaceRest, OneTreePerPlace
<1>4. CASE Recover
  <2>1. /\ pc' = "lookup" /\ path' = path
        /\ disk'.source \subseteq disk.source
        /\ disk'.scan \subseteq disk.scan
    BY <1>1, <1>4, RecoverRecords DEF jobVars
  <2>2. QED
    BY <1>1, <2>1, NothingFinished DEF PlaceRest
<1>5. CASE LookUp
  <2>1. CASE Return("error", disk)
    BY <1>2, <2>1 DEF Return
  <2>2. CASE pc' = "newsource" /\ disk' = disk /\ path' = path
    BY <1>1, <1>5, <2>2, LookUpFinds DEF PlaceRest, OneTreePerPlace
  <2>3. QED
    BY <1>5, <2>1, <2>2 DEF LookUp, dbVars
<1>6. CASE CreateSource
  <2>1. CASE Return("error", disk)
    BY <1>2, <2>1 DEF Return
  <2>2. CASE pc' = "newscan"
    <3>1. /\ pc = "newsource" /\ path' = path /\ old' = old
          /\ sid' \notin IdsOf(disk.source)
          /\ disk'.source = disk.source \cup {[id |-> sid', path |-> path]}
          /\ disk'.scan = disk.scan
      BY <1>1, <1>6, <2>2, CreateSourceRecords DEF Return
    <3>2. \A x \in disk.scan : x.source # sid'
      BY <1>1, <3>1 DEF KeysOK
    <3>3. \A place : Settled(disk', place) \subseteq Settled(disk, place)
      <4>1. SUFFICES ASSUME NEW place, NEW r \in Settled(disk', place)
                     PROVE  r \in Settled(disk, place)
        OBVIOUS
      <4>2. PICK x \in disk.scan : x.source = r.id /\ x.status # "InProgress"
        BY <3>1, SettledRows
      <4>3. r \in disk'.source /\ r.path.place = place /\ r.id # sid'
        BY <3>2, <4>2, SettledRows
      <4>4. r \in disk.source
        BY <3>1, <4>3
      <4>5. QED
        BY <4>2, <4>3, <4>4, SettledRows
    <3>4. \A r \in disk'.source : ~r.path.sep
      BY <1>1, <3>1
    <3>5. QED
      BY <1>1, <3>1, <3>3, <3>4 DEF PlaceRest, OneTreePerPlace
  <2>3. QED
    BY <1>1, <1>6, <2>1, <2>2, CreateSourceRecords
<1>7. CASE CreateScan
  <2>1. CASE Return("error", disk)
    BY <1>2, <2>1 DEF Return
  <2>2. CASE pc' = "begin"
    <3>1. /\ pc = "newscan" /\ path' = path /\ old' = old
          /\ disk'.source = disk.source
          /\ disk'.scan = disk.scan \cup {[id |-> scid', source |-> sid, status |-> "InProgress"]}
      BY <1>1, <1>7, <2>2, CreateScanRecords DEF Return
    <3>2. \A place : Settled(disk', place) \subseteq Settled(disk, place)
      BY <3>1, SettledRows
    <3>3. QED
      BY <1>1, <3>1, <3>2 DEF PlaceRest, OneTreePerPlace
  <2>3. QED
    BY <1>1, <1>7, <2>1, <2>2, CreateScanRecords
<1>8. CASE MovesOn
  BY <1>2, <1>8 DEF MovesOn, SameRecords, jobVars, OpenScanPoints
<1>9. CASE Pauses
  BY <1>2, <1>9 DEF Pauses, jobVars
<1>10. CASE Finish \/ Crash
  BY <1>2, <1>10 DEF Finish, Crash, Return
<1>11. CASE Drops
  <2>1. PICK content \in {disk, RemoveTree(disk, sid)} :
          disk' = content /\ pc' = "idle" /\ path' = path
    BY <1>11 DEF Drops, Return
  <2>2. disk'.source \subseteq disk.source /\ disk'.scan \subseteq disk.scan
    BY <1>1, <2>1, DropRecords
  <2>3. QED
    BY <1>1, <2>1, <2>2, NothingFinished DEF PlaceRest
<1>12. CASE CancelFirstScan
  <2>1. PICK content \in {disk, FinishScan(disk, scid, "Cancelled")} : Return("ok", content)
    BY <1>12 DEF CancelFirstScan
  <2>2. pc = "cancelled" /\ old = NoId
    BY <1>12 DEF CancelFirstScan
  <2>3. /\ [id |-> sid, path |-> path] \in disk.source
        /\ [id |-> scid, source |-> sid, status |-> "InProgress"] \in disk.scan
    BY <1>1, <2>2 DEF IInv, RecordsOK, OpenScanPoints
  <2>4. /\ content.source = disk.source
        /\ \A y \in content.scan : \E x \in disk.scan :
             y.source = x.source /\ (x.id # scid => y.status = x.status)
    <3>1. CASE content = disk
      BY <3>1
    <3>2. CASE content = FinishScan(disk, scid, "Cancelled")
      <4>1. "Cancelled" \in Statuses
        BY DEF Statuses
      <4>2. /\ content.source = disk.source
            /\ \A y \in content.scan : \E x \in disk.scan :
                 y.source = x.source /\ y.status = (IF x.id = scid THEN "Cancelled" ELSE x.status)
        BY <1>1, <3>2, <4>1, FinishScanRecords
      <4>3. QED
        BY <4>2
    <3>3. QED
      BY <2>1, <3>1, <3>2
  <2>5. \A r \in disk.source : r.id # NoId
    BY <1>1 DEF CatalogType, Rowid, NoId
  <2>6. ASSUME NEW place, NEW r \in Settled(content, place), r # [id |-> sid, path |-> path]
        PROVE  r \in Settled(disk, place) /\ r.id # old
    <3>1. PICK y \in content.scan : y.source = r.id /\ y.status # "InProgress"
      BY SettledRows
    <3>2. r \in disk.source /\ r.path.place = place
      BY <2>4, SettledRows
    <3>3. r.id # sid
      BY <1>1, <2>3, <2>6, <3>2 DEF KeysOK
    <3>4. PICK x \in disk.scan : x.source = r.id /\ (x.id # scid => y.status = x.status)
      BY <2>4, <3>1
    <3>5. x.id # scid
      BY <1>1, <2>3, <3>3, <3>4 DEF KeysOK
    <3>6. QED
      BY <2>2, <2>5, <3>1, <3>2, <3>4, <3>5, SettledRows
  <2>7. \A r \in Settled(disk, path.place) : r.id = old
    BY <1>1, <2>2 DEF PlaceRest
  <2>8. disk' = content /\ pc' = "idle" /\ path' = path
    BY <2>1 DEF Return
  <2>9. OneTreePerPlace'
    BY <1>1, <2>6, <2>7, <2>8, NewTreeShown
  <2>10. QED
    BY <1>1, <2>4, <2>8, <2>9 DEF PlaceRest
<1>13. CASE Switches
  <2>1. pc = "swcommit" /\ intxn /\ disk' = work /\ pc' = "done" /\ path' = path
    BY <1>13 DEF Switches, jobVars
  <2>2. [id |-> sid, path |-> path] \in disk.source
    BY <1>1, <2>1 DEF IInv, RecordsOK
  <2>3. /\ disk'.source = {r \in disk.source : r.id # old}
        /\ \A y \in disk'.scan : y.source # sid => y \in disk.scan
    BY <1>1, <2>1, SwitchRecords
  <2>4. ASSUME NEW place, NEW r \in Settled(disk', place), r # [id |-> sid, path |-> path]
        PROVE  r \in Settled(disk, place) /\ r.id # old
    <3>1. PICK y \in disk'.scan : y.source = r.id /\ y.status # "InProgress"
      BY SettledRows
    <3>2. r \in disk.source /\ r.id # old /\ r.path.place = place
      BY <2>3, SettledRows
    <3>3. r.id # sid
      BY <1>1, <2>2, <2>4, <3>2 DEF KeysOK
    <3>4. QED
      BY <2>3, <3>1, <3>2, <3>3, SettledRows
  <2>5. \A r \in Settled(disk, path.place) : r.id = old
    BY <1>1, <2>1 DEF PlaceRest
  <2>6. OneTreePerPlace'
    BY <1>1, <2>4, <2>5, NewTreeShown
  <2>7. QED
    BY <1>1, <2>1, <2>3, <2>6 DEF PlaceRest
<1>14. QED
  BY <1>1, <1>3, <1>4, <1>5, <1>6, <1>7, <1>8, <1>9, <1>10, <1>11, <1>12, <1>13, NextByRecords

LEMMA InitPlace == Init => PlaceInv
<1>1. Init => disk.source = {} /\ pc = "idle" /\ ~path.sep
  <2>1. Init => disk.source = {} /\ pc = "idle"
    BY DEF Init, EmptyCatalog
  <2>2. Init => path.sep = FALSE
    BY DEF Init
  <2>3. path.sep = FALSE => ~path.sep
    OBVIOUS
  <2>4. QED
    BY <2>1, <2>2, <2>3
<1>2. disk.source = {} => \A place : Settled(disk, place) = {}
  BY DEF Settled
<1>3. ASSUME Init PROVE LeftoversAreMarked /\ PlaceRest
  <2>1. LeftoversAreMarked /\ OneTreePerPlace
    BY <1>1, <1>2, <1>3 DEF LeftoversAreMarked, OneTreePerPlace
  <2>2. pc \notin {"newsource"} \cup (RecordPoints \ {"done"})
    BY <1>1, <1>3 DEF RecordPoints, BeforeRecords
  <2>3. QED
    BY <1>1, <1>3, <2>1, <2>2 DEF PlaceRest
<1>4. QED
  BY <1>3, InitIInv, InitOpen, PlaceParts

LEMMA NextPlaceInv ==
  ASSUME "newscan" \notin CrashPoints, "scan" \notin Failing, "recover" \notin Failing,
         "lookup" \notin Failing, Seps \subseteq {FALSE}
  PROVE  PlaceInv /\ [Next]_vars => PlaceInv'
<1>1. PlaceInv => LeftInv /\ OpenInv /\ IInv
  BY DEF PlaceInv, LeftInv, OpenInv
<1>2. IInv' /\ LeftoversAreMarked' /\ OnlyShadowOpen' /\ PlaceRest' => PlaceInv'
  BY DEF PlaceInv, PlaceRest
<1>3. QED
  BY <1>1, <1>2, NextIInv, NextLeft, NextOpen, NextPlace

(* At every moment a place has at most one finished tree - the scan that   *)
(* comes replaces it instead of accumulating.  The premises are what the   *)
(* code cannot do without: names written without a trailing separator, a   *)
(* lookup and a recovery that succeed, and no death or failure between the *)
(* source row and the scan row (run killed_early shows the last one).      *)
THEOREM PlacesHaveOneTree ==
  ASSUME "newscan" \notin CrashPoints, "scan" \notin Failing, "recover" \notin Failing,
         "lookup" \notin Failing, Seps \subseteq {FALSE}
  PROVE  Spec => []OneTreePerPlace
<1>1. PlaceInv => OneTreePerPlace
  BY DEF PlaceInv
<1>2. QED
  BY <1>1, InitPlace, NextPlaceInv, PTL DEF Spec
=============================================================================
