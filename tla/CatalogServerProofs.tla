------------------------ MODULE CatalogServerProofs ------------------------
(***************************************************************************)
(* Theorems about CatalogServer, for any number of threads, requests and   *)
(* commands: a search is about one state of the catalogue, an old state is *)
(* let go with the last search, the answer to api_entry has the whole path *)
(* of its entry, and, if no command is killed while it replaces the index, *)
(* the index lacks no entry that its scan put into it.                     *)
(***************************************************************************)
EXTENDS CatalogServer, CatalogTheorems, Induction, SequenceTheorems

-----------------------------------------------------------------------------
(* The statements of the writing command                                   *)

EntryRow == [id : Rowid, source : Rowid, parent : Nat, item : Items]

LEMMA FreshRowid ==
  ASSUME NEW db \in CatalogType,
         NEW rows \in {db.source, db.scan, db.entry}, NEW id \in NewRowids(rows)
  PROVE  id \in Rowid /\ id \notin IdsOf(rows)
BY TableIds, NewRowidsFresh

(* new holds the other sources, their entries and their index rows.        *)
Without(db, sources, new) ==
  /\ \A s : s \in new.source <=> s \in db.source /\ s.id \notin sources
  /\ \A e : e \in new.entry <=> e \in db.entry /\ e.source \notin sources
  /\ \A id : id \in new.fts <=>
              /\ id \in db.fts
              /\ \A e \in db.entry : e.source \in sources => e.id # id

LEMMA RemovedEntries ==
  ASSUME NEW db \in CatalogType, NEW sources
  PROVE  Without(db, sources, RemoveSources(db, Completely(sources)))
<1> DEFINE done == Completely(sources)
<1>1. DOMAIN done = sources /\ \A s \in sources : done[s] = 5
  BY DEF Completely, RemoveSteps
<1> HIDE DEF done
<1>2. \A s : s \in sources <=> s \in DOMAIN done /\ done[s] >= 2
  BY <1>1
<1>3. \A s : s \in sources <=> s \in DOMAIN done /\ done[s] >= 3
  BY <1>1
<1>4. RemoveSources(db, done).entry =
        {e \in db.entry : ~(e.source \in DOMAIN done /\ done[e.source] >= 3)}
  BY DEF RemoveSources
<1>7. \A s : s \in sources <=> s \in DOMAIN done /\ done[s] >= 5
  BY <1>1
<1>8. RemoveSources(db, done).source =
        {s \in db.source : ~(s.id \in DOMAIN done /\ done[s.id] >= 5)}
  BY DEF RemoveSources
<1>5. RemoveSources(db, done).fts =
        db.fts \ IdsOf({e \in db.entry : e.source \in DOMAIN done /\ done[e.source] >= 2})
  BY DEF RemoveSources
<1>6. QED
  BY <1>2, <1>3, <1>4, <1>5, <1>7, <1>8 DEF done, Without, IdsOf

(* The two outcomes of a batch: with and without the index row.            *)
LEMMA InsertedEntry ==
  ASSUME NEW db \in CatalogType, NEW id \in Rowid, NEW s \in Rowid,
         NEW parent \in Nat, NEW item \in Items
  PROVE  LET one == InsertEntry(db, id, s, parent, item)
             row == [id |-> id, source |-> s, parent |-> parent, item |-> item]
         IN  /\ one \in CatalogType /\ InsertFts(one, id) \in CatalogType
             /\ one.source = db.source /\ InsertFts(one, id).source = db.source
             /\ one.entry = db.entry \cup {row}
             /\ InsertFts(one, id).entry = db.entry \cup {row}
             /\ one.fts = db.fts /\ InsertFts(one, id).fts = db.fts \cup {id}
<1> DEFINE one == InsertEntry(db, id, s, parent, item)
           row == [id |-> id, source |-> s, parent |-> parent, item |-> item]
<1>1. one \in CatalogType
  BY InsertEntryType
<1>2. one.entry = db.entry \cup {row} /\ one.fts = db.fts /\ one.source = db.source
  BY DEF InsertEntry, CatalogType
<1> HIDE DEF one
<1>3. InsertFts(one, id) \in CatalogType
  BY <1>1, InsertFtsType
<1>4. /\ InsertFts(one, id).entry = one.entry /\ InsertFts(one, id).source = one.source
      /\ InsertFts(one, id).fts = one.fts \cup {id}
  BY <1>1 DEF InsertFts, CatalogType
<1>5. QED
  BY <1>1, <1>2, <1>3, <1>4 DEF one

(* These statements do not touch the entries or the index.                 *)
LEMMA InsertSourceKeepsRows ==
  ASSUME NEW db \in CatalogType, NEW id, NEW path
  PROVE  /\ InsertSource(db, id, path).entry = db.entry
         /\ InsertSource(db, id, path).fts = db.fts
         /\ InsertSource(db, id, path).source = db.source \cup {[id |-> id, path |-> path]}
BY DEF CatalogType, InsertSource

LEMMA InsertScanKeepsRows ==
  ASSUME NEW db \in CatalogType, NEW id, NEW s
  PROVE  /\ InsertScan(db, id, s).entry = db.entry
         /\ InsertScan(db, id, s).fts = db.fts
         /\ InsertScan(db, id, s).source = db.source
BY DEF CatalogType, InsertScan

LEMMA FinishScanKeepsRows ==
  ASSUME NEW db \in CatalogType, NEW id, NEW status
  PROVE  /\ FinishScan(db, id, status).entry = db.entry
         /\ FinishScan(db, id, status).fts = db.fts
         /\ FinishScan(db, id, status).source = db.source
BY DEF CatalogType, FinishScan

(* Those of the upgrade touch the index only.                              *)
LEMMA RebuiltCatalog ==
  ASSUME NEW db \in CatalogType
  PROVE  /\ Rebuilt(db) \in CatalogType
         /\ Rebuilt(db).entry = db.entry
         /\ Rebuilt(db).fts = IdsOf(db.entry)
<1>1. IdsOf(db.entry) \subseteq Rowid
  BY DEF CatalogType, IdsOf
<1>2. QED
  BY <1>1 DEF CatalogType, Rebuilt

LEMMA DroppedCatalog ==
  ASSUME NEW db \in CatalogType
  PROVE  /\ [db EXCEPT !.fts = {}] \in CatalogType
         /\ [db EXCEPT !.fts = {}].entry = db.entry
         /\ [db EXCEPT !.fts = {}].fts = {}
BY DEF CatalogType

(* What the switch and recovery commit.                                    *)
LEMMA SwitchedCatalog ==
  ASSUME NEW db \in CatalogType, NEW sources, NEW id
  PROVE  LET new == FinishScan(RemoveSources(db, Completely(sources)), id, "Completed") IN
         new \in CatalogType /\ Without(db, sources, new)
<1> DEFINE left == RemoveSources(db, Completely(sources))
<1>1. left \in CatalogType
  BY RemoveSourcesType
<1>2. Without(db, sources, left)
  BY RemovedEntries
<1> HIDE DEF left
<1>3. FinishScan(left, id, "Completed") \in CatalogType
  BY <1>1, FinishScanType DEF Statuses
<1>4. /\ FinishScan(left, id, "Completed").entry = left.entry
      /\ FinishScan(left, id, "Completed").fts = left.fts
      /\ FinishScan(left, id, "Completed").source = left.source
  BY <1>1, FinishScanKeepsRows
<1>5. QED
  BY <1>2, <1>3, <1>4 DEF left, Without

(* Removing sources leaves the rest of the index with the rest of the      *)
(* entries, because no two entries have the same rowid.                    *)
LEMMA RemovalFits ==
  ASSUME NEW db \in CatalogType, RowidsDiffer(db), OnlyEntriesIndexed(db), NEW sources,
         NEW new, Without(db, sources, new)
  PROVE  /\ RowidsDiffer(new) /\ OnlyEntriesIndexed(new)
         /\ IndexFits(db) => IndexFits(new)
<1>1. RowidsDiffer(new)
  BY DEF RowidsDiffer, Without
<1>2. ASSUME NEW id \in new.fts
      PROVE  id \in IdsOf(new.entry)
  <2>1. PICK e \in db.entry : e.id = id
    BY DEF OnlyEntriesIndexed, IdsOf, Without
  <2>2. e \in new.entry
    BY <2>1 DEF Without
  <2>3. QED
    BY <2>1, <2>2 DEF IdsOf
<1>3. ASSUME IndexFits(db), NEW e \in new.entry
      PROVE  e.id \in new.fts \/ UnindexedByScan(new, e)
  <2>1. e \in db.entry /\ e.source \notin sources
    BY DEF Without
  <2>2. CASE e.id \in db.fts
    <3>1. \A f \in db.entry : f.source \in sources => f.id # e.id
      BY <2>1 DEF RowidsDiffer
    <3>2. QED
      BY <2>2, <3>1 DEF Without
  <2>3. CASE UnindexedByScan(db, e)
    BY <2>1, <2>3 DEF UnindexedByScan, Without
  <2>4. QED
    BY <1>3, <2>1, <2>2, <2>3 DEF IndexFits
<1>4. OnlyEntriesIndexed(new)
  BY <1>2 DEF OnlyEntriesIndexed
<1>5. IndexFits(db) => IndexFits(new)
  BY <1>3, <1>4 DEF IndexFits
<1>6. QED
  BY <1>1, <1>4, <1>5

(* So does a batch, if its entry has an index row or is one that may lack  *)
(* it.                                                                     *)
LEMMA InsertionFits ==
  ASSUME NEW db \in CatalogType, RowidsDiffer(db), OnlyEntriesIndexed(db),
         NEW row, row.id \notin IdsOf(db.entry),
         NEW new, new.entry = db.entry \cup {row}, new.source = db.source,
         db.fts \subseteq new.fts, new.fts \subseteq db.fts \cup {row.id}
  PROVE  /\ RowidsDiffer(new) /\ OnlyEntriesIndexed(new)
         /\ IndexFits(db) /\ (row.id \in new.fts \/ UnindexedByScan(new, row))
            => IndexFits(new)
<1>1. \A e \in db.entry : e.id # row.id
  BY DEF IdsOf
<1>2. RowidsDiffer(new)
  BY <1>1 DEF RowidsDiffer
<1>3. IdsOf(new.entry) = IdsOf(db.entry) \cup {row.id}
  BY DEF IdsOf
<1>4. OnlyEntriesIndexed(new)
  BY <1>3 DEF OnlyEntriesIndexed
<1>5. ASSUME IndexFits(db), row.id \in new.fts \/ UnindexedByScan(new, row)
      PROVE  \A e \in new.entry : e.id \in new.fts \/ UnindexedByScan(new, e)
  BY <1>5 DEF IndexFits, UnindexedByScan
<1>6. QED
  BY <1>2, <1>4, <1>5 DEF IndexFits

LEMMA Committed ==
  ASSUME file \in FileType, NEW cat \in CatalogType,
         NEW index \in {"contentless", "none", "regular"}, Commit(cat, index)
  PROVE  file' \in FileType /\ file'.cat = cat /\ file'.index = index
<1>1. file.removals \in Nat
  BY DEF FileType
<1>2. QED
  BY <1>1 DEF Commit, FileType

LEMMA FileTyped ==
  ASSUME WriterInv
  PROVE  /\ file.cat \in CatalogType
         /\ file.index \in {"contentless", "none", "regular"}
BY DEF WriterInv, FileType

LEMMA GoneTo ==
  ASSUME writer \in WriterType, NEW point \in WriterPoints, GoTo(point)
  PROVE  /\ writer' \in WriterType /\ writer'.pc = point
         /\ writer'.sid = writer.sid /\ writer'.ids = writer.ids
         /\ writer'.place = writer.place
BY DEF GoTo, WriterType

LEMMA AfterUpgradePoint ==
  AfterUpgrade \in WriterPoints /\ AfterUpgrade \in {"none", "recover"}
BY DEF AfterUpgrade, WriterPoints

LEMMA IdleTyped ==
  ASSUME NEW p \in Places
  PROVE  Idle \in WriterType /\ Idle.pc = "none" /\ Idle.ids = << >>
<1>1. (CHOOSE q \in Places : TRUE) \in Places
  OBVIOUS
<1>2. << >> \in Seq(Rowid) /\ 0 \in Nat
  OBVIOUS
<1>3. QED
  BY <1>1, <1>2 DEF Idle, WriterType, WriterPoints

-----------------------------------------------------------------------------
(* The writing command, action by action                                   *)

(* A step that leaves the file alone and does not begin to write.          *)
LEMMA FileKept ==
  ASSUME WriterInv, UNCHANGED file, writer' \in WriterType, commands' \in 0 .. MaxCommands,
         writer'.pc \notin {"newscan", "walk", "switch", "create", "rebuild"},
         writer'.ids = << >>
  PROVE  /\ WriterInv'
         /\ /\ IndexInv /\ writer.pc # "rebuild"
            /\ writer'.pc = "recover" => file.index = "regular"
            => IndexInv'
<1>1. WriterInv'
  BY DEF WriterInv, WriterOK
<1>2. /\ IndexInv /\ writer.pc # "rebuild"
      /\ writer'.pc = "recover" => file.index = "regular"
      => IndexInv'
  BY DEF IndexInv, EntriesCanBeFound, SourceOK
<1>3. QED
  BY <1>1, <1>2

LEMMA StartCommandKeeps ==
  ASSUME WriterInv, StartCommand
  PROVE  WriterInv' /\ (IndexInv => IndexInv')
<1>1. Idle \in WriterType
  BY IdleTyped DEF WriterInv, WriterType
<1>2. writer' \in WriterType /\ writer'.pc = "detect" /\ writer'.ids = << >>
  <2>1. Idle.ids = << >>
    BY DEF Idle
  <2>2. QED
    BY <1>1, <2>1 DEF StartCommand, WriterType, WriterPoints
<1>3. commands' \in 0 .. MaxCommands
  <2>1. commands \in 0 .. MaxCommands /\ MaxCommands \in Nat
    BY ServerAssumption DEF WriterInv
  <2>2. commands < MaxCommands /\ commands' = commands + 1
    BY DEF StartCommand
  <2>3. QED
    BY <2>1, <2>2
<1>4. UNCHANGED file /\ writer.pc # "rebuild"
  BY DEF StartCommand
<1>5. QED
  BY <1>2, <1>3, <1>4, FileKept

LEMMA DetectKeeps ==
  ASSUME WriterInv, Detect
  PROVE  WriterInv' /\ (IndexInv => IndexInv')
<1>1. UNCHANGED <<file, commands>> /\ writer.pc = "detect"
  BY DEF Detect
<1>2. writer \in WriterType /\ commands' \in 0 .. MaxCommands /\ writer.ids = << >>
  BY <1>1 DEF WriterInv, WriterOK
<1>3. file.index \in {"contentless", "none", "regular"}
  BY FileTyped
<1>4. CASE file.index = "none"
  <2>1. GoTo("create")
    BY <1>4 DEF Detect
  <2>2. writer' \in WriterType /\ writer'.pc = "create" /\ writer'.ids = << >>
    BY <1>2, <2>1, GoneTo DEF WriterPoints
  <2>3. WriterInv'
    BY <1>1, <1>2, <2>2 DEF WriterInv, WriterOK
  <2>4. ~IndexInv
    BY <1>1, <1>4 DEF IndexInv, EntriesCanBeFound
  <2>5. QED
    BY <2>3, <2>4
<1>5. CASE file.index = "contentless"
  <2>1. GoTo("drop")
    BY <1>5 DEF Detect
  <2>2. writer' \in WriterType /\ writer'.pc = "drop" /\ writer'.ids = << >>
    BY <1>2, <2>1, GoneTo DEF WriterPoints
  <2>3. QED
    BY <1>1, <1>2, <2>2, FileKept
<1>6. CASE file.index = "regular"
  <2>1. GoTo(AfterUpgrade)
    BY <1>6 DEF Detect
  <2>2. /\ writer' \in WriterType /\ writer'.pc \in {"none", "recover"}
        /\ writer'.ids = << >>
    BY <1>2, <2>1, GoneTo, AfterUpgradePoint
  <2>3. QED
    BY <1>1, <1>2, <1>6, <2>2, FileKept
<1>7. QED
  BY <1>3, <1>4, <1>5, <1>6

LEMMA DropIndexKeeps ==
  ASSUME WriterInv, DropIndex
  PROVE  WriterInv' /\ (IndexInv => IndexInv')
<1> DEFINE new == [file.cat EXCEPT !.fts = {}]
<1>1. new \in CatalogType /\ new.entry = file.cat.entry /\ new.fts = {}
  BY FileTyped, DroppedCatalog
<1>2. Commit(new, "none") /\ GoTo("rebuild") /\ UNCHANGED commands
  BY DEF DropIndex
<1> HIDE DEF new
<1>3. file' \in FileType /\ file'.cat = new /\ file'.index = "none"
  BY <1>1, <1>2, Committed DEF WriterInv
<1>4. writer' \in WriterType /\ writer'.pc = "rebuild" /\ writer'.ids = << >>
  BY <1>2, GoneTo DEF WriterInv, WriterPoints, WriterOK, DropIndex
<1>5. RowidsDiffer(new) /\ OnlyEntriesIndexed(new)
  BY <1>1 DEF WriterInv, RowidsDiffer, OnlyEntriesIndexed
<1>6. WriterInv'
  BY <1>2, <1>3, <1>4, <1>5 DEF WriterInv, WriterOK
<1>7. IndexInv'
  BY <1>3, <1>4 DEF IndexInv, EntriesCanBeFound, SourceOK
<1>8. QED
  BY <1>6, <1>7

LEMMA CreateIndexKeeps ==
  ASSUME WriterInv, CreateIndex
  PROVE  WriterInv' /\ (IndexInv => IndexInv')
<1>1. Commit(file.cat, "regular") /\ UNCHANGED commands
  BY DEF CreateIndex
<1>2. file' \in FileType /\ file'.cat = file.cat /\ file'.index = "regular"
  BY <1>1, FileTyped, Committed DEF WriterInv
<1>3. /\ writer' \in WriterType /\ writer'.pc \in {"none", "recover", "rebuild"}
      /\ writer.pc = "rebuild" => writer'.pc = "rebuild"
      /\ writer'.ids = << >>
  <2> writer.ids = << >> /\ writer \in WriterType
    BY DEF CreateIndex, WriterInv, WriterOK
  <2>1. CASE writer.pc = "rebuild"
    BY <2>1, GoneTo DEF CreateIndex, WriterInv, WriterPoints
  <2>2. CASE writer.pc # "rebuild"
    <3>1. GoTo(AfterUpgrade)
      BY <2>2 DEF CreateIndex
    <3>2. QED
      BY <2>2, <3>1, GoneTo, AfterUpgradePoint DEF WriterInv
  <2>3. QED
    BY <2>1, <2>2
<1>4. WriterInv'
  BY <1>1, <1>2, <1>3 DEF WriterInv, WriterOK
<1>5. ASSUME IndexInv
      PROVE  IndexInv'
  <2>1. writer.pc = "rebuild"
    BY <1>5 DEF IndexInv, CreateIndex
  <2>2. QED
    BY <1>2, <1>3, <2>1 DEF IndexInv, EntriesCanBeFound, SourceOK
<1>6. QED
  BY <1>4, <1>5

LEMMA RebuildIndexKeeps ==
  ASSUME WriterInv, RebuildIndex
  PROVE  WriterInv' /\ (IndexInv => IndexInv')
<1> DEFINE new == Rebuilt(file.cat)
<1>1. new \in CatalogType /\ new.entry = file.cat.entry /\ new.fts = IdsOf(file.cat.entry)
  BY FileTyped, RebuiltCatalog
<1>2. Commit(new, "regular") /\ GoTo(AfterUpgrade) /\ UNCHANGED commands
  BY DEF RebuildIndex
<1> HIDE DEF new
<1>3. file' \in FileType /\ file'.cat = new /\ file'.index = "regular"
  BY <1>1, <1>2, Committed DEF WriterInv
<1>4. /\ writer' \in WriterType /\ writer'.pc \in {"none", "recover"}
      /\ writer'.ids = << >>
  BY <1>2, GoneTo, AfterUpgradePoint DEF WriterInv, WriterOK, RebuildIndex
<1>5. RowidsDiffer(new) /\ OnlyEntriesIndexed(new)
  BY <1>1 DEF WriterInv, RowidsDiffer, OnlyEntriesIndexed
<1>6. WriterInv'
  BY <1>2, <1>3, <1>4, <1>5 DEF WriterInv, WriterOK
<1>7. IndexFits(new)
  BY <1>1, <1>5 DEF IndexFits, IdsOf
<1>8. IndexInv'
  BY <1>3, <1>4, <1>7 DEF IndexInv, EntriesCanBeFound, SourceOK
<1>9. QED
  BY <1>6, <1>8

(* A statement of a scan that adds neither entries nor index rows.         *)
LEMMA RowsKept ==
  ASSUME WriterInv, NEW cat \in CatalogType, cat.entry = file.cat.entry,
         cat.fts = file.cat.fts, file.cat.source \subseteq cat.source,
         Commit(cat, file.index)
  PROVE  /\ file' \in FileType /\ file'.index = file.index /\ file'.cat = cat
         /\ RowidsDiffer(file.cat)' /\ OnlyEntriesIndexed(file.cat)'
         /\ IndexFits(file.cat) => IndexFits(file'.cat)
<1>1. file' \in FileType /\ file'.cat = cat /\ file'.index = file.index
  BY FileTyped, Committed DEF WriterInv
<1>2. RowidsDiffer(cat) /\ OnlyEntriesIndexed(cat)
  BY DEF WriterInv, RowidsDiffer, OnlyEntriesIndexed
<1>3. IndexFits(file.cat) => IndexFits(cat)
  BY <1>2 DEF IndexFits, UnindexedByScan
<1>4. QED
  BY <1>1, <1>2, <1>3

LEMMA RecoverLeftoversKeeps ==
  ASSUME WriterInv, RecoverLeftovers
  PROVE  WriterInv' /\ (IndexInv => IndexInv')
<1> DEFINE dead == InProgressSources(file.cat)
           left == RemoveSources(file.cat, Completely(dead))
<1>1. /\ writer' \in WriterType /\ writer'.pc = "newsource" /\ writer'.ids = << >>
      /\ UNCHANGED commands
  BY GoneTo DEF RecoverLeftovers, WriterInv, WriterOK, WriterPoints
<1>2. commands' \in 0 .. MaxCommands
  BY <1>1 DEF WriterInv
<1>3. CASE dead = {}
  <2>1. UNCHANGED file /\ writer.pc = "recover"
    BY <1>3 DEF RecoverLeftovers
  <2>2. QED
    BY <1>1, <1>2, <2>1, FileKept
<1>4. CASE dead # {}
  <2>1. Commit(left, file.index) /\ writer.pc = "recover"
    BY <1>4 DEF RecoverLeftovers
  <2>2. left \in CatalogType /\ Without(file.cat, dead, left)
    BY FileTyped, RemoveSourcesType, RemovedEntries
  <2> HIDE DEF left, dead
  <2>3. file' \in FileType /\ file'.cat = left /\ file'.index = file.index
    BY <2>1, <2>2, FileTyped, Committed DEF WriterInv
  <2>4. /\ RowidsDiffer(left) /\ OnlyEntriesIndexed(left)
        /\ IndexFits(file.cat) => IndexFits(left)
    BY <2>2, FileTyped, RemovalFits DEF WriterInv
  <2>5. WriterInv'
    BY <1>1, <1>2, <2>3, <2>4 DEF WriterInv, WriterOK
  <2>6. IndexInv => IndexInv'
    BY <1>1, <2>1, <2>3, <2>4 DEF IndexInv, EntriesCanBeFound, SourceOK
  <2>7. QED
    BY <2>5, <2>6
<1>5. QED
  BY <1>3, <1>4

LEMMA NewSourceKeeps ==
  ASSUME WriterInv, NewSource
  PROVE  WriterInv' /\ (IndexInv => IndexInv')
<1> DEFINE path == [place |-> writer.place, sep |-> FALSE]
<1>1. PICK sid \in NewRowids(file.cat.source) :
        /\ Commit(InsertSource(file.cat, sid, path), file.index)
        /\ writer' = [writer EXCEPT !.pc = "newscan", !.sid = sid,
                                    !.old = FindByPath(file.cat, path)]
  BY DEF NewSource
<1>2. writer.pc = "newsource" /\ UNCHANGED commands /\ writer \in WriterType
      /\ writer.ids = << >>
  BY DEF NewSource, WriterInv, WriterOK
<1>3. file.cat \in CatalogType /\ sid \in Rowid /\ path \in Paths
  BY <1>2, FileTyped, FreshRowid DEF Paths, WriterType
<1>4. FindByPath(file.cat, path) \subseteq Rowid
  BY <1>3 DEF FindByPath, CatalogType
<1>5. /\ writer' \in WriterType /\ writer'.pc = "newscan" /\ writer'.sid \in Rowid
      /\ writer'.ids = << >> /\ writer'.sid = sid /\ writer'.place = writer.place
  BY <1>1, <1>2, <1>3, <1>4 DEF WriterType, WriterPoints, Rowid
<1> DEFINE new == InsertSource(file.cat, sid, path)
<1>6. /\ new \in CatalogType /\ new.entry = file.cat.entry /\ new.fts = file.cat.fts
      /\ new.source = file.cat.source \cup {[id |-> sid, path |-> path]}
  <2> HIDE DEF path
  <2>1. new \in CatalogType
    BY <1>3, InsertSourceType
  <2>2. /\ new.entry = file.cat.entry /\ new.fts = file.cat.fts
        /\ new.source = file.cat.source \cup {[id |-> sid, path |-> path]}
    BY <1>3, InsertSourceKeepsRows
  <2>3. QED
    BY <2>1, <2>2
<1>7. Commit(new, file.index)
  BY <1>1
<1> HIDE DEF new
<1>8. /\ file' \in FileType /\ file'.index = file.index /\ file'.cat = new
      /\ RowidsDiffer(file.cat)' /\ OnlyEntriesIndexed(file.cat)'
      /\ IndexFits(file.cat) => IndexFits(file'.cat)
  BY <1>6, <1>7, RowsKept
<1>9. WriterInv'
  BY <1>2, <1>5, <1>8 DEF WriterInv, WriterOK
<1>10. SourceOK'
  <2>1. [id |-> sid, path |-> path] \in file'.cat.source
    BY <1>6, <1>8
  <2>2. QED
    BY <1>5, <2>1 DEF SourceOK
<1>11. IndexInv => IndexInv'
  BY <1>2, <1>5, <1>8, <1>10 DEF IndexInv, EntriesCanBeFound
<1>12. QED
  BY <1>9, <1>11

LEMMA NewScanKeeps ==
  ASSUME WriterInv, NewScan
  PROVE  WriterInv' /\ (IndexInv => IndexInv')
<1>1. PICK scid \in NewRowids(file.cat.scan) :
        /\ Commit(InsertScan(file.cat, scid, writer.sid), file.index)
        /\ writer' = [writer EXCEPT !.pc = AfterEntries(0), !.scid = scid]
  BY DEF NewScan
<1>2. /\ writer.pc = "newscan" /\ UNCHANGED commands
      /\ writer \in WriterType /\ writer.sid \in Rowid /\ writer.ids = << >>
  BY DEF NewScan, WriterInv, WriterOK
<1>3. file.cat \in CatalogType /\ scid \in Rowid
  BY FileTyped, FreshRowid
<1>4. Len(Walk[writer.place]) \in Nat
  BY <1>2, ServerAssumption DEF WriterType
<1>5. /\ writer' \in WriterType /\ writer'.sid = writer.sid
      /\ writer'.pc \in {"walk", "switch"}
      /\ writer'.ids = << >> /\ writer'.place = writer.place
      /\ writer'.pc = "walk" => Len(Walk[writer.place]) # 0
  BY <1>1, <1>2, <1>3 DEF WriterType, WriterPoints, Rowid, AfterEntries
<1> DEFINE new == InsertScan(file.cat, scid, writer.sid)
<1>6. /\ new \in CatalogType /\ new.entry = file.cat.entry /\ new.fts = file.cat.fts
      /\ new.source = file.cat.source
  BY <1>2, <1>3, InsertScanType, InsertScanKeepsRows
<1>7. Commit(new, file.index)
  BY <1>1
<1> HIDE DEF new
<1>8. /\ file' \in FileType /\ file'.index = file.index /\ file'.cat = new
      /\ RowidsDiffer(file.cat)' /\ OnlyEntriesIndexed(file.cat)'
      /\ IndexFits(file.cat) => IndexFits(file'.cat)
  BY <1>6, <1>7, RowsKept
<1>9. WriterInv'
  BY <1>2, <1>4, <1>5, <1>8 DEF WriterInv, WriterOK
<1>10. SourceOK => SourceOK'
  BY <1>2, <1>5, <1>6, <1>8 DEF SourceOK
<1>11. IndexInv => IndexInv'
  BY <1>2, <1>5, <1>8, <1>10 DEF IndexInv, EntriesCanBeFound
<1>12. QED
  BY <1>9, <1>11

(* The next entry of the walk goes below an entry that was written before. *)
LEMMA NextEntry ==
  ASSUME WriterInv, writer.pc = "walk", NEW item, item = Walk[writer.place][Len(writer.ids) + 1]
  PROVE  item \in Items /\ FolderId(writer.ids, item) \in Nat
<1>1. /\ writer.ids \in Seq(Rowid) /\ writer.place \in Places
      /\ Len(writer.ids) < Len(Walk[writer.place])
  BY DEF WriterInv, WriterOK, WriterType
<1>2. Walk[writer.place] \in Seq(Items) /\ Up \in [Items -> Nat]
  BY <1>1, ServerAssumption
<1>3. /\ Len(writer.ids) + 1 \in DOMAIN Walk[writer.place]
      /\ Len(writer.ids) \in Nat
  BY <1>1, <1>2
<1>4. item \in Items
  BY <1>2, <1>3
<1>5. Up[item] < Len(writer.ids) + 1 /\ Up[item] \in Nat
  BY <1>1, <1>2, <1>3, <1>4, ServerAssumption
<1>6. Up[item] # 0 => writer.ids[Up[item]] \in Rowid
  BY <1>1, <1>3, <1>5
<1>7. QED
  BY <1>4, <1>6 DEF FolderId, NoId, Rowid

LEMMA WriteBatchKeeps ==
  ASSUME WriterInv, WriteBatch
  PROVE  WriterInv' /\ (IndexInv => IndexInv')
<1> DEFINE at == Len(writer.ids) + 1
           item == Walk[writer.place][at]
           parent == FolderId(writer.ids, item)
           one(id) == InsertEntry(file.cat, id, writer.sid, parent, item)
<1>1. PICK id \in NewRowids(file.cat.entry) :
        /\ \/ Commit(InsertFts(one(id), id), file.index)
           \/ MayLackRow(writer.place, item) /\ Commit(one(id), file.index)
        /\ writer' = [writer EXCEPT !.ids = Append(@, id), !.pc = AfterEntries(at)]
  BY DEF WriteBatch
<1>2. writer.pc = "walk" /\ UNCHANGED commands
  BY DEF WriteBatch
<1>3. /\ writer \in WriterType /\ writer.sid \in Rowid /\ writer.ids \in Seq(Rowid)
      /\ Len(writer.ids) < Len(Walk[writer.place]) /\ writer.place \in Places
  BY <1>2 DEF WriterInv, WriterOK, WriterType
<1>4. item \in Items /\ parent \in Nat
  BY <1>2, NextEntry
<1>5. /\ file.cat \in CatalogType /\ id \in Rowid
      /\ id \notin IdsOf(file.cat.entry)
  BY FileTyped, FreshRowid
<1> DEFINE row == [id |-> id, source |-> writer.sid, parent |-> parent, item |-> item]
<1> HIDE DEF item, parent
<1>6. /\ one(id) \in CatalogType /\ InsertFts(one(id), id) \in CatalogType
      /\ one(id).source = file.cat.source /\ InsertFts(one(id), id).source = file.cat.source
      /\ one(id).entry = file.cat.entry \cup {row}
      /\ InsertFts(one(id), id).entry = file.cat.entry \cup {row}
      /\ one(id).fts = file.cat.fts /\ InsertFts(one(id), id).fts = file.cat.fts \cup {id}
  BY <1>3, <1>4, <1>5, InsertedEntry
<1>7. row.id = id /\ row.source = writer.sid /\ row.item = item
  OBVIOUS
<1> HIDE DEF one, row
<1>8. PICK new \in {one(id), InsertFts(one(id), id)} :
        /\ Commit(new, file.index)
        /\ id \in new.fts \/ MayLackRow(writer.place, item)
        /\ new \in CatalogType /\ new.source = file.cat.source
        /\ new.entry = file.cat.entry \cup {row}
        /\ file.cat.fts \subseteq new.fts /\ new.fts \subseteq file.cat.fts \cup {id}
  BY <1>1, <1>6
<1>9. file' \in FileType /\ file'.cat = new /\ file'.index = file.index
  BY <1>8, FileTyped, Committed DEF WriterInv
<1>10. RowidsDiffer(file.cat) /\ OnlyEntriesIndexed(file.cat)
  BY DEF WriterInv
<1>11. /\ RowidsDiffer(new) /\ OnlyEntriesIndexed(new)
       /\ IndexFits(file.cat) /\ (id \in new.fts \/ UnindexedByScan(new, row))
          => IndexFits(new)
  <2>1. /\ file.cat \in CatalogType /\ row.id \notin IdsOf(file.cat.entry)
        /\ new.entry = file.cat.entry \cup {row} /\ new.source = file.cat.source
        /\ file.cat.fts \subseteq new.fts /\ new.fts \subseteq file.cat.fts \cup {row.id}
    BY <1>5, <1>7, <1>8
  <2>2. QED
    BY <1>7, <1>10, <2>1, InsertionFits
<1>12. Walk[writer.place] \in Seq(Items)
  BY <1>3, ServerAssumption
<1>13. /\ Append(writer.ids, id) \in Seq(Rowid)
       /\ Len(Append(writer.ids, id)) = at
  BY <1>3, <1>5
<1>14. /\ AfterEntries(at) \in {"walk", "switch"}
       /\ AfterEntries(at) = "walk" => at < Len(Walk[writer.place])
  BY <1>3, <1>12 DEF AfterEntries
<1>15. /\ writer' \in WriterType /\ writer'.sid = writer.sid
       /\ writer'.pc = AfterEntries(at) /\ writer'.place = writer.place
       /\ writer'.ids = Append(writer.ids, id)
  BY <1>1, <1>3, <1>13, <1>14 DEF WriterType, WriterPoints
<1> HIDE DEF at
<1>16. WriterOK'
  BY <1>3, <1>13, <1>14, <1>15 DEF WriterOK
<1>17. WriterInv'
  BY <1>2, <1>9, <1>11, <1>15, <1>16 DEF WriterInv
<1>18. SourceOK => id \in new.fts \/ UnindexedByScan(new, row)
  BY <1>2, <1>7, <1>8 DEF SourceOK, UnindexedByScan
<1>19. SourceOK => SourceOK'
  BY <1>2, <1>8, <1>9, <1>15 DEF SourceOK
<1>20. IndexInv => IndexInv'
  BY <1>2, <1>9, <1>11, <1>14, <1>15, <1>18, <1>19 DEF IndexInv, EntriesCanBeFound
<1>21. QED
  BY <1>17, <1>20

LEMMA SwitchKeepsRows ==
  ASSUME WriterInv, Switch
  PROVE  WriterInv' /\ (IndexInv => IndexInv')
<1> DEFINE new == FinishScan(RemoveSources(file.cat, Completely(writer.old)),
                             writer.scid, "Completed")
<1>1. Commit(new, file.index) /\ writer' = Idle /\ writer.pc = "switch" /\ UNCHANGED commands
  BY DEF Switch
<1>2. new \in CatalogType /\ Without(file.cat, writer.old, new)
  BY FileTyped, SwitchedCatalog
<1> HIDE DEF new
<1>3. file' \in FileType /\ file'.cat = new /\ file'.index = file.index
  BY <1>1, <1>2, FileTyped, Committed DEF WriterInv
<1>4. /\ RowidsDiffer(new) /\ OnlyEntriesIndexed(new)
      /\ IndexFits(file.cat) => IndexFits(new)
  BY <1>2, FileTyped, RemovalFits DEF WriterInv
<1>5. writer' \in WriterType /\ writer'.pc = "none" /\ writer'.ids = << >>
  BY <1>1, IdleTyped DEF WriterInv, WriterType
<1>6. WriterInv'
  BY <1>1, <1>3, <1>4, <1>5 DEF WriterInv, WriterOK
<1>7. IndexInv => IndexInv'
  BY <1>1, <1>3, <1>4, <1>5 DEF IndexInv, EntriesCanBeFound, SourceOK
<1>8. QED
  BY <1>6, <1>7

(* A command killed after it dropped the index leaves it dropped.          *)
LEMMA KillKeeps ==
  ASSUME WriterInv, Kill
  PROVE  /\ WriterInv'
         /\ IndexInv /\ "rebuild" \notin Killable => IndexInv'
<1>1. writer' = Idle /\ UNCHANGED <<file, commands>> /\ writer.pc \in Killable
  BY DEF Kill
<1>2. writer' \in WriterType /\ writer'.pc = "none" /\ writer'.ids = << >>
  BY <1>1, IdleTyped DEF WriterInv, WriterType
<1>3. commands' \in 0 .. MaxCommands
  BY <1>1 DEF WriterInv
<1>4. QED
  BY <1>1, <1>2, <1>3, FileKept

LEMMA WriterStepKeeps ==
  ASSUME WriterInv, StartCommand \/ Upgrade \/ Scan \/ Kill
  PROVE  /\ WriterInv'
         /\ IndexInv /\ "rebuild" \notin Killable => IndexInv'
         /\ UNCHANGED <<snap, conn>>
<1>1. UNCHANGED <<snap, conn>>
  BY DEF StartCommand, Upgrade, Detect, DropIndex, CreateIndex, RebuildIndex, Scan,
         RecoverLeftovers, NewSource, NewScan, WriteBatch, Switch, Kill
<1>2. CASE StartCommand
  BY <1>1, <1>2, StartCommandKeeps
<1>3. CASE Upgrade
  BY <1>1, <1>3, DetectKeeps, DropIndexKeeps, CreateIndexKeeps, RebuildIndexKeeps DEF Upgrade
<1>4. CASE Scan
  BY <1>1, <1>4, RecoverLeftoversKeeps, NewSourceKeeps, NewScanKeeps, WriteBatchKeeps,
     SwitchKeepsRows DEF Scan
<1>5. CASE Kill
  BY <1>1, <1>5, KillKeeps
<1>6. QED
  BY <1>2, <1>3, <1>4, <1>5

-----------------------------------------------------------------------------
(* The connections                                                         *)

(* A step of a thread that is not in a search, before and after.           *)
LEMMA QuietStep ==
  ASSUME ServerInv, NEW h \in Handlers, NEW c \in ConnType, c.from = << >>,
         NothingFound(c), conn[h].from = << >>, Update(h, c), AtServer, UNCHANGED snap
  PROVE  ServerInv'
<1>1. conn' \in [Handlers -> ConnType]
  BY DEF ServerInv, Update
<1>2. \A g \in Handlers : conn'[g] = IF g = h THEN c ELSE conn[g]
  BY DEF ServerInv, Update
<1>3. Searching' = Searching
  BY <1>2 DEF Searching
<1>4. \A g \in Searching : conn'[g] = conn[g]
  BY <1>2 DEF Searching
<1>5. WriterInv'
  BY DEF ServerInv, AtServer, WriterInv, WriterOK
<1>6. \A g \in Searching' : SearchOK(g)'
  BY <1>3, <1>4 DEF ServerInv, SearchOK
<1>7. SearchIsOneSnapshot'
  BY <1>3, <1>4 DEF ServerInv, SearchIsOneSnapshot
<1>8. StaleOnlyUnderSearch'
  BY <1>3, <1>4 DEF ServerInv, StaleOnlyUnderSearch
<1>9. \A g \in Handlers : NothingFound(conn[g])'
  BY <1>2 DEF ServerInv, NothingFound
<1>10. QED
  BY <1>1, <1>5, <1>6, <1>7, <1>8, <1>9 DEF ServerInv

(* The end of a request, also of one that was searching.                   *)
LEMMA SearchEnds ==
  ASSUME ServerInv, NEW h \in Handlers, NEW c \in ConnType, c.from = << >>,
         NothingFound(c), Update(h, c), AtServer, snap' = HeldWithout(h)
  PROVE  ServerInv'
<1>1. conn' \in [Handlers -> ConnType]
  BY DEF ServerInv, Update
<1>2. \A g \in Handlers : conn'[g] = IF g = h THEN c ELSE conn[g]
  BY DEF ServerInv, Update
<1>3. Searching' = Searching \ {h}
  BY <1>2 DEF Searching
<1>4. \A g \in Searching' : g \in Searching /\ conn'[g] = conn[g]
  BY <1>2, <1>3 DEF Searching
<1>5. /\ Searching' # {} => snap' = snap
      /\ Searching' = {} => snap' = << >>
  BY <1>3 DEF HeldWithout
<1>6. WriterInv'
  BY DEF ServerInv, AtServer, WriterInv, WriterOK
<1>7. \A g \in Searching' : SearchOK(g)'
  BY <1>4, <1>5 DEF ServerInv, SearchOK
<1>8. SearchIsOneSnapshot'
  BY <1>4 DEF ServerInv, SearchIsOneSnapshot
<1>9. StaleOnlyUnderSearch'
  <2>1. CASE Searching' = {}
    BY <1>5, <2>1 DEF StaleOnlyUnderSearch
  <2>2. CASE Searching' # {}
    <3>1. PICK g \in Searching' : TRUE
      BY <2>2
    <3>2. conn'[g].from = snap'
      BY <1>7 DEF SearchOK
    <3>3. QED
      BY <3>2 DEF StaleOnlyUnderSearch
  <2>3. QED
    BY <2>1, <2>2
<1>10. snap' \in FileType \cup {<< >>}
  BY DEF ServerInv, HeldWithout
<1>11. \A g \in Handlers : NothingFound(conn[g])'
  BY <1>2 DEF ServerInv, NothingFound
<1>12. QED
  BY <1>1, <1>6, <1>7, <1>8, <1>9, <1>10, <1>11 DEF ServerInv

LEMMA ConnTyped ==
  ASSUME ServerInv, NEW h \in Handlers
  PROVE  conn[h] \in ConnType
BY DEF ServerInv

LEMMA NotSearching ==
  ASSUME ServerInv, NEW h \in Handlers,
         conn[h].pc # "next" \/ conn[h].req.api # "search"
  PROVE  conn[h].from = << >>
BY DEF ServerInv, Searching, SearchOK

(* What the connection sees is a state of the file.                        *)
LEMMA ViewTyped ==
  ASSUME ServerInv
  PROVE  /\ View \in FileType
         /\ View.cat \in CatalogType /\ View.removals \in Nat
         /\ OnlyEntriesIndexed(View.cat)
<1>1. View \in FileType
  BY DEF View, ServerInv, WriterInv
<1>2. OnlyEntriesIndexed(View.cat)
  <2>1. CASE snap = << >>
    BY <2>1 DEF View, ServerInv, WriterInv
  <2>2. CASE snap # << >>
    BY <2>2 DEF View, ServerInv, StaleOnlyUnderSearch, SearchOK
  <2>3. QED
    BY <2>1, <2>2
<1>3. QED
  BY <1>1, <1>2 DEF FileType

LEMMA RowTyped ==
  ASSUME ServerInv, NEW id
  PROVE  /\ RowOf(id) \subseteq EntryRow
         /\ RowOf(id) \subseteq View.cat.entry
         /\ IdsOf(RowOf(id)) \subseteq Nat
<1>1. View.cat.entry \subseteq EntryRow
  BY ViewTyped DEF CatalogType, EntryRow
<1>2. RowOf(id) \subseteq View.cat.entry
  BY DEF RowOf
<1>3. QED
  BY <1>1, <1>2 DEF EntryRow, IdsOf, Rowid

(* A connection that may come about outside a search.                      *)
Quiet(c) == c \in ConnType /\ c.from = << >> /\ NothingFound(c)

LEMMA ClosedTyped ==
  /\ Quiet(Closed)
  /\ Quiet([Closed EXCEPT !.pc = "reading"])
  /\ Quiet([Closed EXCEPT !.pc = "silent"])
  /\ Quiet(Ready)
<1>1. << >> \in Seq(Items) /\ 0 \in Nat /\ 0 \in 0 .. MaxHeader
  BY ServerAssumption
<1>2. Closed \in ConnType /\ Closed.from = << >> /\ Closed.rows = {}
  BY <1>1 DEF Closed, ConnType, Apis
<1>3. \A pc \in {"reading", "silent", "replying"} :
        LET c == [Closed EXCEPT !.pc = pc] IN
        c \in ConnType /\ c.from = << >> /\ c.rows = {}
  BY <1>2 DEF ConnType
<1>4. QED
  BY <1>2, <1>3 DEF Quiet, NothingFound, Ready

LEMMA AnsweredTyped ==
  ASSUME NEW c \in ConnType, c.from = << >>
  PROVE  Quiet(Answered(c))
<1>1. CASE c.todo = {}
  BY <1>1, ClosedTyped DEF Answered
<1>2. CASE c.todo # {}
  BY <1>2 DEF Answered, ConnType, Quiet, NothingFound
<1>3. QED
  BY <1>1, <1>2

LEMMA ReadingKeeps ==
  ASSUME ServerInv, NEW h \in Handlers,
         Accept(h) \/ Await(h) \/ HangUp(h) \/ GiveUp(h) \/ Reply(h)
  PROVE  ServerInv'
<1>1. conn[h] \in ConnType
  BY ConnTyped
<1>2. conn[h].from = << >> /\ AtServer /\ UNCHANGED snap
  <2>1. conn[h].pc # "next"
    BY DEF Accept, Await, Receive, TakeRequest, FallSilent, HangUp, GiveUp, WaitsTenSeconds, Reply
  <2>2. QED
    BY <2>1, NotSearching
    DEF Accept, Await, Receive, TakeRequest, FallSilent, HangUp, GiveUp, Reply
<1>3. SUFFICES \E c : Quiet(c) /\ Update(h, c)
  BY <1>2, QuietStep DEF Quiet
<1>4. conn[h].pc = "reading" => conn[h].rows = {}
  BY DEF ServerInv, NothingFound
<1>5. CASE Accept(h) \/ FallSilent(h) \/ HangUp(h) \/ GiveUp(h) \/ Reply(h)
  BY <1>5, ClosedTyped DEF Accept, FallSilent, HangUp, GiveUp, Reply
<1>6. CASE Receive(h)
  <2>1. CASE TooLong(conn[h])
    BY <1>6, <2>1, ClosedTyped DEF Receive
  <2>2. CASE ~TooLong(conn[h])
    <3>1. conn[h].got + 1 \in 0 .. MaxHeader
      BY <1>1, <2>2, ServerAssumption DEF ConnType, TooLong
    <3>2. [conn[h] EXCEPT !.got = @ + 1] \in ConnType
      BY <1>1, <3>1 DEF ConnType
    <3>3. conn[h].pc = "reading"
      BY <1>6 DEF Receive
    <3>4. Quiet([conn[h] EXCEPT !.got = @ + 1])
      BY <1>1, <1>2, <1>4, <3>2, <3>3 DEF ConnType, Quiet, NothingFound
    <3>5. QED
      BY <1>6, <2>2, <3>4 DEF Receive
  <2>3. QED
    BY <2>1, <2>2
<1>7. CASE TakeRequest(h)
  <2>1. CASE Update(h, Closed) \/ Update(h, Ready)
    BY <2>1, ClosedTyped
  <2>2. ASSUME NEW req \in Requests[h],
               Update(h, [Closed EXCEPT !.pc = "working", !.req = req])
        PROVE  \E c : Quiet(c) /\ Update(h, c)
    <3>1. req \in [api : Apis, id : Nat, source : Nat]
      BY ServerAssumption
    <3>2. Closed \in ConnType /\ Closed.from = << >> /\ Closed.rows = {}
      BY ClosedTyped DEF Quiet, Closed
    <3>3. Quiet([Closed EXCEPT !.pc = "working", !.req = req])
      BY <3>1, <3>2 DEF ConnType, Quiet, NothingFound
    <3>4. QED
      BY <2>2, <3>3
  <2>3. QED
    BY <1>7, <2>1, <2>2 DEF TakeRequest
<1>8. QED
  BY <1>5, <1>6, <1>7 DEF Await

LEMMA AnsweringKeeps ==
  ASSUME ServerInv, NEW h \in Handlers, NEW c \in ConnType, c.from = conn[h].from,
         conn[h].pc # "next" \/ conn[h].req.api # "search",
         Update(h, Answered(c)), AtServer, UNCHANGED snap
  PROVE  ServerInv'
BY NotSearching, AnsweredTyped, QuietStep DEF Quiet

LEMMA LeftTyped ==
  ASSUME ServerInv, NEW req, req.api \in {"stats", "sources", "tree"}
  PROVE  Left(req) \subseteq Nat
<1>1. View.cat \in CatalogType
  BY ViewTyped
<1>2. /\ IdsOf(View.cat.source) \subseteq Nat
      /\ IdsOf({e \in View.cat.entry :
                   e.parent = req.id /\ (req.id = NoId => e.source = req.source)}) \subseteq Nat
  BY <1>1 DEF CatalogType, IdsOf, Rowid
<1>3. QED
  BY <1>2 DEF Left

LEMMA LookingUpKeeps ==
  ASSUME ServerInv, NEW h \in Handlers,
         ServePage(h) \/ List(h) \/ CountNext(h) \/ FindEntry(h)
  PROVE  ServerInv'
<1> DEFINE old == conn[h]
<1>1. old \in ConnType
  BY ConnTyped
<1>2. /\ AtServer /\ UNCHANGED snap
      /\ old.pc # "next" \/ old.req.api # "search"
  BY DEF ServePage, List, CountNext, FindEntry, Asked, Follows
<1>3. SUFFICES \E c \in ConnType : c.from = old.from /\ Update(h, Answered(c))
  BY <1>2, AnsweringKeeps
<1>4. CASE ServePage(h)
  BY <1>1, <1>4 DEF ServePage
<1>5. CASE List(h)
  <2> DEFINE c == [old EXCEPT !.todo = Left(old.req)]
  <2>1. old.req.api \in {"stats", "sources", "tree"}
    BY <1>5 DEF List, Asked
  <2>2. c \in ConnType /\ c.from = old.from
    BY <1>1, <2>1, LeftTyped DEF ConnType
  <2>3. QED
    BY <1>5, <2>2 DEF List
<1>6. CASE CountNext(h)
  <2>1. PICK i \in Least(old.todo) : Update(h, Answered([old EXCEPT !.todo = @ \ {i}]))
    BY <1>6 DEF CountNext
  <2> DEFINE c == [old EXCEPT !.todo = @ \ {i}]
  <2>2. c \in ConnType /\ c.from = old.from
    BY <1>1 DEF ConnType
  <2>3. QED
    BY <2>1, <2>2
<1>7. CASE FindEntry(h)
  <2> DEFINE id == old.req.id
             c == [old EXCEPT !.first = View.removals, !.rows = RowOf(id),
                              !.todo = IdsOf(RowOf(id))]
  <2>1. RowOf(id) \subseteq EntryRow /\ IdsOf(RowOf(id)) \subseteq Nat /\ View.removals \in Nat
    BY RowTyped, ViewTyped
  <2>2. c \in ConnType /\ c.from = old.from
    BY <1>1, <2>1 DEF ConnType, EntryRow
  <2>3. QED
    BY <1>7, <2>2 DEF FindEntry
<1>8. QED
  BY <1>4, <1>5, <1>6, <1>7

(* The climb, and what follows it.                                         *)
LEMMA ClimbingKeeps ==
  ASSUME ServerInv, NEW h \in Handlers, ClimbPath(h) \/ ReadDetail(h)
  PROVE  ServerInv'
<1> DEFINE old == conn[h]
<1>1. old \in ConnType
  BY ConnTyped
<1>2. AtServer /\ UNCHANGED snap /\ old.from = << >> /\ old.pc \in {"next", "details"}
  BY NotSearching DEF ClimbPath, ReadDetail, Follows
<1>3. SUFFICES \E c \in ConnType : c.from = << >> /\ NothingFound(c) /\ Update(h, c)
  BY <1>2, QuietStep
<1>4. CASE ClimbPath(h)
  <2>1. PICK id \in old.todo :
          Update(h, OnPath(IF RowOf(id) = {} THEN [old EXCEPT !.todo = {}]
                           ELSE Climbed(old, CHOOSE row \in RowOf(id) : TRUE)))
    BY <1>4 DEF ClimbPath
  <2>2. PICK c \in ConnType : c.from = << >> /\ c.pc = "next" /\ Update(h, OnPath(c))
    <3>1. old.pc = "next"
      BY <1>4 DEF ClimbPath, Follows
    <3>2. CASE RowOf(id) = {}
      <4>1. /\ [old EXCEPT !.todo = {}] \in ConnType /\ [old EXCEPT !.todo = {}].from = << >>
            /\ [old EXCEPT !.todo = {}].pc = "next"
        BY <1>1, <1>2, <3>1 DEF ConnType
      <4>2. QED
        BY <2>1, <3>2, <4>1
    <3>3. CASE RowOf(id) # {}
      <4> DEFINE row == CHOOSE r \in RowOf(id) : TRUE
      <4>1. row \in EntryRow
        BY <3>3, RowTyped
      <4> HIDE DEF row
      <4>2. <<row.item>> \o old.path \in Seq(Items) /\ {row.parent} \ {NoId} \subseteq Nat
        BY <1>1, <4>1 DEF EntryRow, ConnType
      <4>3. Climbed(old, row) \in ConnType /\ Climbed(old, row).from = << >>
            /\ Climbed(old, row).pc = "next"
        BY <1>1, <1>2, <3>1, <4>2 DEF Climbed, ConnType
      <4>4. QED
        BY <2>1, <3>3, <4>3 DEF row
    <3>4. QED
      BY <3>2, <3>3
  <2>3. OnPath(c) \in ConnType /\ OnPath(c).from = << >> /\ OnPath(c).pc \in {"next", "details"}
    <3>1. Details \subseteq Nat
      BY DEF Details
    <3>2. QED
      BY <2>2, <3>1 DEF OnPath, ConnType
  <2>4. QED
    BY <2>2, <2>3 DEF NothingFound
<1>5. CASE ReadDetail(h)
  <2>1. old.pc = "details"
    BY <1>5 DEF ReadDetail
  <2>2. PICK i \in Least(old.todo) :
          Update(h, [old EXCEPT !.todo = @ \ {i},
                                !.pc = IF old.todo = {i} THEN "replying" ELSE @])
    BY <1>5 DEF ReadDetail
  <2> DEFINE c == [old EXCEPT !.todo = @ \ {i},
                              !.pc = IF old.todo = {i} THEN "replying" ELSE @]
  <2>3. c \in ConnType /\ c.from = << >> /\ c.pc \in {"details", "replying"}
    BY <1>1, <1>2, <2>1 DEF ConnType
  <2>4. QED
    BY <2>2, <2>3 DEF NothingFound
<1>6. QED
  BY <1>4, <1>5

LEMMA FinishingKeeps ==
  ASSUME ServerInv, NEW h \in Handlers, Throw(h) \/ EndSearch(h)
  PROVE  ServerInv'
BY ClosedTyped, SearchEnds DEF Throw, EndSearch, Quiet

(* The first result: the search is held at what the connection sees.       *)
LEMMA SearchKeeps ==
  ASSUME ServerInv, NEW h \in Handlers, Search(h)
  PROVE  ServerInv'
<1> DEFINE old == conn[h]
<1>1. old \in ConnType
  BY ConnTyped
<1>2. old.pc = "working" /\ old.req.api = "search" /\ old.from = << >>
  BY NotSearching DEF Search, Asked
<1>3. CASE View.index = "none"
  BY <1>1, <1>2, <1>3, AnsweringKeeps DEF Search
<1>4. CASE View.index # "none"
  <2> DEFINE c == [old EXCEPT !.pc = "next", !.from = View, !.todo = View.cat.fts]
  <2>1. Update(h, c) /\ snap' = View /\ AtServer
    BY <1>4 DEF Search
  <2>2. View \in FileType /\ View.cat.fts \subseteq Nat /\ OnlyEntriesIndexed(View.cat)
    BY ViewTyped DEF CatalogType, Rowid
  <2>3. /\ c \in ConnType /\ c.pc = "next" /\ c.req = old.req /\ c.from = View
        /\ c.rows = old.rows /\ c.todo = View.cat.fts
    BY <1>1, <2>2 DEF ConnType
  <2>4. old.rows = {}
    BY <1>2 DEF ServerInv, NothingFound
  <2> HIDE DEF c
  <2>5. conn' \in [Handlers -> ConnType]
    BY <2>1, <2>3 DEF ServerInv, Update
  <2>6. \A g \in Handlers : conn'[g] = IF g = h THEN c ELSE conn[g]
    BY <2>1 DEF ServerInv, Update
  <2>7. Searching' \subseteq Searching \cup {h}
    BY <2>6 DEF Searching
  <2>8. \A g \in Searching : conn[g].from = snap /\ snap' = snap
    BY <2>1 DEF ServerInv, SearchOK, View, Searching
  <2>9. \A g \in Searching' : SearchOK(g)'
    <3> SUFFICES ASSUME NEW g \in Searching' PROVE SearchOK(g)'
      OBVIOUS
    <3>1. CASE g = h
      BY <1>2, <2>1, <2>2, <2>3, <2>6, <3>1 DEF SearchOK
    <3>2. CASE g # h
      BY <2>6, <2>7, <2>8, <3>2 DEF ServerInv, SearchOK, Searching
    <3>3. QED
      BY <3>1, <3>2
  <2>10. SearchIsOneSnapshot'
    <3> SUFFICES ASSUME NEW g \in Searching'
                 PROVE  /\ conn'[g].rows \subseteq conn'[g].from.cat.entry
                        /\ IdsOf(conn'[g].rows) \cup conn'[g].todo = conn'[g].from.cat.fts
      BY DEF SearchIsOneSnapshot
    <3>1. CASE g = h
      BY <2>3, <2>4, <2>6, <3>1 DEF IdsOf
    <3>2. CASE g # h
      BY <2>6, <2>7, <3>2 DEF ServerInv, SearchIsOneSnapshot, Searching
    <3>3. QED
      BY <3>1, <3>2
  <2>11. StaleOnlyUnderSearch'
    BY <2>1, <2>3, <2>6 DEF StaleOnlyUnderSearch, Searching
  <2>12. snap' \in FileType \cup {<< >>} /\ WriterInv'
    BY <2>1, <2>2 DEF ServerInv, AtServer, WriterInv, WriterOK
  <2>13. \A g \in Handlers : NothingFound(conn[g])'
    BY <2>3, <2>6 DEF ServerInv, NothingFound
  <2>14. QED
    BY <2>5, <2>9, <2>10, <2>11, <2>12, <2>13 DEF ServerInv
<1>5. QED
  BY <1>3, <1>4

(* A result is a row of the state the search is held at: no entry its      *)
(* index names is missing there.                                           *)
LEMMA NextResultKeeps ==
  ASSUME ServerInv, NEW h \in Handlers, NextResult(h)
  PROVE  ServerInv'
<1> DEFINE old == conn[h]
<1>1. old \in ConnType /\ old.pc = "next" /\ old.req.api = "search"
  BY ConnTyped DEF NextResult, Follows
<1>2. PICK id \in Least(old.todo) :
        Update(h, [old EXCEPT !.todo = @ \ {id}, !.rows = @ \cup RowOf(id)])
  BY DEF NextResult
<1>3. id \in old.todo /\ AtServer /\ UNCHANGED snap
  BY <1>2 DEF NextResult, Least
<1> DEFINE c == [old EXCEPT !.todo = @ \ {id}, !.rows = @ \cup RowOf(id)]
<1>4. RowOf(id) \subseteq EntryRow /\ RowOf(id) \subseteq View.cat.entry
  BY RowTyped
<1>5. /\ c \in ConnType /\ c.pc = "next" /\ c.req = old.req /\ c.from = old.from
      /\ c.rows = old.rows \cup RowOf(id) /\ c.todo = old.todo \ {id}
  BY <1>1, <1>4 DEF ConnType, EntryRow
<1>6. Update(h, c)
  BY <1>2
<1> HIDE DEF c
<1>7. conn' \in [Handlers -> ConnType]
  BY <1>5, <1>6 DEF ServerInv, Update
<1>8. \A g \in Handlers : conn'[g] = IF g = h THEN c ELSE conn[g]
  BY <1>6 DEF ServerInv, Update
<1>9. Searching' = Searching
  BY <1>5, <1>8 DEF Searching
<1>10. \A g \in Searching' : SearchOK(g)'
  BY <1>1, <1>3, <1>5, <1>8, <1>9 DEF ServerInv, SearchOK, Searching
<1>11. SearchIsOneSnapshot'
  <2> SUFFICES ASSUME NEW g \in Searching
               PROVE  /\ conn'[g].rows \subseteq conn'[g].from.cat.entry
                      /\ IdsOf(conn'[g].rows) \cup conn'[g].todo = conn'[g].from.cat.fts
    BY <1>9 DEF SearchIsOneSnapshot
  <2>1. CASE g # h
    BY <1>8, <2>1 DEF ServerInv, SearchIsOneSnapshot, Searching
  <2>2. CASE g = h
    <3>1. /\ old.from = snap /\ snap # << >> /\ OnlyEntriesIndexed(old.from.cat)
          /\ old.rows \subseteq old.from.cat.entry
          /\ IdsOf(old.rows) \cup old.todo = old.from.cat.fts
      BY <2>2 DEF ServerInv, SearchOK, SearchIsOneSnapshot, Searching
    <3>2. View = old.from
      BY <3>1 DEF View
    <3>3. \E e \in RowOf(id) : e.id = id
      BY <1>3, <3>1, <3>2 DEF OnlyEntriesIndexed, IdsOf, RowOf
    <3>4. \A e \in RowOf(id) : e.id = id
      BY DEF RowOf
    <3>5. IdsOf(c.rows) = IdsOf(old.rows) \cup {id}
      BY <1>5, <3>3, <3>4 DEF IdsOf
    <3>6. conn'[g] = c
      BY <1>8, <2>2
    <3>7. QED
      BY <1>3, <1>4, <1>5, <3>1, <3>2, <3>5, <3>6
  <2>3. QED
    BY <2>1, <2>2
<1>12. StaleOnlyUnderSearch'
  BY <1>3, <1>5, <1>8, <1>9 DEF ServerInv, StaleOnlyUnderSearch, Searching
<1>13. WriterInv' /\ snap' \in FileType \cup {<< >>}
  BY <1>3 DEF ServerInv, AtServer, WriterInv, WriterOK
<1>14. \A g \in Handlers : NothingFound(conn[g])'
  BY <1>5, <1>8 DEF ServerInv, NothingFound
<1>15. QED
  BY <1>7, <1>10, <1>11, <1>12, <1>13, <1>14 DEF ServerInv

LEMMA ServerStepKeeps ==
  ASSUME ServerInv, NEW h \in Handlers,
         Accept(h) \/ Await(h) \/ HangUp(h) \/ GiveUp(h) \/ Work(h)
  PROVE  ServerInv'
BY ReadingKeeps, LookingUpKeeps, ClimbingKeeps, FinishingKeeps, SearchKeeps, NextResultKeeps
   DEF Work, Respond

LEMMA ServerStepQuiet ==
  ASSUME NEW h \in Handlers,
         Accept(h) \/ Await(h) \/ HangUp(h) \/ GiveUp(h) \/ Work(h)
  PROVE  AtServer
BY DEF Accept, Await, Receive, TakeRequest, FallSilent, HangUp, GiveUp, Work, Respond,
       ServePage, List, CountNext, FindEntry, ClimbPath, ReadDetail, Search, NextResult,
       EndSearch, Throw, Reply

-----------------------------------------------------------------------------
(* The theorems                                                            *)

LEMMA WholeTreeTyped ==
  ASSUME NEW place \in Places, NEW indexed \in Indexings(place, Walk[place])
  PROVE  LET cat == WholeTree(place, indexed) IN
         cat \in CatalogType /\ RowidsDiffer(cat) /\ IndexFits(cat)
<1> DEFINE walk == Walk[place]
           cat == WholeTree(place, indexed)
           ids == [i \in 1 .. Len(walk) |-> i]
           row(i) == [id |-> i, source |-> 1, parent |-> FolderId(ids, walk[i]), item |-> walk[i]]
<1>1. walk \in Seq(Items) /\ Len(walk) \in Nat /\ DOMAIN ids = 1 .. Len(walk)
  BY ServerAssumption
<1>2. ASSUME NEW i \in 1 .. Len(walk)
      PROVE  i \in Rowid /\ walk[i] \in Items /\ FolderId(ids, walk[i]) \in Nat
  <2>1. walk[i] \in Items /\ i \in Rowid
    BY <1>1, <1>2 DEF Rowid
  <2>2. Up[walk[i]] \in Nat /\ Up[walk[i]] < i
    BY <1>1, <2>1, ServerAssumption
  <2>3. Up[walk[i]] # 0 => ids[Up[walk[i]]] = Up[walk[i]]
    BY <1>1, <2>2
  <2>4. QED
    BY <2>1, <2>2, <2>3 DEF FolderId, NoId
<1>3. cat.entry = {row(i) : i \in 1 .. Len(walk)}
  BY <1>1 DEF WholeTree
<1>4. /\ cat.fts = indexed /\ indexed \subseteq 1 .. Len(walk)
      /\ \A i \in 1 .. Len(walk) : i \notin indexed => MayLackRow(place, walk[i])
  BY <1>1 DEF WholeTree, Indexings
<1>5. \A i \in 1 .. Len(walk) : row(i) \in EntryRow
  BY <1>2 DEF EntryRow, Rowid
<1>6. /\ cat.source \subseteq [id : Rowid, path : Paths]
      /\ cat.scan \subseteq [id : Rowid, source : Rowid, status : Statuses]
      /\ \E s \in cat.source : s.id = 1 /\ s.path.place = place
  <2>1. /\ cat.source = {[id |-> 1, path |-> [place |-> place, sep |-> FALSE]]}
        /\ cat.scan = {[id |-> 1, source |-> 1, status |-> "Completed"]}
    BY DEF WholeTree
  <2> HIDE DEF cat
  <2>2. QED
    BY <2>1 DEF Paths, Statuses, Rowid
<1>7. cat.entry \subseteq EntryRow /\ cat.fts \subseteq Rowid
  BY <1>2, <1>3, <1>4, <1>5
<1>8. cat \in CatalogType
  <2>1. cat = [source |-> cat.source, scan |-> cat.scan,
               entry |-> cat.entry, fts |-> cat.fts, side |-> {}]
    BY DEF WholeTree
  <2> HIDE DEF cat
  <2>2. QED
    BY <1>6, <1>7, <2>1 DEF CatalogType, EntryRow
<1>9. \A i \in 1 .. Len(walk) : row(i).id = i /\ row(i).source = 1 /\ row(i).item = walk[i]
  OBVIOUS
<1> HIDE DEF row, cat
<1>10. RowidsDiffer(cat)
  BY <1>3, <1>9 DEF RowidsDiffer
<1>11. IdsOf(cat.entry) = 1 .. Len(walk)
  BY <1>3, <1>9 DEF IdsOf
<1>12. \A e \in cat.entry : e.id \in cat.fts \/ UnindexedByScan(cat, e)
  BY <1>3, <1>4, <1>6, <1>9 DEF UnindexedByScan
<1>13. IndexFits(cat)
  BY <1>4, <1>11, <1>12 DEF IndexFits, OnlyEntriesIndexed
<1>14. QED
  BY <1>8, <1>10, <1>13 DEF cat

LEMMA InitEstablishes == Init => ServerInv /\ IndexInv
<1> SUFFICES ASSUME Init PROVE ServerInv /\ IndexInv
  OBVIOUS
<1>1. PICK old \in Before : \E indexed \in Indexings(old.place, Walk[old.place]) :
        file = [cat |-> WholeTree(old.place, indexed), index |-> old.index, removals |-> 0]
  BY DEF Init
<1>13. PICK indexed \in Indexings(old.place, Walk[old.place]) :
        file = [cat |-> WholeTree(old.place, indexed), index |-> old.index, removals |-> 0]
  BY <1>1
<1>2. old.place \in Places /\ old.index \in {"contentless", "regular"}
  BY ServerAssumption
<1> DEFINE cat == WholeTree(old.place, indexed)
<1>3. cat \in CatalogType /\ RowidsDiffer(cat) /\ IndexFits(cat)
  BY <1>2, WholeTreeTyped
<1> HIDE DEF cat
<1>4. file \in FileType /\ file.cat = cat /\ file.index \in {"contentless", "regular"}
  BY <1>13, <1>2, <1>3 DEF FileType, cat
<1>5. writer \in WriterType /\ writer.pc = "none" /\ writer.ids = << >>
  BY <1>2, IdleTyped DEF Init
<1>6. commands \in 0 .. MaxCommands
  BY ServerAssumption DEF Init
<1>7. WriterInv
  BY <1>3, <1>4, <1>5, <1>6 DEF WriterInv, WriterOK, IndexFits
<1>8. /\ snap = << >> /\ conn \in [Handlers -> ConnType]
      /\ \A h \in Handlers : NothingFound(conn[h]) /\ conn[h].from = << >>
  BY ClosedTyped DEF Init, Quiet
<1>9. Searching = {}
  BY <1>8 DEF Searching
<1>10. ServerInv
  BY <1>7, <1>8, <1>9 DEF ServerInv, SearchIsOneSnapshot, StaleOnlyUnderSearch
<1>11. IndexInv
  BY <1>3, <1>4, <1>5 DEF IndexInv, EntriesCanBeFound, SourceOK
<1>12. QED
  BY <1>10, <1>11

LEMMA NextKeeps ==
  ASSUME ServerInv, [Next]_vars
  PROVE  /\ ServerInv'
         /\ IndexInv /\ "rebuild" \notin Killable => IndexInv'
<1>1. CASE UNCHANGED vars
  <2>1. UNCHANGED <<file, writer, commands, snap, conn>>
    BY <1>1 DEF vars
  <2>2. ServerInv'
    BY <2>1 DEF ServerInv, WriterInv, WriterOK, SearchOK, SearchIsOneSnapshot,
                StaleOnlyUnderSearch, Searching
  <2>3. IndexInv => IndexInv'
    BY <2>1 DEF IndexInv, EntriesCanBeFound, SourceOK
  <2>4. QED
    BY <2>2, <2>3
<1>2. CASE StartCommand \/ Upgrade \/ Scan \/ Kill
  <2>1. /\ WriterInv' /\ UNCHANGED <<snap, conn>>
        /\ IndexInv /\ "rebuild" \notin Killable => IndexInv'
    BY <1>2, WriterStepKeeps DEF ServerInv
  <2>2. ServerInv'
    BY <2>1 DEF ServerInv, SearchOK, SearchIsOneSnapshot, StaleOnlyUnderSearch, Searching
  <2>3. QED
    BY <2>1, <2>2
<1>3. ASSUME NEW h \in Handlers,
             Accept(h) \/ Await(h) \/ HangUp(h) \/ GiveUp(h) \/ Work(h)
      PROVE  ServerInv' /\ (IndexInv => IndexInv')
  <2>1. ServerInv'
    BY <1>3, ServerStepKeeps
  <2>2. AtServer
    BY <1>3, ServerStepQuiet
  <2>3. QED
    BY <2>1, <2>2 DEF AtServer, IndexInv, EntriesCanBeFound, SourceOK
<1>4. QED
  BY <1>1, <1>2, <1>3 DEF Next

(* Every state the server and a writing command reach satisfies ServerInv. *)
THEOREM ServerIsSound == Spec => []ServerInv
<1>1. Init => ServerInv
  BY InitEstablishes
<1>2. ServerInv /\ [Next]_vars => ServerInv'
  BY NextKeeps
<1>3. QED
  BY <1>1, <1>2, PTL DEF Spec

(* Rows, rowids, connections and the writing command keep their types.     *)
THEOREM ServerTypes == Spec => []TypeOK
<1>1. ServerInv => TypeOK
  BY DEF ServerInv, WriterInv, TypeOK
<1>2. QED
  BY <1>1, ServerIsSound, PTL

(* Whatever commands commit and other threads do, a search returns the     *)
(* entries one state of the catalogue has for its query (search.cpp).      *)
THEOREM SearchesSeeOneState == Spec => []SearchIsOneSnapshot
<1>1. ServerInv => SearchIsOneSnapshot
  BY DEF ServerInv
<1>2. QED
  BY <1>1, ServerIsSound, PTL

(* The shared connection is never left at an old state (viewer.cpp).       *)
THEOREM OldStatesAreLetGo == Spec => []StaleOnlyUnderSearch
<1>1. ServerInv => StaleOnlyUnderSearch
  BY DEF ServerInv
<1>2. QED
  BY <1>1, ServerIsSound, PTL

(* If no command is killed while it replaces the index, the index lacks no *)
(* entry but the file of a single-file scan and those whose insert_fts     *)
(* failed, and names no removed entry, between commands and after every    *)
(* batch of a scan, also in a catalogue an older version wrote             *)
(* (database.cpp 165-225, scanner.cpp 577-608 and 645-696).                *)
THEOREM IndexIsComplete ==
  ASSUME "rebuild" \notin Killable
  PROVE  Spec => []EntriesCanBeFound
<1>1. Init => ServerInv /\ IndexInv
  BY InitEstablishes
<1>2. ServerInv /\ IndexInv /\ [Next]_vars => (ServerInv /\ IndexInv)'
  BY NextKeeps
<1>3. ServerInv /\ IndexInv => EntriesCanBeFound
  BY DEF IndexInv
<1>4. QED
  BY <1>1, <1>2, <1>3, PTL DEF Spec

(* Under the same premise a scan starts with an index of the present kind  *)
(* that lacks nothing its scans put into it (database.cpp 165-225).        *)
THEOREM ScansStartIndexed ==
  ASSUME "rebuild" \notin Killable
  PROVE  Spec => []UpgradedIsIndexed
<1>1. Init => ServerInv /\ IndexInv
  BY InitEstablishes
<1>2. ServerInv /\ IndexInv /\ [Next]_vars => (ServerInv /\ IndexInv)'
  BY NextKeeps
<1>3. ServerInv /\ IndexInv => UpgradedIsIndexed
  BY DEF IndexInv, EntriesCanBeFound, UpgradedIsIndexed
<1>4. QED
  BY <1>1, <1>2, <1>3, PTL DEF Spec

-----------------------------------------------------------------------------
(* Paths: the entries of a catalogue are a forest                          *)

Tops(cat) == {e \in cat.entry : e.parent = NoId}
Parents(cat) == [e \in cat.entry |-> ParentOf(cat, e)]
RowidIn(cat) == [e \in cat.entry |-> e.id]

(* A state of the catalogue in which every entry has a path.               *)
Whole(cat) == cat \in CatalogType /\ RowidsDiffer(cat) /\ Rooted(cat)

LEMMA EntryTyped ==
  ASSUME NEW cat, Whole(cat), NEW e \in cat.entry
  PROVE  e.id \in Rowid /\ e.id \in Nat /\ e.source \in Rowid /\ e.parent \in Nat /\ e.item \in Items
BY DEF Whole, CatalogType, Rowid

LEMMA ParentFound ==
  ASSUME NEW cat, Whole(cat), NEW e \in cat.entry, e.parent # NoId
  PROVE  /\ ParentOf(cat, e) \in cat.entry /\ ParentOf(cat, e).id = e.parent
         /\ ParentOf(cat, e).id < e.id
         /\ \A f \in cat.entry : f.id = e.parent => f = ParentOf(cat, e)
<1>1. PICK f \in cat.entry : f.id = e.parent /\ f.id < e.id
  BY DEF Whole, Rooted
<1>2. ParentOf(cat, e) \in cat.entry /\ ParentOf(cat, e).id = e.parent
  BY <1>1 DEF ParentOf
<1>3. \A g \in cat.entry : g.id = e.parent => g = ParentOf(cat, e)
  BY <1>2 DEF Whole, RowidsDiffer
<1>4. QED
  BY <1>1, <1>2, <1>3

LEMMA EntriesAreForest ==
  ASSUME NEW cat, Whole(cat)
  PROVE  IsForest(cat.entry, Tops(cat), Parents(cat), RowidIn(cat))
<1>1. \A e \in cat.entry : RowidIn(cat)[e] = e.id /\ e.id \in Nat
  BY EntryTyped DEF RowidIn
<1>2. \A e \in cat.entry \ Tops(cat) :
        Parents(cat)[e] \in cat.entry /\ Parents(cat)[e].id < e.id
  BY ParentFound DEF Tops, Parents
<1>3. QED
  BY <1>1, <1>2 DEF IsForest

(* PathsIn is what its definition says.                                    *)
PathEq(f, cat) ==
  f = [e \in cat.entry |->
         IF e.parent = NoId THEN <<e.item>> ELSE Append(f[ParentOf(cat, e)], e.item)]

LEMMA PathsDefined ==
  ASSUME NEW cat, Whole(cat)
  PROVE  PathEq(PathsIn(cat), cat)
<1> DEFINE base == [e \in cat.entry |-> <<e.item>>]
           step == [e \in cat.entry |-> [v \in Seq(Items) |-> Append(v, e.item)]]
<1>1. \A e \in cat.entry : base[e] = <<e.item>> /\ base[e] \in Seq(Items)
  BY EntryTyped
<1>2. \A e \in cat.entry : \A v \in Seq(Items) :
        step[e][v] = Append(v, e.item) /\ step[e][v] \in Seq(Items)
  BY EntryTyped
<1>3. Tops(cat) \subseteq cat.entry
  BY DEF Tops
<1> HIDE DEF base, step
<1>4. Gives(cat.entry, Tops(cat), Seq(Items), base, step)
  BY <1>1, <1>2, <1>3 DEF Gives
<1>5. IsForest(cat.entry, Tops(cat), Parents(cat), RowidIn(cat))
  BY EntriesAreForest
<1>6. PICK f \in [cat.entry -> Seq(Items)] :
        Inherits(f, cat.entry, Tops(cat), Parents(cat), base, step)
  BY <1>4, <1>5, ForestRecursion
<1>7. ASSUME NEW e \in cat.entry
      PROVE  f[e] = IF e.parent = NoId THEN <<e.item>> ELSE Append(f[ParentOf(cat, e)], e.item)
  <2>1. f[e] = IF e \in Tops(cat) THEN base[e] ELSE step[e][f[Parents(cat)[e]]]
    BY <1>6 DEF Inherits
  <2>2. CASE e.parent = NoId
    BY <1>1, <2>1, <2>2 DEF Tops
  <2>3. CASE e.parent # NoId
    <3>1. Parents(cat)[e] = ParentOf(cat, e) /\ ParentOf(cat, e) \in cat.entry
      BY <2>3, ParentFound DEF Parents
    <3>2. f[ParentOf(cat, e)] \in Seq(Items)
      BY <3>1
    <3>3. QED
      BY <1>2, <2>1, <2>3, <3>1, <3>2 DEF Tops
  <2>4. QED
    BY <2>2, <2>3
<1>8. PathEq(f, cat)
  BY <1>7 DEF PathEq
<1>9. PathsIn(cat) = CHOOSE g : PathEq(g, cat)
  BY DEF PathsIn, PathEq
<1>10. QED
  BY <1>8, <1>9

LEMMA PathOfEntry ==
  ASSUME NEW cat, Whole(cat), NEW e \in cat.entry
  PROVE  PathIn(cat, e) =
           IF e.parent = NoId THEN <<e.item>>
           ELSE Append(PathIn(cat, ParentOf(cat, e)), e.item)
BY PathsDefined DEF PathEq, PathIn

LEMMA PathTyped ==
  ASSUME NEW cat, Whole(cat)
  PROVE  \A e \in cat.entry : PathIn(cat, e) \in Seq(Items)
<1> DEFINE Good == {e \in cat.entry : PathIn(cat, e) \in Seq(Items)}
<1>1. ASSUME NEW e \in cat.entry, e \in Tops(cat) \/ Parents(cat)[e] \in Good
      PROVE  PathIn(cat, e) \in Seq(Items)
  <2>1. e.item \in Items
    BY EntryTyped
  <2>2. CASE e.parent = NoId
    <3>1. PathIn(cat, e) = <<e.item>>
      BY <2>2, PathOfEntry
    <3>2. <<e.item>> \in Seq(Items)
      BY <2>1
    <3>3. QED
      BY <3>1, <3>2
  <2>3. CASE e.parent # NoId
    <3>1. PathIn(cat, ParentOf(cat, e)) \in Seq(Items)
      BY <1>1, <2>3 DEF Tops, Parents
    <3>2. QED
      BY <2>1, <2>3, <3>1, PathOfEntry
  <2>4. QED
    BY <2>2, <2>3
<1>2. \A e \in cat.entry : e \in Tops(cat) \/ Parents(cat)[e] \in Good => e \in Good
  BY <1>1
<1>3. IsForest(cat.entry, Tops(cat), Parents(cat), RowidIn(cat))
  BY EntriesAreForest
<1> HIDE DEF Good
<1>4. cat.entry \subseteq Good
  BY <1>2, <1>3, ForestInduction
<1>5. QED
  BY <1>4 DEF Good

(* New entries do not change the path of an old one.                       *)
LEMMA PathsStay ==
  ASSUME NEW old, Whole(old), NEW new, Whole(new), old.entry \subseteq new.entry
  PROVE  \A e \in old.entry : PathIn(new, e) = PathIn(old, e)
<1> DEFINE Good == {e \in old.entry : PathIn(new, e) = PathIn(old, e)}
<1>1. ASSUME NEW e \in old.entry, e \in Tops(old) \/ Parents(old)[e] \in Good
      PROVE  PathIn(new, e) = PathIn(old, e)
  <2>1. e \in new.entry
    OBVIOUS
  <2>2. CASE e.parent = NoId
    BY <2>1, <2>2, PathOfEntry
  <2>3. CASE e.parent # NoId
    <3>1. ParentOf(old, e) \in old.entry /\ ParentOf(old, e).id = e.parent
      BY <2>3, ParentFound
    <3>2. ParentOf(new, e) = ParentOf(old, e)
      BY <2>1, <2>3, <3>1, ParentFound
    <3>3. PathIn(new, ParentOf(old, e)) = PathIn(old, ParentOf(old, e))
      BY <1>1, <2>3 DEF Tops, Parents
    <3>4. QED
      BY <2>1, <2>3, <3>2, <3>3, PathOfEntry
  <2>4. QED
    BY <2>2, <2>3
<1>2. \A e \in old.entry : e \in Tops(old) \/ Parents(old)[e] \in Good => e \in Good
  BY <1>1
<1>3. IsForest(old.entry, Tops(old), Parents(old), RowidIn(old))
  BY EntriesAreForest
<1> HIDE DEF Good
<1>4. old.entry \subseteq Good
  BY <1>2, <1>3, ForestInduction
<1>5. QED
  BY <1>4 DEF Good

-----------------------------------------------------------------------------
(* What a commit does to the entries                                       *)

LEMMA CommitGrows ==
  ASSUME file \in FileType, NEW cat \in CatalogType,
         NEW index \in {"contentless", "none", "regular"}, Commit(cat, index)
  PROVE  file'.cat = cat /\ GrewTo(file, file')
<1>1. file' \in FileType /\ file'.cat = cat
  BY Committed
<1>2. file.removals \in Nat
  BY DEF FileType
<1>3. file'.removals = IF file.cat.entry \subseteq cat.entry
                       THEN file.removals ELSE file.removals + 1
  BY DEF Commit
<1>4. QED
  BY <1>1, <1>2, <1>3 DEF GrewTo

(* A step of the command that removes the trees of sources, or none.       *)
Cleared(sources) ==
  /\ file'.cat.entry = {e \in file.cat.entry : e.source \notin sources}
  /\ writer'.ids = << >>
  /\ GrewTo(file, file')

LEMMA NothingCleared ==
  ASSUME ServerInv, writer'.ids = << >>,
         \/ UNCHANGED file
         \/ \E cat \in CatalogType : \E index \in {"contentless", "none", "regular"} :
              cat.entry = file.cat.entry /\ Commit(cat, index)
  PROVE  Cleared({})
<1>1. file \in FileType /\ file.removals \in Nat
  BY DEF ServerInv, WriterInv, FileType
<1>2. CASE UNCHANGED file
  BY <1>1, <1>2 DEF Cleared, GrewTo
<1>3. CASE \E cat \in CatalogType : \E index \in {"contentless", "none", "regular"} :
             cat.entry = file.cat.entry /\ Commit(cat, index)
  BY <1>1, <1>3, CommitGrows DEF Cleared
<1>4. QED
  BY <1>2, <1>3

LEMMA SourcesCleared ==
  ASSUME ServerInv, writer'.ids = << >>, NEW sources,
         NEW cat \in CatalogType, Without(file.cat, sources, cat),
         NEW index \in {"contentless", "none", "regular"}, Commit(cat, index)
  PROVE  Cleared(sources)
<1>1. file'.cat = cat /\ GrewTo(file, file')
  BY CommitGrows DEF ServerInv, WriterInv
<1>2. cat.entry = {e \in file.cat.entry : e.source \notin sources}
  BY DEF Without
<1>3. QED
  BY <1>1, <1>2 DEF Cleared

LEMMA UpgradeClears ==
  ASSUME ServerInv, StartCommand \/ Upgrade \/ Kill
  PROVE  Cleared({})
<1>1. WriterInv /\ writer \in WriterType /\ file.cat \in CatalogType
  BY FileTyped DEF ServerInv, WriterInv
<1>2. Idle.ids = << >>
  BY DEF Idle
<1>3. CASE StartCommand
  <2>1. UNCHANGED file /\ writer'.ids = << >>
    BY <1>2, <1>3 DEF StartCommand, Idle
  <2>2. QED
    BY <2>1, NothingCleared
<1>4. CASE Kill
  BY <1>2, <1>4, NothingCleared DEF Kill
<1>5. ASSUME NEW point, GoTo(point), writer.pc \in {"detect", "drop", "create", "rebuild"}
      PROVE  writer'.ids = << >>
  BY <1>1, <1>5 DEF GoTo, WriterType, WriterInv, WriterOK
<1>6. CASE Detect
  BY <1>5, <1>6, NothingCleared DEF Detect
<1>7. CASE DropIndex
  <2>1. writer'.ids = << >>
    BY <1>5, <1>7 DEF DropIndex
  <2>2. Commit([file.cat EXCEPT !.fts = {}], "none")
    BY <1>7 DEF DropIndex
  <2>3. /\ [file.cat EXCEPT !.fts = {}] \in CatalogType
        /\ [file.cat EXCEPT !.fts = {}].entry = file.cat.entry
    BY <1>1, DroppedCatalog
  <2>4. QED
    BY <2>1, <2>2, <2>3, NothingCleared
<1>8. CASE CreateIndex
  <2>1. writer'.ids = << >>
    BY <1>5, <1>8 DEF CreateIndex
  <2>2. Commit(file.cat, "regular")
    BY <1>8 DEF CreateIndex
  <2>3. QED
    BY <1>1, <2>1, <2>2, NothingCleared
<1>9. CASE RebuildIndex
  <2>1. writer'.ids = << >>
    BY <1>5, <1>9 DEF RebuildIndex
  <2>2. Commit(Rebuilt(file.cat), "regular")
    BY <1>9 DEF RebuildIndex
  <2>3. Rebuilt(file.cat) \in CatalogType /\ Rebuilt(file.cat).entry = file.cat.entry
    BY <1>1, RebuiltCatalog
  <2>4. QED
    BY <2>1, <2>2, <2>3, NothingCleared
<1>10. QED
  BY <1>3, <1>4, <1>6, <1>7, <1>8, <1>9 DEF Upgrade

LEMMA ScanClears ==
  ASSUME ServerInv, RecoverLeftovers \/ NewSource \/ NewScan \/ Switch
  PROVE  \E sources : Cleared(sources)
<1>1. /\ WriterInv /\ writer \in WriterType /\ file.cat \in CatalogType
      /\ file.index \in {"contentless", "none", "regular"}
  BY FileTyped DEF ServerInv, WriterInv
<1>2. CASE RecoverLeftovers
  <2> DEFINE dead == InProgressSources(file.cat)
             left == RemoveSources(file.cat, Completely(dead))
  <2>1. writer'.ids = << >>
    BY <1>1, <1>2 DEF RecoverLeftovers, GoTo, WriterType, WriterInv, WriterOK
  <2>2. CASE dead = {}
    BY <1>2, <2>1, <2>2, NothingCleared DEF RecoverLeftovers
  <2>3. CASE dead # {}
    <3>1. Commit(left, file.index)
      BY <1>2, <2>3 DEF RecoverLeftovers
    <3>2. left \in CatalogType /\ Without(file.cat, dead, left)
      BY <1>1, RemoveSourcesType, RemovedEntries
    <3> HIDE DEF left, dead
    <3>3. QED
      BY <1>1, <2>1, <3>1, <3>2, SourcesCleared
  <2>4. QED
    BY <2>2, <2>3
<1>3. CASE NewSource
  <2> DEFINE path == [place |-> writer.place, sep |-> FALSE]
  <2>1. PICK sid \in NewRowids(file.cat.source) :
          /\ Commit(InsertSource(file.cat, sid, path), file.index)
          /\ writer' = [writer EXCEPT !.pc = "newscan", !.sid = sid,
                                      !.old = FindByPath(file.cat, path)]
    BY <1>3 DEF NewSource
  <2>2. writer'.ids = << >>
    BY <1>1, <1>3, <2>1 DEF NewSource, WriterType, WriterInv, WriterOK
  <2>3. sid \in Rowid /\ path \in Paths
    BY <1>1, FreshRowid DEF Paths, WriterType
  <2> HIDE DEF path
  <2>4. /\ InsertSource(file.cat, sid, path) \in CatalogType
        /\ InsertSource(file.cat, sid, path).entry = file.cat.entry
    BY <1>1, <2>3, InsertSourceType, InsertSourceKeepsRows
  <2>5. QED
    BY <1>1, <2>1, <2>2, <2>4, NothingCleared
<1>4. CASE NewScan
  <2>1. PICK scid \in NewRowids(file.cat.scan) :
          /\ Commit(InsertScan(file.cat, scid, writer.sid), file.index)
          /\ writer' = [writer EXCEPT !.pc = AfterEntries(0), !.scid = scid]
    BY <1>4 DEF NewScan
  <2>2. writer'.ids = << >> /\ writer.sid \in Rowid
    BY <1>1, <1>4, <2>1 DEF NewScan, WriterType, WriterInv, WriterOK
  <2>3. scid \in Rowid
    BY <1>1, FreshRowid
  <2>4. /\ InsertScan(file.cat, scid, writer.sid) \in CatalogType
        /\ InsertScan(file.cat, scid, writer.sid).entry = file.cat.entry
    BY <1>1, <2>2, <2>3, InsertScanType, InsertScanKeepsRows
  <2>5. QED
    BY <1>1, <2>1, <2>2, <2>4, NothingCleared
<1>5. CASE Switch
  <2> DEFINE new == FinishScan(RemoveSources(file.cat, Completely(writer.old)),
                               writer.scid, "Completed")
  <2>1. Commit(new, file.index) /\ writer'.ids = << >>
    BY <1>5 DEF Switch, Idle
  <2>2. new \in CatalogType /\ Without(file.cat, writer.old, new)
    BY <1>1, SwitchedCatalog
  <2> HIDE DEF new
  <2>3. QED
    BY <1>1, <2>1, <2>2, SourcesCleared
<1>6. QED
  BY <1>2, <1>3, <1>4, <1>5

LEMMA ClearingKeepsRoots ==
  ASSUME Rooted(file.cat), NEW sources, Cleared(sources)
  PROVE  Rooted(file.cat)' /\ WrittenOK'
<1>1. Rooted(file'.cat)
  BY DEF Cleared, Rooted
<1>2. Len(writer'.ids) = 0
  BY DEF Cleared
<1>3. WrittenOK'
  BY <1>2 DEF WrittenOK
<1>4. QED
  BY <1>1, <1>3

(* A batch: the new entry is below one the scan has written.               *)
LEMMA BatchKeepsRoots ==
  ASSUME ServerInv, Rooted(file.cat), WrittenOK, WriteBatch
  PROVE  Rooted(file.cat)' /\ WrittenOK' /\ GrewTo(file, file')
<1> DEFINE at == Len(writer.ids) + 1
           item == Walk[writer.place][at]
           parent == FolderId(writer.ids, item)
           one(id) == InsertEntry(file.cat, id, writer.sid, parent, item)
<1>1. PICK id \in NewRowids(file.cat.entry) :
        /\ Commit(InsertFts(one(id), id), file.index) \/ Commit(one(id), file.index)
        /\ writer' = [writer EXCEPT !.ids = Append(@, id), !.pc = AfterEntries(at)]
  BY DEF WriteBatch
<1>2. writer.pc = "walk" /\ WriterInv
  BY DEF WriteBatch, ServerInv
<1>3. /\ writer \in WriterType /\ writer.sid \in Rowid /\ writer.ids \in Seq(Rowid)
      /\ Len(writer.ids) \in Nat
      /\ Len(writer.ids) < Len(Walk[writer.place]) /\ writer.place \in Places
  BY <1>2 DEF WriterInv, WriterOK, WriterType
<1>4. item \in Items /\ parent \in Nat
  BY <1>2, NextEntry
<1>5. /\ file.cat \in CatalogType /\ id \in Rowid /\ file \in FileType
      /\ file.index \in {"contentless", "none", "regular"}
  BY <1>2, FileTyped, FreshRowid DEF WriterInv
<1>6. \A e \in file.cat.entry : e.id < id
  BY DEF NewRowids, IdsOf
<1>7. parent # NoId => \E e \in file.cat.entry : e.id = parent /\ e.source = writer.sid
  <2>1. Walk[writer.place] \in Seq(Items) /\ Up \in [Items -> Nat]
    BY <1>3, ServerAssumption
  <2>2. at \in DOMAIN Walk[writer.place]
    BY <1>3, <2>1
  <2>3. Up[item] < at /\ Up[item] \in Nat
    BY <1>3, <1>4, <2>1, <2>2, ServerAssumption
  <2>4. Up[item] # 0 => Up[item] \in 1 .. Len(writer.ids)
    BY <1>3, <2>3
  <2> HIDE DEF item
  <2>5. QED
    BY <2>4 DEF FolderId, WrittenOK, NoId
<1> DEFINE row == [id |-> id, source |-> writer.sid, parent |-> parent, item |-> item]
<1> HIDE DEF item, parent
<1>8. \A new \in {one(id), InsertFts(one(id), id)} :
        new \in CatalogType /\ new.entry = file.cat.entry \cup {row}
  BY <1>3, <1>4, <1>5, InsertedEntry
<1> HIDE DEF one, row
<1>9. PICK new \in {one(id), InsertFts(one(id), id)} : Commit(new, file.index)
  BY <1>1
<1> USE DEF row
<1>10. row.id = id /\ row.source = writer.sid /\ row.parent = parent
  OBVIOUS
<1> HIDE DEF row
<1>11. file'.cat = new /\ GrewTo(file, file')
  BY <1>5, <1>8, <1>9, CommitGrows
<1>12. Rooted(new)
  <2> SUFFICES ASSUME NEW e \in new.entry, e.parent # NoId
               PROVE  \E f \in new.entry : f.id = e.parent /\ f.source = e.source /\ f.id < e.id
    BY DEF Rooted
  <2>1. CASE e \in file.cat.entry
    BY <1>8, <2>1 DEF Rooted
  <2>2. CASE e = row
    BY <1>6, <1>7, <1>8, <1>10, <2>2
  <2>3. QED
    BY <1>8, <2>1, <2>2
<1>13. /\ writer'.ids = Append(writer.ids, id) /\ writer'.sid = writer.sid
       /\ Len(writer'.ids) = Len(writer.ids) + 1
  BY <1>1, <1>3, <1>5 DEF WriterType
<1>14. ASSUME NEW i \in 1 .. Len(writer'.ids)
       PROVE  \E e \in new.entry : e.id = writer'.ids[i] /\ e.source = writer'.sid
  <2>1. CASE i = Len(writer.ids) + 1
    <3>1. writer'.ids[i] = id
      BY <1>3, <1>5, <1>13, <2>1
    <3>2. QED
      BY <1>8, <1>10, <1>13, <3>1
  <2>2. CASE i # Len(writer.ids) + 1
    <3>1. i \in 1 .. Len(writer.ids) /\ writer'.ids[i] = writer.ids[i]
      BY <1>3, <1>5, <1>13, <2>2
    <3>2. QED
      BY <1>8, <1>13, <3>1 DEF WrittenOK
  <2>3. QED
    BY <2>1, <2>2
<1>15. WrittenOK'
  BY <1>11, <1>14 DEF WrittenOK
<1>16. QED
  BY <1>11, <1>12, <1>15

(* Whatever a command does, every entry keeps its folder, and no entry     *)
(* goes away unnoticed.                                                    *)
LEMMA CommandKeepsRoots ==
  ASSUME ServerInv, Rooted(file.cat), WrittenOK, StartCommand \/ Upgrade \/ Scan \/ Kill
  PROVE  Rooted(file.cat)' /\ WrittenOK' /\ GrewTo(file, file')
<1>1. CASE WriteBatch
  BY <1>1, BatchKeepsRoots
<1>2. CASE ~WriteBatch
  <2>1. \E sources : Cleared(sources)
    BY <1>2, UpgradeClears, ScanClears DEF Scan
  <2>2. QED
    BY <2>1, ClearingKeepsRoots DEF Cleared
<1>3. QED
  BY <1>1, <1>2

-----------------------------------------------------------------------------
(* What api_entry has collected, from step to step                         *)

ViewsOK ==
  /\ Whole(file.cat)
  /\ snap # << >> => Whole(snap.cat) /\ GrewTo(snap, file)

Fresh(c) == c.pc \in {"reading", "working"} => c.path = << >>

LEMMA AnswerParts ==
  AnswerInv <=> /\ ServerInv /\ WrittenOK /\ ViewsOK
                /\ \A h \in Handlers : Fresh(conn[h]) /\ EntryOK(conn[h], View)
<1>1. ServerInv => /\ file.cat \in CatalogType /\ RowidsDiffer(file.cat)
                   /\ snap # << >> => snap.cat \in CatalogType
  BY DEF ServerInv, WriterInv, FileType
<1>2. QED
  BY <1>1 DEF AnswerInv, ViewsOK, Whole, Fresh

LEMMA ViewWhole ==
  ASSUME ServerInv, ViewsOK
  PROVE  /\ Whole(View.cat) /\ View.removals \in Nat
         /\ file.removals \in Nat /\ GrewTo(View, file)
<1>1. View.removals \in Nat /\ file.removals \in Nat
  BY ViewTyped DEF ServerInv, WriterInv, FileType
<1>2. GrewTo(file, file)
  BY <1>1 DEF GrewTo
<1>3. QED
  BY <1>1, <1>2 DEF View, ViewsOK

(* While the catalogue only grows, the end of a path stays the end of it.  *)
LEMMA EntryKept ==
  ASSUME NEW c, NEW old, NEW new, Whole(old.cat), Whole(new.cat),
         old.removals \in Nat, new.removals \in Nat, c.first \in Nat,
         GrewTo(old, new), EntryOK(c, old)
  PROVE  EntryOK(c, new)
<1> SUFFICES ASSUME c.req.api = "entry", c.pc \in {"next", "details", "replying"}, c.rows # {}
             PROVE  /\ c.first <= new.removals
                    /\ c.first = new.removals => PathOK(c, new.cat)
  BY DEF EntryOK
<1>1. c.first <= old.removals /\ (c.first = old.removals => PathOK(c, old.cat))
  BY DEF EntryOK
<1>2. old.removals <= new.removals
  BY DEF GrewTo
<1>3. c.first <= new.removals
  BY <1>1, <1>2
<1>4. ASSUME c.first = new.removals
      PROVE  PathOK(c, new.cat)
  <2>1. old.removals = new.removals /\ c.first = old.removals
    BY <1>1, <1>2, <1>4
  <2>2. old.cat.entry \subseteq new.cat.entry /\ PathOK(c, old.cat)
    BY <1>1, <2>1 DEF GrewTo
  <2>3. \A e \in old.cat.entry : PathIn(new.cat, e) = PathIn(old.cat, e)
    BY <2>2, PathsStay
  <2>4. QED
    BY <2>2, <2>3 DEF PathOK
<1>5. QED
  BY <1>3, <1>4

(* The states the connection goes through only grow, too.                  *)
LEMMA CommandKeepsViews ==
  ASSUME ServerInv, ServerInv', ViewsOK, WrittenOK, StartCommand \/ Upgrade \/ Scan \/ Kill,
         UNCHANGED snap
  PROVE  WrittenOK' /\ ViewsOK' /\ GrewTo(View, View')
<1>1. Rooted(file.cat)' /\ WrittenOK' /\ GrewTo(file, file')
  BY CommandKeepsRoots DEF ViewsOK, Whole
<1>2. /\ file'.cat \in CatalogType /\ RowidsDiffer(file'.cat)
      /\ file.removals \in Nat /\ file'.removals \in Nat
  BY DEF ServerInv, WriterInv, FileType
<1>3. Whole(file'.cat)
  BY <1>1, <1>2 DEF Whole
<1>4. snap # << >> => snap.removals \in Nat
  BY DEF ServerInv, FileType
<1>5. snap # << >> => GrewTo(snap, file') /\ GrewTo(snap, snap)
  BY <1>1, <1>2, <1>4 DEF ViewsOK, GrewTo
<1>6. ViewsOK'
  BY <1>3, <1>5 DEF ViewsOK
<1>7. GrewTo(View, View')
  BY <1>1, <1>5 DEF View
<1>8. QED
  BY <1>1, <1>6, <1>7

LEMMA ServerKeepsViews ==
  ASSUME ServerInv, ViewsOK, WrittenOK, AtServer, snap' \in {<< >>, snap, View}
  PROVE  WrittenOK' /\ ViewsOK' /\ GrewTo(View, View')
<1>1. UNCHANGED <<file, writer>>
  BY DEF AtServer
<1>2. Whole(View.cat) /\ View.removals \in Nat /\ GrewTo(View, file) /\ GrewTo(View, View)
  BY ViewWhole DEF GrewTo
<1>3. View' \in {View, file}
  BY <1>1 DEF View
<1>4. snap' # << >> => snap' = View
  BY DEF View
<1>5. ViewsOK'
  BY <1>1, <1>2, <1>4 DEF ViewsOK
<1>6. WrittenOK'
  BY <1>1 DEF WrittenOK
<1>7. QED
  BY <1>2, <1>3, <1>5, <1>6

(* A connection that answers no api_entry, or is about to.                 *)
NoEntryYet(c) ==
  /\ Fresh(c)
  /\ ~(c.req.api = "entry" /\ c.pc \in {"next", "details", "replying"} /\ c.rows # {})

LEMMA NoEntryFits ==
  ASSUME NEW c, NoEntryYet(c), NEW view
  PROVE  Fresh(c) /\ EntryOK(c, view)
BY DEF NoEntryYet, EntryOK

LEMMA ClosedHasNoEntry ==
  /\ NoEntryYet(Closed)
  /\ NoEntryYet([Closed EXCEPT !.pc = "reading"])
  /\ NoEntryYet([Closed EXCEPT !.pc = "silent"])
  /\ NoEntryYet(Ready)
BY DEF Closed, Ready, NoEntryYet, Fresh

LEMMA Updated ==
  ASSUME ServerInv, NEW h \in Handlers, NEW c, Update(h, c)
  PROVE  conn'[h] = c /\ \A g \in Handlers : g # h => conn'[g] = conn[g]
BY DEF ServerInv, Update

LEMMA OtherRequests ==
  ASSUME ServerInv, NEW h \in Handlers, Fresh(conn[h]),
         \/ Accept(h) \/ Await(h) \/ HangUp(h) \/ GiveUp(h) \/ Reply(h) \/ Throw(h)
         \/ ServePage(h) \/ List(h) \/ CountNext(h) \/ Search(h) \/ NextResult(h) \/ EndSearch(h)
  PROVE  \E c : Update(h, c) /\ NoEntryYet(c)
<1> DEFINE old == conn[h]
<1>1. old \in ConnType /\ (old.pc = "reading" => old.rows = {} /\ old.path = << >>)
  BY ConnTyped DEF ServerInv, NothingFound, Fresh
<1>2. CASE \/ Accept(h) \/ FallSilent(h) \/ HangUp(h) \/ GiveUp(h) \/ Reply(h)
           \/ Throw(h) \/ EndSearch(h)
  BY <1>2, ClosedHasNoEntry
  DEF Accept, FallSilent, HangUp, GiveUp, Reply, Throw, EndSearch
<1>3. CASE Receive(h)
  <2>1. NoEntryYet([old EXCEPT !.got = @ + 1])
    BY <1>1, <1>3 DEF Receive, ConnType, NoEntryYet, Fresh
  <2>2. QED
    BY <1>3, <2>1, ClosedHasNoEntry DEF Receive
<1>4. CASE TakeRequest(h)
  <2>1. \A req : NoEntryYet([Closed EXCEPT !.pc = "working", !.req = req])
    BY DEF Closed, NoEntryYet, Fresh
  <2>2. QED
    BY <1>4, <2>1, ClosedHasNoEntry DEF TakeRequest
<1>5. ASSUME NEW c, c.req.api # "entry", c.pc \in {"next", "replying"}
      PROVE  NoEntryYet(c)
  BY <1>5 DEF NoEntryYet, Fresh
<1>6. ASSUME NEW c \in ConnType, c.req = old.req, old.req.api # "entry"
      PROVE  NoEntryYet(Answered(c))
  <2>1. CASE c.todo = {}
    BY <2>1, ClosedHasNoEntry DEF Answered
  <2>2. CASE c.todo # {}
    BY <1>6, <2>2 DEF ConnType, Answered, NoEntryYet, Fresh
  <2>3. QED
    BY <2>1, <2>2
<1>7. CASE ServePage(h)
  BY <1>1, <1>6, <1>7 DEF ServePage, Asked
<1>8. CASE List(h)
  <2> DEFINE c == [old EXCEPT !.todo = Left(old.req)]
  <2>1. old.req.api \in {"stats", "sources", "tree"} /\ Update(h, Answered(c))
    BY <1>8 DEF List, Asked
  <2>2. c \in ConnType /\ c.req = old.req
    BY <1>1, <2>1, LeftTyped DEF ConnType
  <2> HIDE DEF c
  <2>3. QED
    BY <1>6, <2>1, <2>2
<1>9. CASE CountNext(h)
  <2>1. PICK i \in Least(old.todo) : Update(h, Answered([old EXCEPT !.todo = @ \ {i}]))
    BY <1>9 DEF CountNext
  <2> DEFINE c == [old EXCEPT !.todo = @ \ {i}]
  <2>2. c \in ConnType /\ c.req = old.req /\ old.req.api # "entry" /\ Update(h, Answered(c))
    BY <1>1, <1>9, <2>1 DEF ConnType, CountNext, Follows
  <2> HIDE DEF c
  <2>3. QED
    BY <1>6, <2>2
<1>10. CASE Search(h)
  <2>1. old.req.api = "search"
    BY <1>10 DEF Search, Asked
  <2>2. CASE View.index = "none"
    BY <1>1, <1>6, <1>10, <2>1, <2>2 DEF Search
  <2>3. CASE View.index # "none"
    <3> DEFINE c == [old EXCEPT !.pc = "next", !.from = View, !.todo = View.cat.fts]
    <3>1. Update(h, c)
      BY <1>10, <2>3 DEF Search
    <3>2. c.pc = "next" /\ c.req = old.req
      BY <1>1 DEF ConnType
    <3> HIDE DEF c
    <3>3. QED
      BY <1>5, <2>1, <3>1, <3>2
  <2>4. QED
    BY <2>2, <2>3
<1>11. CASE NextResult(h)
  <2>1. PICK id \in Least(old.todo) :
          Update(h, [old EXCEPT !.todo = @ \ {id}, !.rows = @ \cup RowOf(id)])
    BY <1>11 DEF NextResult
  <2> DEFINE c == [old EXCEPT !.todo = @ \ {id}, !.rows = @ \cup RowOf(id)]
  <2>2. c.pc = "next" /\ c.req = old.req /\ old.req.api = "search"
    BY <1>1, <1>11 DEF ConnType, NextResult, Follows
  <2>3. Update(h, c)
    BY <2>1
  <2> HIDE DEF c
  <2>4. QED
    BY <1>5, <2>2, <2>3
<1>12. QED
  BY <1>2, <1>3, <1>4, <1>7, <1>8, <1>9, <1>10, <1>11 DEF Await

(* The row that was asked for, with the climb still to be done.            *)
LEMMA FindEntryFits ==
  ASSUME ServerInv, ViewsOK, NEW h \in Handlers, Fresh(conn[h]), FindEntry(h)
  PROVE  \E c : Update(h, c) /\ Fresh(c) /\ EntryOK(c, View)
<1> DEFINE old == conn[h]
           id == old.req.id
           c == [old EXCEPT !.first = View.removals, !.rows = RowOf(id),
                            !.todo = IdsOf(RowOf(id))]
<1>1. old \in ConnType /\ old.path = << >>
  BY ConnTyped DEF FindEntry, Asked, Fresh
<1>2. Whole(View.cat) /\ View.removals \in Nat
  BY ViewWhole
<1>3. /\ c.first = View.removals /\ c.rows = RowOf(id) /\ c.todo = IdsOf(RowOf(id))
      /\ c.path = << >> /\ c.pc = old.pc
  BY <1>1 DEF ConnType
<1>4. Update(h, Answered(c))
  BY DEF FindEntry
<1>5. c \in ConnType
  <2>1. RowOf(id) \subseteq EntryRow /\ IdsOf(RowOf(id)) \subseteq Nat
    BY RowTyped
  <2>2. QED
    BY <1>1, <1>2, <2>1 DEF ConnType, EntryRow
<1> HIDE DEF c
<1>6. CASE c.todo = {}
  <2>1. Answered(c) = Ready
    BY <1>6 DEF Answered
  <2>2. Fresh(Ready) /\ EntryOK(Ready, View)
    BY ClosedHasNoEntry, NoEntryFits
  <2>3. QED
    BY <1>4, <2>1, <2>2
<1>7. CASE c.todo # {}
  <2> DEFINE d == [c EXCEPT !.pc = "next"]
  <2>1. Update(h, d)
    BY <1>4, <1>7 DEF Answered
  <2>2. /\ d.first = c.first /\ d.rows = c.rows /\ d.todo = c.todo /\ d.path = c.path
        /\ d.pc = "next"
    BY <1>5 DEF ConnType
  <2> HIDE DEF d
  <2>3. Fresh(d)
    BY <2>2 DEF Fresh
  <2>4. PICK row \in RowOf(id) : TRUE
    BY <1>3, <1>7 DEF IdsOf
  <2>5. row \in View.cat.entry /\ RowOf(id) = {row}
    BY <1>2, <2>4 DEF RowOf, Whole, RowidsDiffer
  <2>6. d.todo = {row.id}
    BY <1>3, <2>2, <2>5 DEF IdsOf
  <2>7. PathIn(View.cat, row) \in Seq(Items)
    BY <1>2, <2>5, PathTyped
  <2>8. PathIn(View.cat, row) = PathIn(View.cat, row) \o << >>
    BY <2>7
  <2>9. PathOK(d, View.cat)
    BY <1>3, <2>2, <2>5, <2>6, <2>8 DEF PathOK
  <2>10. EntryOK(d, View)
    BY <1>2, <1>3, <2>2, <2>9 DEF EntryOK
  <2>11. QED
    BY <2>1, <2>3, <2>10
<1>8. QED
  BY <1>6, <1>7

LEMMA AppendInFront ==
  ASSUME NEW S, NEW s \in Seq(S), NEW x \in S, NEW t \in Seq(S)
  PROVE  Append(s, x) \o t = s \o (<<x>> \o t)
<1> DEFINE left == Append(s, x) \o t
           tail == <<x>> \o t
           right == s \o tail
<1>1. /\ Append(s, x) \in Seq(S) /\ Len(Append(s, x)) = Len(s) + 1
      /\ Append(s, x)[Len(s) + 1] = x
      /\ \A i \in 1 .. Len(s) : Append(s, x)[i] = s[i]
  BY AppendProperties
<1>2. <<x>> \in Seq(S) /\ Len(<<x>>) = 1 /\ <<x>>[1] = x
  OBVIOUS
<1>3. Len(s) \in Nat /\ Len(t) \in Nat
  BY LenProperties
<1>4. /\ tail \in Seq(S) /\ Len(tail) = 1 + Len(t) /\ tail[1] = x
      /\ \A i \in 1 .. Len(t) : tail[i + 1] = t[i]
  <2>1. /\ tail \in Seq(S) /\ Len(tail) = Len(<<x>>) + Len(t)
        /\ \A i \in 1 .. Len(<<x>>) + Len(t) :
             tail[i] = IF i <= Len(<<x>>) THEN <<x>>[i] ELSE t[i - Len(<<x>>)]
    BY <1>2, ConcatProperties
  <2> HIDE DEF tail
  <2>2. \A i \in 1 .. Len(t) : tail[i + 1] = t[(i + 1) - 1] /\ (i + 1) - 1 = i
    BY <1>2, <1>3, <2>1
  <2>3. QED
    BY <1>2, <1>3, <2>1, <2>2
<1> HIDE DEF tail
<1>5. /\ left \in Seq(S) /\ Len(left) = Len(s) + 1 + Len(t)
      /\ \A i \in 1 .. Len(s) + 1 + Len(t) :
           left[i] = IF i <= Len(s) + 1 THEN Append(s, x)[i] ELSE t[i - (Len(s) + 1)]
  BY <1>1, ConcatProperties
<1>6. /\ right \in Seq(S) /\ Len(right) = Len(s) + (1 + Len(t))
      /\ \A i \in 1 .. Len(s) + (1 + Len(t)) :
           right[i] = IF i <= Len(s) THEN s[i] ELSE tail[i - Len(s)]
  <2>1. tail \in Seq(S)
    BY <1>4
  <2>2. /\ right \in Seq(S) /\ Len(right) = Len(s) + Len(tail)
        /\ \A i \in 1 .. Len(s) + Len(tail) :
             right[i] = IF i <= Len(s) THEN s[i] ELSE tail[i - Len(s)]
    BY <2>1, ConcatProperties
  <2> HIDE DEF right
  <2>3. QED
    BY <1>4, <2>2
<1> HIDE DEF left, right
<1>7. ASSUME NEW i \in 1 .. Len(left)
      PROVE  left[i] = right[i]
  <2>1. i \in 1 .. Len(s) + 1 + Len(t) /\ i \in 1 .. Len(s) + (1 + Len(t))
    BY <1>3, <1>5
  <2>2. CASE i <= Len(s)
    <3>1. i \in 1 .. Len(s) /\ i <= Len(s) + 1
      BY <1>3, <2>1, <2>2
    <3>2. left[i] = s[i]
      BY <1>1, <1>5, <2>1, <3>1
    <3>3. right[i] = s[i]
      BY <1>6, <2>1, <2>2
    <3>4. QED
      BY <3>2, <3>3
  <2>3. CASE i = Len(s) + 1
    <3>1. i - Len(s) = 1 /\ ~(i <= Len(s)) /\ i <= Len(s) + 1
      BY <1>3, <2>3
    <3>2. QED
      BY <1>1, <1>4, <1>5, <1>6, <2>1, <2>3, <3>1
  <2>4. CASE i > Len(s) + 1
    <3> DEFINE j == i - (Len(s) + 1)
    <3>1. j \in 1 .. Len(t) /\ i - Len(s) = j + 1 /\ ~(i <= Len(s)) /\ ~(i <= Len(s) + 1)
      BY <1>3, <2>1, <2>4
    <3>2. left[i] = t[j]
      BY <1>5, <2>1, <3>1
    <3>3. right[i] = tail[j + 1]
      BY <1>6, <2>1, <3>1
    <3> HIDE DEF j
    <3>4. QED
      BY <1>4, <3>1, <3>2, <3>3
  <2>5. QED
    BY <1>3, <2>1, <2>2, <2>3, <2>4
<1>8. Len(left) = Len(right)
  BY <1>3, <1>5, <1>6
<1>9. left = right
  BY <1>5, <1>6, <1>7, <1>8, SeqEqual
<1>10. QED
  BY <1>9 DEF left, right, tail

(* One folder more in front of the path.                                   *)
LEMMA ClimbPathFits ==
  ASSUME ServerInv, ViewsOK, NEW h \in Handlers, EntryOK(conn[h], View), ClimbPath(h)
  PROVE  \E c : Update(h, c) /\ Fresh(c) /\ EntryOK(c, View)
<1> DEFINE old == conn[h]
<1>1. old \in ConnType /\ old.pc = "next" /\ old.req.api = "entry"
  BY ConnTyped DEF ClimbPath, Follows
<1>2. Whole(View.cat) /\ View.removals \in Nat
  BY ViewWhole
<1>3. PICK id \in old.todo :
        Update(h, OnPath(IF RowOf(id) = {} THEN [old EXCEPT !.todo = {}]
                         ELSE Climbed(old, CHOOSE row \in RowOf(id) : TRUE)))
  BY DEF ClimbPath
<1>4. PICK c \in ConnType :
        /\ Update(h, OnPath(c))
        /\ c.req = old.req /\ c.rows = old.rows /\ c.first = old.first /\ c.pc = "next"
        /\ \A e \in View.cat.entry : e.id = id =>
             c.path = <<e.item>> \o old.path /\ c.todo = {e.parent} \ {NoId}
  <2>1. CASE RowOf(id) = {}
    <3> DEFINE c == [old EXCEPT !.todo = {}]
    <3>1. /\ c \in ConnType /\ c.req = old.req /\ c.rows = old.rows /\ c.first = old.first
          /\ c.pc = "next"
      BY <1>1 DEF ConnType
    <3>2. \A e \in View.cat.entry : e.id # id
      BY <2>1 DEF RowOf
    <3>3. Update(h, OnPath(c))
      BY <1>3, <2>1
    <3> HIDE DEF c
    <3>4. QED
      BY <3>1, <3>2, <3>3
  <2>2. CASE RowOf(id) # {}
    <3> DEFINE row == CHOOSE r \in RowOf(id) : TRUE
               c == Climbed(old, row)
    <3>1. row \in RowOf(id) /\ row \in EntryRow
      BY <2>2, RowTyped
    <3>2. Update(h, OnPath(c))
      BY <1>3, <2>2
    <3> HIDE DEF row
    <3>3. \A e \in View.cat.entry : e.id = id => e = row
      BY <1>2, <3>1 DEF RowOf, Whole, RowidsDiffer
    <3>4. <<row.item>> \o old.path \in Seq(Items) /\ {row.parent} \ {NoId} \subseteq Nat
      BY <1>1, <3>1 DEF EntryRow, ConnType
    <3>5. /\ c \in ConnType /\ c.req = old.req /\ c.rows = old.rows /\ c.first = old.first
          /\ c.pc = "next"
          /\ c.path = <<row.item>> \o old.path /\ c.todo = {row.parent} \ {NoId}
      BY <1>1, <3>4 DEF Climbed, ConnType
    <3> HIDE DEF c
    <3>6. QED
      BY <3>2, <3>3, <3>5
  <2>3. QED
    BY <2>1, <2>2
<1>5. /\ OnPath(c).first = c.first /\ OnPath(c).rows = c.rows
      /\ OnPath(c).path = c.path /\ OnPath(c).req = c.req
      /\ c.todo # {} => OnPath(c).pc = "next" /\ OnPath(c).todo = c.todo
      /\ c.todo = {} => OnPath(c).pc = "details"
  BY <1>4 DEF OnPath, ConnType
<1>6. ASSUME old.rows # {}, PathOK(old, View.cat)
      PROVE  PathOK(OnPath(c), View.cat)
  <2>1. PICK row \in View.cat.entry :
          /\ old.rows = {row}
          /\ \E e \in View.cat.entry :
               old.todo = {e.id} /\ PathIn(View.cat, row) = PathIn(View.cat, e) \o old.path
    BY <1>1, <1>6 DEF PathOK
  <2>2. PICK e \in View.cat.entry :
          old.todo = {e.id} /\ PathIn(View.cat, row) = PathIn(View.cat, e) \o old.path
    BY <2>1
  <2>3. /\ e.id = id
        /\ c.path = <<e.item>> \o old.path /\ c.todo = {e.parent} \ {NoId}
    BY <1>3, <1>4, <2>2
  <2>4. e.item \in Items /\ old.path \in Seq(Items)
    BY <1>1, <1>2, EntryTyped DEF ConnType
  <2>5. CASE e.parent = NoId
    <3>1. c.todo = {} /\ PathIn(View.cat, row) = c.path
      BY <1>2, <2>2, <2>3, <2>5, PathOfEntry
    <3>2. QED
      BY <1>4, <1>5, <2>1, <3>1 DEF PathOK
  <2>6. CASE e.parent # NoId
    <3> DEFINE f == ParentOf(View.cat, e)
    <3>1. f \in View.cat.entry /\ f.id = e.parent
      BY <1>2, <2>6, ParentFound
    <3>2. PathIn(View.cat, f) \in Seq(Items)
      BY <1>2, <3>1, PathTyped
    <3>3. PathIn(View.cat, e) = Append(PathIn(View.cat, f), e.item)
      BY <1>2, <2>6, PathOfEntry
    <3> HIDE DEF f
    <3>4. c.todo = {f.id} /\ c.todo # {}
      BY <2>3, <2>6, <3>1
    <3>5. Append(PathIn(View.cat, f), e.item) \o old.path
            = PathIn(View.cat, f) \o (<<e.item>> \o old.path)
      <4> DEFINE s == PathIn(View.cat, f)
                 x == e.item
                 t == old.path
      <4>1. s \in Seq(Items) /\ x \in Items /\ t \in Seq(Items)
        BY <2>4, <3>2
      <4> HIDE DEF s, x, t
      <4>2. Append(s, x) \o t = s \o (<<x>> \o t)
        BY <4>1, AppendInFront
      <4>3. QED
        BY <4>2 DEF s, x, t
    <3>6. PathIn(View.cat, row) = PathIn(View.cat, f) \o c.path
      BY <2>2, <2>3, <3>3, <3>5
    <3>7. /\ OnPath(c).rows = {row} /\ OnPath(c).pc = "next"
          /\ OnPath(c).todo = {f.id} /\ OnPath(c).path = c.path
      BY <1>4, <1>5, <2>1, <3>4
    <3>8. QED
      BY <3>1, <3>6, <3>7 DEF PathOK
  <2>7. QED
    BY <2>5, <2>6
<1>7. EntryOK(OnPath(c), View)
  BY <1>1, <1>4, <1>5, <1>6 DEF EntryOK
<1>8. Fresh(OnPath(c))
  BY <1>5 DEF Fresh
<1>9. QED
  BY <1>4, <1>7, <1>8

(* What comes after the path leaves the row and the path alone.            *)
LEMMA ReadDetailFits ==
  ASSUME ServerInv, NEW h \in Handlers, EntryOK(conn[h], View), ReadDetail(h)
  PROVE  \E c : Update(h, c) /\ Fresh(c) /\ EntryOK(c, View)
<1> DEFINE old == conn[h]
<1>1. old \in ConnType /\ old.pc = "details"
  BY ConnTyped DEF ReadDetail
<1>2. PICK i \in Least(old.todo) :
        Update(h, [old EXCEPT !.todo = @ \ {i},
                              !.pc = IF old.todo = {i} THEN "replying" ELSE @])
  BY DEF ReadDetail
<1> DEFINE c == [old EXCEPT !.todo = @ \ {i},
                            !.pc = IF old.todo = {i} THEN "replying" ELSE @]
<1>3. /\ c.pc \in {"details", "replying"} /\ c.rows = old.rows /\ c.path = old.path
      /\ c.first = old.first /\ c.req = old.req
  BY <1>1 DEF ConnType
<1>4. Update(h, c)
  BY <1>2
<1> HIDE DEF c
<1>5. EntryOK(c, View)
  <2>1. PathOK(old, View.cat) => PathOK(c, View.cat)
    BY <1>1, <1>3 DEF PathOK
  <2>2. QED
    BY <1>1, <1>3, <2>1 DEF EntryOK
<1>6. QED
  BY <1>3, <1>4, <1>5 DEF Fresh

-----------------------------------------------------------------------------
(* AnswerInv is inductive                                                  *)

LEMMA WholeTreeRooted ==
  ASSUME NEW place \in Places, NEW indexed
  PROVE  Rooted(WholeTree(place, indexed))
<1> DEFINE walk == Walk[place]
           ids == [i \in 1 .. Len(walk) |-> i]
           row(i) == [id |-> i, source |-> 1, parent |-> FolderId(ids, walk[i]), item |-> walk[i]]
           cat == WholeTree(place, indexed)
<1>1. walk \in Seq(Items) /\ Len(walk) \in Nat /\ DOMAIN ids = 1 .. Len(walk)
  BY ServerAssumption
<1>2. cat.entry = {row(i) : i \in 1 .. Len(walk)}
  BY <1>1 DEF WholeTree
<1>3. ASSUME NEW i \in 1 .. Len(walk), row(i).parent # NoId
      PROVE  row(i).parent \in 1 .. Len(walk) /\ row(i).parent < i
  <2>1. walk[i] \in Items /\ i \in DOMAIN walk
    BY <1>1
  <2>2. Up[walk[i]] \in Nat /\ Up[walk[i]] < i
    BY <2>1, ServerAssumption
  <2>3. Up[walk[i]] # 0
    BY <1>3 DEF FolderId
  <2>4. row(i).parent = Up[walk[i]]
    BY <1>1, <2>2, <2>3 DEF FolderId
  <2>5. QED
    BY <1>1, <2>2, <2>3, <2>4
<1>4. \A i \in 1 .. Len(walk) : row(i).id = i /\ row(i).source = 1
  OBVIOUS
<1> HIDE DEF row, cat
<1>5. QED
  BY <1>2, <1>3, <1>4 DEF Rooted, cat

LEMMA AnswerInit == Init => AnswerInv
<1> SUFFICES ASSUME Init PROVE AnswerInv
  OBVIOUS
<1>1. ServerInv
  BY InitEstablishes
<1>2. PICK old \in Before : \E indexed \in Indexings(old.place, Walk[old.place]) :
        file = [cat |-> WholeTree(old.place, indexed), index |-> old.index, removals |-> 0]
  BY DEF Init
<1>3. old.place \in Places
  BY ServerAssumption
<1>4. Rooted(file.cat)
  BY <1>2, <1>3, WholeTreeRooted
<1>5. snap = << >> /\ writer.ids = << >> /\ \A h \in Handlers : conn[h] = Closed
  BY DEF Init, Idle
<1>6. WrittenOK
  BY <1>5 DEF WrittenOK
<1>7. ViewsOK
  BY <1>1, <1>4, <1>5 DEF ViewsOK, Whole, ServerInv, WriterInv, FileType
<1>8. \A h \in Handlers : Fresh(conn[h]) /\ EntryOK(conn[h], View)
  BY <1>5, ClosedHasNoEntry, NoEntryFits
<1>9. QED
  BY <1>1, <1>6, <1>7, <1>8, AnswerParts

LEMMA RequestStep ==
  ASSUME ServerInv, NEW h \in Handlers,
         Accept(h) \/ Await(h) \/ HangUp(h) \/ GiveUp(h) \/ Work(h)
  PROVE  snap' \in {<< >>, snap, View}
BY DEF Accept, Await, Receive, TakeRequest, FallSilent, HangUp, GiveUp, Work, Respond,
       ServePage, List, CountNext, FindEntry, ClimbPath, ReadDetail, Search, NextResult,
       EndSearch, Throw, Reply, HeldWithout

LEMMA AnswerNext ==
  ASSUME AnswerInv, [Next]_vars
  PROVE  AnswerInv'
<1>1. /\ ServerInv /\ WrittenOK /\ ViewsOK
      /\ \A h \in Handlers : Fresh(conn[h]) /\ EntryOK(conn[h], View)
  BY AnswerParts
<1>2. ServerInv'
  BY <1>1, NextKeeps
<1>3. \A h \in Handlers : conn[h].first \in Nat /\ conn'[h].first \in Nat
  BY <1>1, <1>2 DEF ServerInv, ConnType
<1>4. /\ Whole(View.cat) /\ View.removals \in Nat
  BY <1>1, ViewWhole
<1>5. ASSUME WrittenOK' /\ ViewsOK' /\ GrewTo(View, View'),
             \A g \in Handlers : Fresh(conn[g])' /\ EntryOK(conn'[g], View)
      PROVE  AnswerInv'
  <2>1. Whole(View.cat)' /\ (View.removals)' \in Nat
    BY <1>2, <1>5 DEF View, ViewsOK, ServerInv, WriterInv, FileType
  <2>2. \A g \in Handlers : EntryOK(conn'[g], View')
    BY <1>3, <1>4, <1>5, <2>1, EntryKept
  <2>3. \A g \in Handlers : EntryOK(conn[g], View)'
    BY <2>2 DEF EntryOK
  <2>4. QED
    BY <1>2, <1>5, <2>3 DEF AnswerInv, ViewsOK, Whole, Fresh
<1>6. CASE UNCHANGED vars
  <2>1. UNCHANGED <<file, writer, commands, snap, conn>>
    BY <1>6 DEF vars
  <2>2. WrittenOK' /\ ViewsOK' /\ View' = View
    BY <1>1, <2>1 DEF WrittenOK, ViewsOK, View
  <2>3. GrewTo(View, View')
    BY <1>4, <2>2 DEF GrewTo
  <2>4. QED
    BY <1>1, <1>5, <2>1, <2>2, <2>3 DEF Fresh
<1>7. CASE StartCommand \/ Upgrade \/ Scan \/ Kill
  <2>1. UNCHANGED <<snap, conn>>
    BY <1>1, <1>7, WriterStepKeeps DEF ServerInv
  <2>2. WrittenOK' /\ ViewsOK' /\ GrewTo(View, View')
    BY <1>1, <1>2, <1>7, <2>1, CommandKeepsViews
  <2>3. QED
    BY <1>1, <1>5, <2>1, <2>2 DEF Fresh
<1>8. ASSUME NEW h \in Handlers,
             Accept(h) \/ Await(h) \/ HangUp(h) \/ GiveUp(h) \/ Work(h)
      PROVE  AnswerInv'
  <2>1. snap' \in {<< >>, snap, View} /\ AtServer
    BY <1>1, <1>8, RequestStep, ServerStepQuiet
  <2>2. WrittenOK' /\ ViewsOK' /\ GrewTo(View, View')
    BY <1>1, <2>1, ServerKeepsViews
  <2>3. PICK c : Update(h, c) /\ Fresh(c) /\ EntryOK(c, View)
    <3>1. CASE FindEntry(h)
      BY <1>1, <3>1, FindEntryFits
    <3>2. CASE ClimbPath(h)
      BY <1>1, <3>2, ClimbPathFits
    <3>3. CASE ReadDetail(h)
      BY <1>1, <3>3, ReadDetailFits
    <3>4. CASE ~FindEntry(h) /\ ~ClimbPath(h) /\ ~ReadDetail(h)
      BY <1>1, <1>8, <3>4, OtherRequests, NoEntryFits DEF Work, Respond
    <3>5. QED
      BY <3>1, <3>2, <3>3, <3>4
  <2>4. conn'[h] = c /\ \A g \in Handlers : g # h => conn'[g] = conn[g]
    BY <1>1, <2>3, Updated
  <2>5. \A g \in Handlers : Fresh(conn[g])' /\ EntryOK(conn'[g], View)
    BY <1>1, <2>3, <2>4 DEF Fresh
  <2>6. QED
    BY <1>5, <2>2, <2>5
<1>9. QED
  BY <1>6, <1>7, <1>8 DEF Next

(* What api_entry has collected is the end of the path of its entry in     *)
(* what the connection sees, as long as nothing was deleted since.         *)
THEOREM AnswersAreKept == Spec => []AnswerInv
<1>1. Init => AnswerInv
  BY AnswerInit
<1>2. AnswerInv /\ [Next]_vars => AnswerInv'
  BY AnswerNext
<1>3. QED
  BY <1>1, <1>2, PTL DEF Spec

(* The answer to api_entry is the entry with its whole path in the present *)
(* catalogue, although each step of its climb is a SELECT of its own and   *)
(* commands commit between them - unless entries were deleted meanwhile    *)
(* (viewer.cpp).                                                           *)
THEOREM EntryAnswersAreWhole == Spec => []EntryAnswerIsWhole
<1>1. AnswerInv => EntryAnswerIsWhole
  <2> SUFFICES ASSUME AnswerInv, NEW h \in Handlers,
                      conn[h].pc = "replying", conn[h].req.api = "entry",
                      conn[h].rows # {}, conn[h].first = file.removals
               PROVE  \E row \in conn[h].rows :
                        row \in file.cat.entry /\ conn[h].path = PathIn(file.cat, row)
    BY DEF EntryAnswerIsWhole
  <2>1. ServerInv /\ ViewsOK /\ EntryOK(conn[h], View)
    BY AnswerParts
  <2>2. /\ Whole(View.cat) /\ View.removals \in Nat
        /\ file.removals \in Nat /\ GrewTo(View, file)
    BY <2>1, ViewWhole
  <2>3. Whole(file.cat) /\ conn[h].first \in Nat
    BY <2>1 DEF ViewsOK, ServerInv, ConnType
  <2>4. EntryOK(conn[h], file)
    BY <2>1, <2>2, <2>3, EntryKept
  <2>5. PathOK(conn[h], file.cat)
    BY <2>4 DEF EntryOK
  <2>6. QED
    BY <2>5 DEF PathOK
<1>2. QED
  BY <1>1, AnswersAreKept, PTL
=============================================================================
