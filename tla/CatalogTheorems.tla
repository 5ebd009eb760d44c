--------------------------- MODULE CatalogTheorems --------------------------
(***************************************************************************)
(* What the statements of Catalog return and preserve.                     *)
(***************************************************************************)
EXTENDS Catalog, TLAPS

LEMMA EmptyCatalogType == EmptyCatalog \in CatalogType
BY DEF EmptyCatalog, CatalogType

(* A new rowid is a rowid that no row of the table has.                    *)
LEMMA NewRowidsFresh ==
  ASSUME NEW rows, IdsOf(rows) \subseteq Nat, NEW id \in NewRowids(rows)
  PROVE  id \in Rowid /\ id \notin IdsOf(rows)
BY DEF NewRowids, Rowid

LEMMA TableIds ==
  ASSUME NEW db \in CatalogType
  PROVE  /\ IdsOf(db.source) \subseteq Nat
         /\ IdsOf(db.scan) \subseteq Nat
         /\ IdsOf(db.entry) \subseteq Nat
BY DEF CatalogType, IdsOf, Rowid

(* Each INSERT adds its row to its table and leaves the others alone.      *)
LEMMA InsertSourceType ==
  ASSUME NEW db \in CatalogType, NEW id \in Rowid, NEW path \in Paths
  PROVE  /\ InsertSource(db, id, path) \in CatalogType
         /\ InsertSource(db, id, path).source = db.source \cup {[id |-> id, path |-> path]}
         /\ InsertSource(db, id, path).scan = db.scan
BY DEF CatalogType, InsertSource

LEMMA InsertScanType ==
  ASSUME NEW db \in CatalogType, NEW id \in Rowid, NEW s \in Rowid
  PROVE  /\ InsertScan(db, id, s) \in CatalogType
         /\ InsertScan(db, id, s).source = db.source
         /\ InsertScan(db, id, s).scan =
              db.scan \cup {[id |-> id, source |-> s, status |-> "InProgress"]}
BY DEF CatalogType, InsertScan, Statuses

LEMMA InsertEntryType ==
  ASSUME NEW db \in CatalogType, NEW id \in Rowid, NEW s \in Rowid,
         NEW parent \in Nat, NEW item \in Items
  PROVE  /\ InsertEntry(db, id, s, parent, item) \in CatalogType
         /\ InsertEntry(db, id, s, parent, item).source = db.source
         /\ InsertEntry(db, id, s, parent, item).scan = db.scan
BY DEF CatalogType, InsertEntry

LEMMA InsertFtsType ==
  ASSUME NEW db \in CatalogType, NEW id \in Rowid
  PROVE  /\ InsertFts(db, id) \in CatalogType
         /\ InsertFts(db, id).source = db.source
         /\ InsertFts(db, id).scan = db.scan
BY DEF CatalogType, InsertFts

LEMMA InsertSideType ==
  ASSUME NEW db \in CatalogType, NEW id \in Rowid
  PROVE  /\ InsertSide(db, id) \in CatalogType
         /\ InsertSide(db, id).source = db.source
         /\ InsertSide(db, id).scan = db.scan
BY DEF CatalogType, InsertSide

(* finish changes the status of the scan row with its id and nothing else. *)
LEMMA FinishScanType ==
  ASSUME NEW db \in CatalogType, NEW id, NEW status \in Statuses
  PROVE  /\ FinishScan(db, id, status) \in CatalogType
         /\ FinishScan(db, id, status).source = db.source
         /\ FinishScan(db, id, status).scan =
              {IF r.id = id THEN [r EXCEPT !.status = status] ELSE r : r \in db.scan}
<1>1. \A r \in db.scan :
        (IF r.id = id THEN [r EXCEPT !.status = status] ELSE r)
          \in [id : Rowid, source : Rowid, status : Statuses]
  BY DEF CatalogType
<1>2. QED
  BY <1>1 DEF CatalogType, FinishScan

(* remove_tree, as far as it got, only takes rows away.                    *)
LEMMA RemoveSourcesType ==
  ASSUME NEW db \in CatalogType, NEW done
  PROVE  /\ RemoveSources(db, done) \in CatalogType
         /\ RemoveSources(db, done).source =
              {r \in db.source : ~(r.id \in DOMAIN done /\ done[r.id] >= 5)}
         /\ RemoveSources(db, done).scan =
              {r \in db.scan : ~(r.source \in DOMAIN done /\ done[r.source] >= 4)}
BY DEF CatalogType, RemoveSources

(* When it got to its end, every source and scan row of the tree is gone.  *)
LEMMA RemoveTreeType ==
  ASSUME NEW db \in CatalogType, NEW s
  PROVE  /\ RemoveTree(db, s) \in CatalogType
         /\ RemoveTree(db, s).source = {r \in db.source : r.id # s}
         /\ RemoveTree(db, s).scan = {r \in db.scan : r.source # s}
<1> DEFINE done == Completely({s})
<1>1. \A x : (x \in DOMAIN done /\ done[x] >= 5) <=> x = s
  BY DEF Completely, RemoveSteps
<1>2. \A x : (x \in DOMAIN done /\ done[x] >= 4) <=> x = s
  BY DEF Completely, RemoveSteps
<1> HIDE DEF done
<1>3. RemoveSources(db, done).source = {r \in db.source : r.id # s}
  BY <1>1, RemoveSourcesType
<1>4. RemoveSources(db, done).scan = {r \in db.scan : r.source # s}
  BY <1>2, RemoveSourcesType
<1>5. QED
  BY <1>3, <1>4, RemoveSourcesType DEF RemoveTree, done
=============================================================================
