------------------------------ MODULE Catalog ------------------------------
(***************************************************************************)
(* The tables of an Offline Media Catalog database and the statements the  *)
(* managers of catalog.cpp run on them.  A database content is a record of *)
(* sets of rows; an operator of this module maps the content before a      *)
(* statement to the content after it.  When the statement is run, in which *)
(* transaction, and what happens when it fails is the business of the      *)
(* modules that extend this one.                                           *)
(***************************************************************************)
EXTENDS Naturals

CONSTANTS Places,   \* the directories and files of the file system a user scans
          Items     \* the names found below a scanned place

Rowid == Nat \ {0}
NoId == 0           \* "no parent", "no previous source"

(* The command line names a place with or without a trailing separator.    *)
Paths == [place : Places, sep : BOOLEAN]

Statuses == {"InProgress", "Completed", "Cancelled"}

(* Checksum and container rows both hang off one entry and are deleted     *)
(* together: "side" holds the entry ids that have any.  The full-text      *)
(* table is the set of the rowids it has indexed.                          *)
CatalogType ==
  [source : SUBSET [id : Rowid, path : Paths],
   scan   : SUBSET [id : Rowid, source : Rowid, status : Statuses],
   entry  : SUBSET [id : Rowid, source : Rowid, parent : Nat, item : Items],
   fts    : SUBSET Rowid,
   side   : SUBSET Rowid]

EmptyCatalog ==
  [source |-> {}, scan |-> {}, entry |-> {}, fts |-> {}, side |-> {}]

(* SQLite gives an INTEGER PRIMARY KEY without AUTOINCREMENT the largest   *)
(* rowid plus one, so a rowid freed by a DELETE or a ROLLBACK comes back.  *)
IdsOf(rows) == {r.id : r \in rows}

NewRowids(rows) ==
  {n \in {m + 1 : m \in IdsOf(rows) \cup {0}} : \A m \in IdsOf(rows) : m < n}

EntriesOf(db, s) == {e \in db.entry : e.source = s}
EntryIdsOf(db, s) == IdsOf(EntriesOf(db, s))

-----------------------------------------------------------------------------
(* SourceManager                                                           *)

InsertSource(db, id, path) ==
  [db EXCEPT !.source = @ \cup {[id |-> id, path |-> path]}]

Trimmed(path) == [path EXCEPT !.sep = FALSE]

(* The row find_by_path returns: the first one in rowid order that carries *)
(* the path as given or with its trailing separators stripped.             *)
FindByPath(db, path) ==
  LET matching == {r \in db.source : r.path \in {path, Trimmed(path)}}
  IN  {r.id : r \in {q \in matching : \A o \in matching : q.id <= o.id}}

(* remove_tree deletes the side rows, the full-text rows, the entries, the *)
(* scan rows and the source row, in this order.  done[s] is the number of  *)
(* these steps that have been run for the source s.                        *)
RemoveSteps == 5

RemoveSources(db, done) ==
  LET passed(s, n) == s \in DOMAIN done /\ done[s] >= n
      gone(n) == IdsOf({e \in db.entry : passed(e.source, n)})
  IN  [side   |-> db.side \ gone(1),
       fts    |-> db.fts \ gone(2),
       entry  |-> {e \in db.entry : ~passed(e.source, 3)},
       scan   |-> {r \in db.scan : ~passed(r.source, 4)},
       source |-> {r \in db.source : ~passed(r.id, 5)}]

Completely(sources) == [s \in sources |-> RemoveSteps]

(* Mutants: the full-text rows, which no foreign key guards, are forgotten; *)
(* the scan rows and the source are; the source alone is.                  *)
RemoveTreeKeepsIndex(db, s) ==
  [RemoveSources(db, Completely({s})) EXCEPT !.fts = db.fts]
RemoveTreeKeepsScan(db, s) == RemoveSources(db, [x \in {s} |-> 3])
RemoveTreeKeepsSource(db, s) == RemoveSources(db, [x \in {s} |-> 4])

RemoveTree(db, s) == RemoveSources(db, Completely({s}))

-----------------------------------------------------------------------------
(* ScanManager                                                             *)

InsertScan(db, id, s) ==
  [db EXCEPT !.scan = @ \cup {[id |-> id, source |-> s, status |-> "InProgress"]}]

(* Mutants: the UPDATE lacks its WHERE; it does not set the status.        *)
FinishScanEverywhere(db, id, status) ==
  [db EXCEPT !.scan = {[r EXCEPT !.status = status] : r \in @}]
FinishScanForgotten(db, id, status) == db

FinishScan(db, id, status) ==
  [db EXCEPT !.scan = {IF r.id = id THEN [r EXCEPT !.status = status] ELSE r : r \in @}]

(* Mutants: the query asks for the wrong status; for every unfinished scan. *)
CancelledSources(db) == {r.source : r \in {x \in db.scan : x.status = "Cancelled"}}
UnfinishedSources(db) == {r.source : r \in {x \in db.scan : x.status # "Completed"}}

InProgressSources(db) == {r.source : r \in {x \in db.scan : x.status = "InProgress"}}

-----------------------------------------------------------------------------
(* EntryManager, ChecksumManager and ContainerManager                      *)

(* The foreign keys are checked when the INSERT ends: the source must      *)
(* exist, and so must the parent, which may be the new row itself.         *)
EntryKeysHold(db, id, s, parent) ==
  /\ s \in IdsOf(db.source)
  /\ parent \in IdsOf(db.entry) \cup {NoId, id}

(* Mutant: the parent is not bound.                                        *)
InsertEntryAtRoot(db, id, s, parent, item) ==
  [db EXCEPT !.entry = @ \cup {[id |-> id, source |-> s, parent |-> NoId, item |-> item]}]

InsertEntry(db, id, s, parent, item) ==
  [db EXCEPT !.entry = @ \cup {[id |-> id, source |-> s, parent |-> parent, item |-> item]}]

(* Mutant: the row is not written.                                         *)
InsertFtsForgotten(db, id) == db

InsertFts(db, id) == [db EXCEPT !.fts = @ \cup {id}]
InsertSide(db, id) == [db EXCEPT !.side = @ \cup {id}]

(* build_path climbs parent_id until it reaches a row without a parent or  *)
(* no row at all: it does not return when an entry is its own parent.      *)
BuildPathReturns(db, id) ==
  \A e \in db.entry : e.id = id => e.parent # id

=============================================================================
