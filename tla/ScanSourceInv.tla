---------------------------- MODULE ScanSourceInv ---------------------------
(***************************************************************************)
(* The inductive invariants behind the properties of ScanSource: what is   *)
(* known at each control point of the records of the running scan and of   *)
(* the switch (IInv), of the rows that hang off them (RowsInv), of what    *)
(* earlier scans have left (LeftInv, PlaceInv, HonestInv), of the shape    *)
(* of the trees, their search entries and what they miss (TreeInv,         *)
(* IndexInv, CompleteInv), and of the abstract catalogue (AtomicInv).      *)
(***************************************************************************)
EXTENDS ScanSource

(* Which control points have the scan's source row, and its scan row.      *)
BeforeRecords == {"idle", "recover", "lookup", "newsource"}
RecordPoints == Labels \ BeforeRecords
OpenScanPoints == RecordPoints \ {"newscan", "done"}

(* The points at which the open transaction holds entries only.            *)
EntryPoints ==
  {"begin", "open", "walk", "index", "batch", "entry", "unwind", "file",
   "cancelled", "failed", "commit", "switch"}

KeysOK(db) ==
  /\ \A a, b \in db.source : a.id = b.id => a = b
  /\ \A x, y \in db.scan : x.id = y.id \/ x.source = y.source => x = y
  /\ \A x \in db.scan : x.source \in IdsOf(db.source)

SameRecords(db1, db2) == db1.source = db2.source /\ db1.scan = db2.scan

(* The activations of scan_directory and the entry they are busy with.     *)
WalkOK ==
  /\ pc \in {"walk", "index", "batch", "entry", "unwind"} => stack # << >>
  /\ pc \in {"index", "batch", "entry"} => cur.id \in Rowid
  /\ pc \in RecordPoints => sid \in Rowid

ConnectionOK ==
  /\ ~intxn => work = disk
  /\ pc \in BeforeRecords \cup {"newscan", "begin", "done"} => ~intxn
  /\ pc = "close" => intxn
  /\ pc \in EntryPoints => SameRecords(work, disk)

(* The records of the running scan, and the tree it is to replace.         *)
RecordsOK ==
  /\ pc \in RecordPoints => [id |-> sid, path |-> path] \in disk.source
  /\ pc \in RecordPoints => old # sid
  /\ pc = "newscan" => \A x \in disk.scan : x.source # sid
  /\ pc \in OpenScanPoints =>
       [id |-> scid, source |-> sid, status |-> "InProgress"] \in disk.scan
  /\ pc = "newsource" => old \in IdsOf(disk.source) \cup {NoId}
  /\ pc \in RecordPoints \cup {"newsource"} =>
       \A r \in disk.source : r.id = old => r.path.place = path.place

(* The status the switch leaves in the scan row: when finish fails and the *)
(* program does not look at it, the row stays as it is.                    *)
ClosingStatuses ==
  {"Completed", "Cancelled"} \cup (IF "finish" \in Failing THEN {"InProgress"} ELSE {})

(* What the transaction of the switch is going to commit.                  *)
SwitchOK ==
  /\ pc \in {"close", "swcommit"} /\ intxn =>
       work.source = {r \in disk.source : r.id # old}
  /\ pc = "close" => work.scan = {x \in disk.scan : x.source # old}
  /\ pc = "swcommit" /\ intxn =>
       \E status \in ClosingStatuses :
         work.scan = {IF x.id = scid THEN [x EXCEPT !.status = status] ELSE x :
                        x \in {y \in disk.scan : y.source # old}}

(* At each control point of scan_source the shadow tree has its source row *)
(* and, until the switch, one InProgress scan row; the tree to replace is  *)
(* another one of the same path; and the transaction of the switch holds   *)
(* the removal of the old tree and the closed scan row, nothing else.  It  *)
(* is what every step needs to know: the conjunction is inductive.         *)
IInv ==
  /\ TypeOK
  /\ WalkOK
  /\ ConnectionOK
  /\ KeysOK(disk)
  /\ RecordsOK
  /\ SwitchOK

-----------------------------------------------------------------------------
(* The rows that hang off a source                                         *)

(* Every entry has a source and a rowid of its own, every full-text and    *)
(* side row an entry.                                                      *)
EntriesOK(db) ==
  /\ \A a, b \in db.entry : a.id = b.id => a = b
  /\ \A e \in db.entry : e.source \in IdsOf(db.source)
  /\ db.fts \cup db.side \subseteq IdsOf(db.entry)

(* db2 still has the trees of db1, except perhaps those of S.              *)
TreesKept(db1, db2, S) ==
  \A s \in IdsOf(db1.source) \ S : Tree(db2, s) = Tree(db1, s)

(* Neither what is committed nor what the open transaction holds has a     *)
(* dangling row; the transaction has touched the shadow tree and, at the   *)
(* switch, the tree it replaces, and no other; and the entry the walk is   *)
(* busy with is, if it is still there, one of the shadow tree.             *)
RowsInv ==
  /\ IInv
  /\ EntriesOK(disk)
  /\ EntriesOK(work)
  /\ pc \in EntryPoints => TreesKept(disk, work, {sid})
  /\ pc \in {"close", "swcommit"} /\ intxn => TreesKept(disk, work, {sid, old})
  /\ pc = "index" => cur.id \in IdsOf(work.entry)
  /\ pc \in {"index", "batch", "entry"} =>
       \A e \in work.entry : e.id = cur.id => e.source = sid

-----------------------------------------------------------------------------
(* What earlier scans have left, and what scan_source says of its own      *)

(* Every source has a scan row, whose status the next recovery looks at.   *)
LeftInv == IInv /\ LeftoversAreMarked

(* Recovery has removed every unfinished tree before the running scan      *)
(* creates its own.                                                        *)
OnlyShadowOpen ==
  /\ NoLeftoverBesideScan
  /\ pc \in {"lookup", "newsource"} => \A r \in disk.scan : r.status # "InProgress"

OpenInv == IInv /\ OnlyShadowOpen

(* Names are written without a trailing separator, and the tree that is to *)
(* be replaced is the only finished one of the scanned place.              *)
PlaceInv ==
  /\ IInv
  /\ LeftoversAreMarked
  /\ OnlyShadowOpen
  /\ OneTreePerPlace
  /\ ~path.sep /\ \A r \in disk.source : ~r.path.sep
  /\ pc \in {"newsource"} \cup (RecordPoints \ {"done"}) =>
       \A r \in Settled(disk, path.place) : r.id = old

(* What scan_source has to show for the result it is going to return.      *)
HonestInv ==
  /\ IInv
  /\ ResultIsHonest
  /\ pc # "idle" => result = "running"
  /\ pc \in {"recover", "lookup", "newsource"} => sid = NoId
  /\ pc = "done" => [id |-> sid, path |-> path] \in Settled(disk, path.place)

-----------------------------------------------------------------------------
(* The walk and the tree it writes                                         *)

(* The walk begins at the scanned place, with an empty shadow tree.        *)
StartPoints == {"recover", "lookup", "newsource", "newscan", "begin"}

StartInv ==
  /\ RowsInv
  /\ pc \in {"recover", "lookup", "newsource"} => sid = NoId
  /\ pc \in StartPoints => cur = AtRoot
  /\ pc \in StartPoints \cup {"idle"} => stack = << >>
  /\ pc \in {"newscan", "begin", "file"} => EntriesOf(work, sid) = {}
  /\ pc = "file" => path.place \in FilePlaces

(* What TreesHangTogether says of the file, said of any content.           *)
Hangs(db) ==
  /\ \A e \in db.entry :
       IF Under[e.item] \in Places
       THEN e.parent = NoId
       ELSE \E f \in EntriesOf(db, e.source) :
              f.id = e.parent /\ f.item = Under[e.item]
  /\ \A e, f \in db.entry : e.source = f.source /\ e.item = f.item => e = f

(* An activation or an entry about to be opened stands for the place that  *)
(* is scanned or for an entry of the shadow tree.                          *)
StandsFor(tree, place, id, dir) ==
  \/ id = NoId /\ dir = place
  \/ \E e \in tree : e.id = id /\ e.item = dir

WalkPoints == {"open", "walk", "index", "batch", "entry", "unwind"}
BusyPoints == {"open", "index", "batch", "entry"}

(* Each activation lists items of its own folder that are not in the tree  *)
(* yet, no folder is open twice, and the folder that is entered next is    *)
(* not open and has nothing below it in the tree.                          *)
ActivationsOK ==
  /\ \A k \in 1 .. Len(stack) :
       /\ StandsFor(EntriesOf(work, sid), path.place, stack[k].id, stack[k].dir)
       /\ stack[k].todo \subseteq Children(stack[k].dir)
       /\ \A e \in EntriesOf(work, sid) : e.item \notin stack[k].todo
  /\ \A j, k \in 1 .. Len(stack) : stack[j].dir = stack[k].dir => j = k
  /\ pc \in BusyPoints =>
       /\ StandsFor(EntriesOf(work, sid), path.place, cur.id, cur.item)
       /\ \A k \in 1 .. Len(stack) : stack[k].dir # cur.item
       /\ \A e \in EntriesOf(work, sid) : Under[e.item] # cur.item

TreeInv ==
  /\ StartInv
  /\ Hangs(disk)
  /\ Hangs(work)
  /\ pc \in WalkPoints \cup {"file"} => intxn
  /\ pc \in WalkPoints => ActivationsOK

(* Every entry of the shadow tree of a folder has its full-text row, but   *)
(* the one whose row is written next; and so has every finished tree.      *)
Indexing == IF pc = "index" THEN {cur.id} ELSE {}

ShadowIndexed(db, late) == \A e \in EntriesOf(db, sid) : e.id \in db.fts \cup late

IndexInv ==
  /\ StartInv
  /\ SettledTreesAreIndexed
  /\ pc \in RecordPoints /\ path.place \notin FilePlaces =>
       ShadowIndexed(work, Indexing) /\ (intxn => ShadowIndexed(disk, {}))

(* An item that the walk has accounted for: it is in the tree or counted,  *)
(* or the folder it lies in is counted or not in the tree.                 *)
Accounted(i, found, missed) ==
  \/ i \in found \cup missed
  \/ Under[i] \in missed
  \/ Under[i] \in Items \ found

(* The others are still to come.                                           *)
Pending(i) ==
  \/ \E k \in 1 .. Len(stack) : stack[k].dir = Under[i] /\ i \in stack[k].todo
  \/ pc \in BusyPoints /\ cur.item = Under[i]

ClosePoints == {"commit", "switch", "close", "swcommit"}

CompleteInv ==
  /\ TreeInv
  /\ CompletedIsComplete
  /\ pc # "unwind"
  /\ pc \in {"index", "batch", "entry"} => cur.item \in Items
  /\ pc \in WalkPoints =>
       \A i \in Listing(path.place) :
         Accounted(i, ItemsOf(work, sid), skipped) \/ Pending(i)
  /\ pc \in ClosePoints /\ (pc = "swcommit" => intxn) =>
       \A i \in Listing(path.place) : Accounted(i, ItemsOf(work, sid), skipped)
-----------------------------------------------------------------------------
(* What a reader is shown                                                  *)

(* The shadow tree has items of the scanned place only.                    *)
ShadowBelow ==
  pc \in RecordPoints =>
    \A e \in disk.entry \cup work.entry : e.source = sid => Home[e.item] = path.place

(* Behind the refinement of AtomicCatalog: a place shows one tree, and the *)
(* shadow tree that is to take its place will have all its items, and none *)
(* of another place, by the time it is shown.                              *)
AtomicInv ==
  /\ PlaceInv
  /\ CompleteInv
  /\ skipped = {}
  /\ ShadowBelow
=============================================================================
