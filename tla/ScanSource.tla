----------------------------- MODULE ScanSource -----------------------------
(***************************************************************************)
(* Scanner::scan_source and everything it calls, run by one command-line   *)
(* process after another on the same database file.                        *)
(*                                                                         *)
(* A scan writes a shadow tree under a new source row in batches, and at   *)
(* the end removes the previous tree of the same path and closes its scan  *)
(* row in one transaction.  The process may be killed, interrupted with    *)
(* Ctrl+C, and any of its statements may fail.                             *)
(***************************************************************************)
EXTENDS Catalog, Sequences, FiniteSets

CONSTANTS
  FilePlaces,  \* the places that are a single regular file
  Folders,     \* the items that are directories
  Hashed,      \* the files that get checksum or container rows
  Under,       \* item -> the folder or the place it lies directly in
  Home,        \* item -> the place it lies below
  BatchSize,   \* entries per transaction (BATCH_SIZE, 1000 in the code)
  Seps,        \* the trailing separators the user writes, a set of BOOLEAN
  Trouble,     \* what the outside may do: "cancel", "unreadable", ...
  CrashPoints, \* the control points at which the process may be killed
  Failing,     \* the statements that may fail, their transaction staying open
  Aborting,    \* the statements whose failure rolls the transaction back
  MaxScans     \* bound: how many scans the user starts

ASSUME ScanAssumption ==
  /\ FilePlaces \subseteq Places
  /\ Folders \subseteq Items
  /\ Hashed \subseteq Items
  /\ Items \cap Places = {}
  /\ Under \in [Items -> Folders \cup Places]
  /\ Home \in [Items -> Places]
  /\ BatchSize \in Nat \ {0}
  /\ Seps \subseteq BOOLEAN
  /\ MaxScans \in Nat

VARIABLES
  disk,       \* the committed content of the database file
  work,       \* what the open connection reads: disk plus its transaction
  intxn,      \* is a transaction open on the connection
  pc,         \* the point scan_source has reached, "idle" between scans
  path,       \* its argument
  old,        \* old_source_id, NoId when nothing is replaced
  sid,        \* source_id of the shadow tree
  scid,       \* scan_id
  stack,      \* the activations of scan_directory, innermost first
  cur,        \* the entry the innermost activation is busy with
  batch,      \* batch_counter_ modulo BatchSize
  active,     \* Transaction::active_ of the switch
  cancelled,  \* the flag of the CancellationManager
  skipped,    \* the items that errors_ counts as missing
  result,     \* what the last scan_source returned
  scans       \* how many scans were started

dbVars == <<disk, work, intxn>>
jobVars == <<path, old, sid, scid>>
walkVars == <<stack, cur, batch>>
vars == <<dbVars, pc, jobVars, walkVars, active, cancelled, skipped, result, scans>>

Children(dir) == {i \in Items : Under[i] = dir}
Listing(place) == {i \in Items : Home[i] = place}

(* Items lie below the place that the folder they are in lies below, no    *)
(* folder lies in itself, and a place that is a file is its only item.     *)
ASSUME FileSystemAssumption ==
  /\ \A i \in Items : Home[i] = IF Under[i] \in Places THEN Under[i] ELSE Home[Under[i]]
  /\ \A S \in SUBSET Items : (\A i \in S : Under[i] \in S) => S = {}
  /\ \A p \in FilePlaces : \E i \in Items : Under[i] = p /\ Listing(p) = {i}

Cursor == [id : Nat, item : Items \cup Places]
Frames == [id : Nat, dir : Items \cup Places, todo : SUBSET Items]
AtRoot == [id |-> NoId, item |-> path.place]

Labels ==
  {"idle", "recover", "lookup", "newsource", "newscan", "begin", "open", "walk",
   "index", "batch", "entry", "unwind", "file", "cancelled", "failed", "commit",
   "switch", "close", "swcommit", "drop", "done"}

Results == {"none", "running", "ok", "error", "cancelled", "crashed"}

TypeOK ==
  /\ disk \in CatalogType
  /\ work \in CatalogType
  /\ intxn \in BOOLEAN
  /\ pc \in Labels
  /\ path \in Paths
  /\ old \in Nat
  /\ sid \in Nat
  /\ scid \in Nat
  /\ stack \in Seq(Frames)
  /\ cur \in Cursor
  /\ batch \in 0 .. BatchSize - 1
  /\ active \in BOOLEAN
  /\ cancelled \in BOOLEAN
  /\ skipped \subseteq Items \cup Places
  /\ result \in Results
  /\ scans \in 0 .. MaxScans

Init ==
  /\ disk = EmptyCatalog
  /\ work = EmptyCatalog
  /\ intxn = FALSE
  /\ pc = "idle"
  /\ path \in [place : Places, sep : {FALSE}]
  /\ old = NoId
  /\ sid = NoId
  /\ scid = NoId
  /\ stack = << >>
  /\ cur = AtRoot
  /\ batch = 0
  /\ active = FALSE
  /\ cancelled = FALSE
  /\ skipped = {}
  /\ result = "none"
  /\ scans = 0

-----------------------------------------------------------------------------
(* The SQLite connection.  A statement outside a transaction commits by    *)
(* itself.  A failing statement either leaves the transaction open or, as  *)
(* a full disk or an I/O error does, rolls it back behind the program.     *)

Run(content) ==
  /\ work' = content
  /\ disk' = IF intxn THEN disk ELSE content
  /\ UNCHANGED intxn

RolledBack ==
  /\ intxn
  /\ work' = disk
  /\ intxn' = FALSE
  /\ UNCHANGED disk

Fails(statement) ==
  \/ statement \in Failing /\ UNCHANGED dbVars
  \/ statement \in Aborting /\ RolledBack

Commits ==
  /\ intxn
  /\ disk' = work
  /\ intxn' = FALSE
  /\ UNCHANGED work

CommitFails(statement) ==
  \/ ~intxn /\ UNCHANGED dbVars
  \/ intxn /\ Fails(statement)

(* Leaving scan_source ends the process and closes the connection, which   *)
(* rolls an open transaction back; content is what is left in the file.    *)
Return(code, content) ==
  /\ disk' = content
  /\ work' = content
  /\ intxn' = FALSE
  /\ pc' = "idle"
  /\ result' = code
  /\ old' = NoId
  /\ scid' = NoId
  /\ stack' = << >>
  /\ cur' = AtRoot
  /\ batch' = 0
  /\ active' = FALSE
  /\ UNCHANGED <<path, sid, cancelled, skipped, scans>>

-----------------------------------------------------------------------------
(* Before the walk                                                         *)

StartScan ==
  /\ pc = "idle"
  /\ scans < MaxScans
  /\ path' \in [place : Places, sep : Seps]
  /\ cur' = [id |-> NoId, item |-> path'.place]
  /\ pc' = "recover"
  /\ sid' = NoId
  /\ skipped' = {}
  /\ cancelled' = FALSE
  /\ result' = "running"
  /\ scans' = scans + 1
  /\ UNCHANGED <<dbVars, old, scid, stack, batch, active>>

(* Recovery runs remove_tree for every leftover in one transaction; a tree *)
(* it fails on is passed over and the rest is committed all the same.      *)
Recover ==
  /\ pc = "recover"
  /\ LET orphans == InProgressSources(work)
     IN  \/ Run(RemoveSources(work, Completely(orphans)))
         \/ /\ "recover" \in Failing
            /\ \E done \in [orphans -> 0 .. RemoveSteps] :
                 Run(RemoveSources(work, done))
  /\ pc' = "lookup"
  /\ UNCHANGED <<jobVars, walkVars, active, cancelled, skipped, result, scans>>

LookUp ==
  /\ pc = "lookup"
  /\ \/ /\ \/ old' \in FindByPath(work, path)
           \/ /\ FindByPath(work, path) = {} \/ "lookup" \in Failing
              /\ old' = NoId
        /\ pc' = "newsource"
        /\ UNCHANGED <<dbVars, path, sid, scid, walkVars, active, cancelled, skipped,
                       result, scans>>
     \/ /\ "lookup" \in Failing
        /\ Return("error", disk)

CreateSource ==
  /\ pc = "newsource"
  /\ \/ /\ \E id \in NewRowids(work.source) :
             /\ Run(InsertSource(work, id, path))
             /\ sid' = id
        /\ pc' = "newscan"
        /\ UNCHANGED <<path, old, scid, walkVars, active, cancelled, skipped, result, scans>>
     \/ /\ "source" \in Failing
        /\ Return("error", disk)

CreateScan ==
  /\ pc = "newscan"
  /\ \/ /\ \E id \in NewRowids(work.scan) :
             /\ Run(InsertScan(work, id, sid))
             /\ scid' = id
        /\ pc' = "begin"
        /\ UNCHANGED <<path, old, sid, walkVars, active, cancelled, skipped, result, scans>>
     \/ /\ "scan" \in Failing
        /\ Return("error", disk)

(* BEGIN, then the kind of the path is looked at again: it may be gone.    *)
BeginScan ==
  /\ pc = "begin"
  /\ intxn' = TRUE
  /\ \/ pc' = IF path.place \in FilePlaces THEN "file" ELSE "open"
     \/ "vanish" \in Trouble /\ pc' = "failed"
  /\ UNCHANGED <<disk, work, jobVars, walkVars, active, cancelled, skipped, result, scans>>

-----------------------------------------------------------------------------
(* The walk: scan_directory, one activation per frame of the stack         *)

Innermost == Head(stack)

(* errors_++ for an item.                                                  *)
CountNothing(item) == skipped' = skipped   \* Mutant: the failure is not counted.

CountError(item) == skipped' = skipped \cup {item}

(* The stack and the next point when an activation has returned.           *)
StillInside == stack              \* Mutant: the caller does not go on.

Outer == Tail(stack)
AfterReturn(outermost) == IF Tail(stack) = << >> THEN outermost ELSE "walk"

BatchUnbounded == batch + 1        \* Mutant: the counter is not reset.

NextBatch == (batch + 1) % BatchSize

(* Entering scan_directory: the cancel check, then the directory iterator. *)
(* A directory that cannot be listed gives an iterator that is at its end. *)
OpenDirectory ==
  /\ pc = "open"
  /\ ~cancelled
  /\ \E todo \in {Children(cur.item)} \cup (IF "unlistable" \in Trouble THEN {{}} ELSE {}) :
       stack' = <<[id |-> cur.id, dir |-> cur.item, todo |-> todo]>> \o stack
  /\ pc' = "walk"
  /\ UNCHANGED <<dbVars, jobVars, cur, batch, active, cancelled, skipped, result, scans>>

(* An iterator whose increment fails is at its end, too.                   *)
LoseListing ==
  /\ pc = "walk"
  /\ "unlistable" \in Trouble
  /\ Innermost.todo # {}
  /\ stack' = <<[Innermost EXCEPT !.todo = {}]>> \o Tail(stack)
  /\ UNCHANGED <<dbVars, pc, jobVars, cur, batch, active, cancelled, skipped, result, scans>>

(* One turn of the loop, as far as the insertion of the entry: an entry    *)
(* whose status or row fails is counted and passed over.                   *)
VisitEntry ==
  /\ pc = "walk"
  /\ ~cancelled
  /\ \E item \in Innermost.todo :
       /\ stack' = <<[Innermost EXCEPT !.todo = @ \ {item}]>> \o Tail(stack)
       /\ \/ \E id \in NewRowids(work.entry) :
               /\ EntryKeysHold(work, id, sid, Innermost.id)
               /\ Run(InsertEntry(work, id, sid, Innermost.id, item))
               /\ cur' = [id |-> id, item |-> item]
               /\ pc' = "index"
               /\ UNCHANGED skipped
          \/ /\ \/ "unreadable" \in Trouble /\ UNCHANGED dbVars
                \/ Fails("entry")
                \/ /\ \E id \in NewRowids(work.entry) :
                        ~EntryKeysHold(work, id, sid, Innermost.id)
                   /\ UNCHANGED dbVars
             /\ CountError(item)
             /\ UNCHANGED <<pc, cur>>
  /\ UNCHANGED <<jobVars, batch, active, cancelled, result, scans>>

(* build_path, insert_fts (a failure is only logged) and batch_counter_.   *)
IndexEntry ==
  /\ pc = "index"
  /\ BuildPathReturns(work, cur.id)
  /\ \/ cur.id \notin work.fts /\ Run(InsertFts(work, cur.id))
     \/ cur.id \in work.fts /\ UNCHANGED dbVars
     \/ Fails("fts")
  /\ batch' = NextBatch
  /\ pc' = IF batch' = 0 THEN "batch" ELSE "entry"
  /\ UNCHANGED <<jobVars, stack, cur, active, cancelled, skipped, result, scans>>

(* COMMIT; BEGIN.                                                          *)
CommitBatch ==
  /\ pc = "batch"
  /\ \/ /\ intxn
        /\ disk' = work
        /\ UNCHANGED <<work, intxn>>
        /\ pc' = "entry"
     \/ /\ CommitFails("batch")
        /\ pc' = "unwind"
  /\ UNCHANGED <<jobVars, walkVars, active, cancelled, skipped, result, scans>>

(* The rest of the turn: a folder is entered, a file gets its checksums    *)
(* and container rows, whose failure is only logged or counted.            *)
FinishEntry ==
  /\ pc = "entry"
  /\ IF cur.item \in Folders
     THEN pc' = "open" /\ UNCHANGED dbVars
     ELSE /\ pc' = "walk"
          /\ \/ /\ cur.item \in Hashed
                /\ IF cur.id \in IdsOf(work.entry)
                   THEN Run(InsertSide(work, cur.id))
                   ELSE UNCHANGED dbVars
             \/ cur.item \notin Hashed /\ UNCHANGED dbVars
             \/ cur.item \in Hashed /\ Fails("side")
  /\ UNCHANGED <<jobVars, walkVars, active, cancelled, skipped, result, scans>>

LeaveDirectory ==
  /\ pc = "walk"
  /\ Innermost.todo = {}
  /\ stack' = Outer
  /\ pc' = AfterReturn("commit")
  /\ UNCHANGED <<dbVars, jobVars, cur, batch, active, cancelled, skipped, result, scans>>

(* An error ends the innermost activation.  Its caller, when that is       *)
(* another scan_directory, counts it against the folder and goes on.       *)
LeaveOnError ==
  /\ pc = "unwind"
  /\ stack' = Outer
  /\ pc' = AfterReturn("failed")
  /\ IF pc' = "failed" THEN UNCHANGED skipped ELSE CountError(Innermost.dir)
  /\ UNCHANGED <<dbVars, jobVars, cur, batch, active, cancelled, result, scans>>

(* Every activation hands the cancellation on to scan_source.              *)
StopWalk ==
  /\ cancelled
  /\ \/ pc = "open"
     \/ pc = "walk" /\ Innermost.todo # {}
  /\ pc' = "cancelled"
  /\ stack' = << >>
  /\ UNCHANGED <<dbVars, jobVars, cur, batch, active, cancelled, skipped, result, scans>>

(* scan_file_entry: no batch, no full-text row, no look at the flag.  That *)
(* a checksum or container row fails is only logged, even if the entry is  *)
(* rolled back with it.                                                    *)
ScanFile ==
  /\ pc = "file"
  /\ \/ /\ \E id \in NewRowids(work.entry), item \in Children(path.place) :
             \E side \in {{}} \cup (IF item \in Hashed THEN {{id}} ELSE {}) :
               /\ side = {} => item \notin Hashed \/ "side" \in Failing
               /\ Run([InsertEntry(work, id, sid, NoId, item) EXCEPT !.side = @ \cup side])
        /\ pc' = "commit"
     \/ /\ "side" \in Aborting /\ RolledBack
        /\ Children(path.place) \cap Hashed # {}
        /\ pc' = "commit"
     \/ /\ Fails("entry")
        /\ pc' = "failed"
  /\ UNCHANGED <<jobVars, walkVars, active, cancelled, skipped, result, scans>>

-----------------------------------------------------------------------------
(* The end of scan_source.  Each of the three first actions begins with a  *)
(* ROLLBACK, so it goes on from the content of the file.                   *)

(* Mutant: the wrong tree is dropped.                                      *)
DropOld(content) ==
  {RemoveTree(content, old)} \cup (IF "drop" \in Failing THEN {content} ELSE {})

DropShadow(content) ==
  {RemoveTree(content, sid)} \cup (IF "drop" \in Failing THEN {content} ELSE {})

CancelFirstScan ==
  /\ pc = "cancelled"
  /\ old = NoId
  /\ \/ Return("ok", FinishScan(disk, scid, "Cancelled"))
     \/ "finish" \in Failing /\ Return("ok", disk)

CancelReplacement ==
  /\ pc = "cancelled"
  /\ old # NoId
  /\ \E content \in DropShadow(disk) : Return("cancelled", content)

FailScan ==
  /\ pc = "failed"
  /\ \E content \in DropShadow(disk) : Return("error", content)

CommitScan ==
  /\ pc = "commit"
  /\ Commits \/ CommitFails("final")
  /\ pc' = "switch"
  /\ UNCHANGED <<jobVars, walkVars, active, cancelled, skipped, result, scans>>

(* The switch: the constructor of Transaction, whose BEGIN fails when the  *)
(* previous COMMIT did and left its transaction open, and remove_tree.     *)
SwitchErrorIgnored == "done"       \* Mutant: switch_error is not looked at.

AfterSwitchError == "drop"

RemoveOld ==
  /\ pc = "switch"
  /\ active' = ~intxn
  /\ \/ /\ old = NoId
        /\ intxn' = TRUE
        /\ pc' = "close"
        /\ UNCHANGED <<disk, work>>
     \/ /\ old # NoId
        /\ intxn' = TRUE
        /\ work' = RemoveTree(work, old)
        /\ pc' = "close"
        /\ UNCHANGED disk
     \/ /\ old # NoId
        /\ "remove" \in Failing \cup Aborting
        /\ active' \/ "remove" \in Aborting
        /\ work' = disk
        /\ intxn' = FALSE
        /\ pc' = AfterSwitchError
        /\ UNCHANGED disk
     \/ /\ old # NoId
        /\ "remove" \in Failing
        /\ ~active'
        /\ pc' = AfterSwitchError
        /\ UNCHANGED dbVars
  /\ UNCHANGED <<jobVars, walkVars, cancelled, skipped, result, scans>>

CloseScan ==
  /\ pc = "close"
  /\ \/ Run(FinishScan(work, scid, IF cancelled THEN "Cancelled" ELSE "Completed"))
     \/ Fails("finish")
  /\ pc' = "swcommit"
  /\ UNCHANGED <<jobVars, walkVars, active, cancelled, skipped, result, scans>>

(* Transaction::commit, and the destructor's ROLLBACK when it fails.       *)
CommitSwitch ==
  /\ pc = "swcommit"
  /\ \/ active /\ Commits /\ pc' = "done"
     \/ /\ active
        /\ ~intxn \/ "switch" \in Failing \cup Aborting
        /\ work' = disk
        /\ intxn' = FALSE
        /\ UNCHANGED disk
        /\ pc' = AfterSwitchError
     \/ ~active /\ UNCHANGED dbVars /\ pc' = AfterSwitchError
  /\ UNCHANGED <<jobVars, walkVars, active, cancelled, skipped, result, scans>>

(* drop_shadow cannot commit what an open transaction holds.               *)
DropAfterSwitch ==
  /\ pc = "drop"
  /\ \E content \in IF intxn THEN {disk} ELSE DropShadow(disk) : Return("error", content)

(* optimize_fts and VACUUM change no row, and their failure is only logged. *)
Finish ==
  /\ pc = "done"
  /\ Return("ok", disk)

-----------------------------------------------------------------------------
(* The outside                                                             *)

Interrupt ==
  /\ "cancel" \in Trouble
  /\ pc # "idle"
  /\ ~cancelled
  /\ cancelled' = TRUE
  /\ UNCHANGED <<dbVars, pc, jobVars, walkVars, active, skipped, result, scans>>

Crash ==
  /\ pc \in CrashPoints
  /\ Return("crashed", disk)

(* Bound: after MaxScans scans the user leaves the catalogue alone.        *)
Rest ==
  /\ pc = "idle"
  /\ scans = MaxScans
  /\ UNCHANGED vars

ScannerStep ==
  \/ Recover \/ LookUp \/ CreateSource \/ CreateScan \/ BeginScan
  \/ OpenDirectory \/ LoseListing \/ VisitEntry \/ IndexEntry \/ CommitBatch
  \/ FinishEntry \/ LeaveDirectory \/ LeaveOnError \/ StopWalk \/ ScanFile
  \/ CancelFirstScan \/ CancelReplacement \/ FailScan \/ CommitScan
  \/ RemoveOld \/ CloseScan \/ CommitSwitch \/ DropAfterSwitch \/ Finish

Next == StartScan \/ ScannerStep \/ Interrupt \/ Crash \/ Rest

Spec == Init /\ [][Next]_vars

FairSpec == Spec /\ WF_vars(ScannerStep)

-----------------------------------------------------------------------------
(* What the catalogue shows                                                *)

SettledScans(db) == {r \in db.scan : r.status # "InProgress"}
SettledIds(db) == {r.source : r \in SettledScans(db)}
Settled(db, place) == {r \in db.source : r.path.place = place /\ r.id \in SettledIds(db)}
ItemsOf(db, s) == {e.item : e \in EntriesOf(db, s)}

Tree(db, s) ==
  [entry |-> EntriesOf(db, s),
   fts   |-> db.fts \cap EntryIdsOf(db, s),
   side  |-> db.side \cap EntryIdsOf(db, s),
   scan  |-> {r \in db.scan : r.source = s}]

(* Every row's owner exists and is the only one with its rowid: no entry,  *)
(* full-text, checksum or container row survives the tree it came with     *)
(* (catalog.cpp remove_tree; entry_fts has no foreign key).                *)
NoDanglingRows ==
  /\ \A a, b \in disk.source : a.id = b.id => a = b
  /\ \A a, b \in disk.entry : a.id = b.id => a = b
  /\ \A r \in disk.scan : r.source \in IdsOf(disk.source)
  /\ \A e \in disk.entry : e.source \in IdsOf(disk.source)
  /\ disk.fts \cup disk.side \subseteq IdsOf(disk.entry)

(* At most one finished tree of a place is in the file, at every moment a  *)
(* reader may look (scan_source replaces "instead of accumulating").       *)
OneTreePerPlace ==
  \A place \in Places : \A a, b \in Settled(disk, place) : a = b

(* A place that has a finished tree never loses its last one, whatever     *)
(* step of a later scan is killed, cancelled or fails.                     *)
NeverLost ==
  [][\A place \in Places :
       Settled(disk, place) # {} => Settled(disk', place) # {}]_vars

(* A finished tree is never altered: until remove_tree takes it away it    *)
(* keeps its entries, index rows, side rows and scan row.                  *)
SettledTreesUntouched ==
  [][\A s \in SettledIds(disk) \cap SettledIds(disk') :
       Tree(disk', s) = Tree(disk, s)]_vars

(* Every committed tree hangs together, even one cut off at a batch        *)
(* boundary: each entry's parent is the entry of its folder in the same    *)
(* source, and no item is there twice.                                     *)
TreesHangTogether ==
  /\ \A e \in disk.entry :
       IF Under[e.item] \in Places
       THEN e.parent = NoId
       ELSE \E f \in EntriesOf(disk, e.source) :
              f.id = e.parent /\ f.item = Under[e.item]
  /\ \A e, f \in disk.entry : e.source = f.source /\ e.item = f.item => e = f

(* The scan just run marked its tree Completed only when each listed item  *)
(* is in the tree, was counted in errors_, or lies below such an item.     *)
CompletedIsComplete ==
  \A r \in disk.scan :
    r.source = sid /\ r.status = "Completed" =>
      \A i \in Listing(path.place) :
        \/ i \in ItemsOf(disk, sid) \cup skipped
        \/ Under[i] \in skipped
        \/ Under[i] \in Items \ ItemsOf(disk, sid)

(* Whatever a dead scan left is marked InProgress, the mark by which       *)
(* recover_orphaned_scans finds it: only the scan that is creating its     *)
(* records has a source without a scan row.                                *)
LeftoversAreMarked ==
  \A r \in disk.source :
    (\E x \in disk.scan : x.source = r.id) \/ (pc = "newscan" /\ r.id = sid)

(* When the new tree is written no leftover of an earlier scan is in the   *)
(* catalogue any more.                                                     *)
NoLeftoverBesideScan ==
  pc \notin {"idle", "recover"} =>
    \A r \in disk.scan : r.status = "InProgress" => r.source = sid

(* What scan_source returns is what the catalogue then shows: after a      *)
(* source id its tree is finished, after an error or a cancellation none   *)
(* of the new tree is.                                                     *)
ResultIsHonest ==
  pc = "idle" =>
    /\ result = "ok" =>
         [id |-> sid, path |-> path] \in Settled(disk, path.place)
    /\ result \in {"error", "cancelled"} => sid \notin SettledIds(disk)

(* Every entry of a finished directory tree can be found by a search.      *)
SettledTreesAreIndexed ==
  \A place \in Places \ FilePlaces : \A r \in Settled(disk, place) :
    EntryIdsOf(disk, r.id) \subseteq disk.fts

(* Cancelling a first scan keeps every entry that was scanned so far.      *)
CancelKeepsScanned ==
  [][pc = "cancelled" /\ old = NoId =>
       EntriesOf(disk', sid) = EntriesOf(work, sid)]_vars

(* A scan that is started ends, whatever happens to it.                    *)
ScanEnds == pc # "idle" ~> pc = "idle"

(* What the catalogue shows of each place, for AtomicCatalog.              *)
Shown ==
  [place \in Places |->
     IF Settled(disk, place) = {}
     THEN [status |-> "none", items |-> {}]
     ELSE LET s == CHOOSE r \in Settled(disk, place) : TRUE
          IN  [status |-> (CHOOSE r \in disk.scan : r.source = s.id).status,
               items  |-> ItemsOf(disk, s.id)]]

Promise == INSTANCE AtomicCatalog WITH shown <- Shown

(* The scans implement the atomic catalogue.                               *)
ScansAreAtomic == Promise!Spec

=============================================================================
