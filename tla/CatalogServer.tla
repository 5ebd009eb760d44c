--------------------------- MODULE CatalogServer ---------------------------
(***************************************************************************)
(* "offcat serve" beside the commands that write the catalogue.  Every     *)
(* connection has a thread of its own, and all threads share one read-only *)
(* SQLite connection.  A writing command (scan, or create, search and info *)
(* which only bring the schema up to date) is another process; what it     *)
(* does is shown one committed transaction at a time (ScanSource has its   *)
(* single statements), and it may be killed between any two of them.       *)
(*                                                                         *)
(* SQLite lets a connection see one state of the file as long as any of    *)
(* its statements is in the middle of its rows.  Only SearchEngine::search *)
(* runs other statements between two rows of its own, so only an open      *)
(* search outlives a step, and it fixes the state for all threads.         *)
(***************************************************************************)
EXTENDS Catalog, Sequences, FiniteSets

CONSTANTS
  Handlers,     \* the connection threads
  Requests,     \* thread -> what its clients ask for
  Walk,         \* place -> its items in the order of the walk
  Up,           \* item -> the position of its folder in that walk, 0 for none
  Files,        \* the places that are single files
  FtsFails,     \* the items whose row in the full-text index may fail
  Before,       \* the catalogues there may be in the beginning
  MaxHeader,    \* chunks of a request header (the code: 65536 bytes)
  MaxCommands,  \* bound: writing commands run
  Killable      \* the points of a command at which it may be killed

Apis == {"page", "stats", "sources", "tree", "entry", "search"}

ASSUME ServerAssumption ==
  /\ Requests \in [Handlers -> SUBSET [api : Apis, id : Nat, source : Nat]]
  /\ Walk \in [Places -> Seq(Items)]
  /\ Up \in [Items -> Nat]
  /\ \A place \in Places : \A i \in DOMAIN Walk[place] : Up[Walk[place][i]] < i
  /\ Files \subseteq Places
  /\ FtsFails \subseteq Items
  /\ Before \subseteq [place : Places, index : {"contentless", "regular"}]
  /\ MaxHeader \in Nat
  /\ MaxCommands \in Nat

VARIABLES
  file,     \* what is committed
  writer,   \* the writing command
  commands, \* how many have been started
  snap,     \* the state the read-only connection is held at, if any
  conn      \* thread -> its connection

vars == <<file, writer, commands, snap, conn>>

(* removals counts the commits that deleted entries; it is for the         *)
(* properties only.                                                        *)
FileType ==
  [cat : CatalogType, index : {"contentless", "none", "regular"},
   removals : Nat]

WriterPoints ==
  {"none", "detect", "drop", "create", "rebuild", "recover", "newsource", "newscan",
   "walk", "switch"}

WriterType ==
  [pc : WriterPoints, scans : BOOLEAN, place : Places, old : SUBSET Rowid, sid : Nat,
   scid : Nat, ids : Seq(Rowid)]

(* rows, path: the answer so far.  todo: the rows still to be looked at.   *)
(* from: the state the search sees.  first: how many removals the first    *)
(* SELECT of api_entry saw.                                                *)
ConnType ==
  [pc : {"closed", "reading", "silent", "working", "next", "details", "replying"},
   got : 0 .. MaxHeader, req : [api : Apis, id : Nat, source : Nat], todo : SUBSET Nat,
   rows : SUBSET [id : Rowid, source : Rowid, parent : Nat, item : Items],
   path : Seq(Items), from : FileType \cup {<< >>}, first : Nat]

TypeOK ==
  /\ file \in FileType
  /\ writer \in WriterType
  /\ commands \in 0 .. MaxCommands
  /\ snap \in FileType \cup {<< >>}
  /\ conn \in [Handlers -> ConnType]

-----------------------------------------------------------------------------
(* The writing command                                                     *)

(* The ids a walk gives its entries, and the entries of a whole tree.      *)
FolderId(ids, item) == IF Up[item] = 0 THEN NoId ELSE ids[Up[item]]

(* scan_file_entry writes no index row for the file it scans; for other    *)
(* entries a failing insert_fts is only logged.                            *)
ScannedFile(place, item) == place \in Files /\ Up[item] = 0
MayLackRow(place, item) == ScannedFile(place, item) \/ item \in FtsFails

Indexings(place, items) ==
  {indexed \in SUBSET DOMAIN items :
     \A i \in DOMAIN items :
       IF i \in indexed THEN ~ScannedFile(place, items[i]) ELSE MayLackRow(place, items[i])}

WholeTree(place, indexed) ==
  LET ids == [i \in 1 .. Len(Walk[place]) |-> i] IN
  [source |-> {[id |-> 1, path |-> [place |-> place, sep |-> FALSE]]},
   scan   |-> {[id |-> 1, source |-> 1, status |-> "Completed"]},
   entry  |-> {[id |-> i, source |-> 1, parent |-> FolderId(ids, Walk[place][i]),
                item |-> Walk[place][i]] : i \in DOMAIN ids},
   fts    |-> indexed,
   side   |-> {}]

Idle ==
  [pc |-> "none", scans |-> FALSE, place |-> CHOOSE p \in Places : TRUE, old |-> {},
   sid |-> 0, scid |-> 0, ids |-> << >>]

Closed ==
  [pc |-> "closed", got |-> 0, req |-> [api |-> "page", id |-> 0, source |-> 0], todo |-> {},
   rows |-> {}, path |-> << >>, from |-> << >>, first |-> 0]

Init ==
  /\ \E old \in Before : \E indexed \in Indexings(old.place, Walk[old.place]) :
       file = [cat |-> WholeTree(old.place, indexed), index |-> old.index, removals |-> 0]
  /\ writer = Idle
  /\ commands = 0
  /\ snap = << >>
  /\ conn = [h \in Handlers |-> Closed]

Commit(cat, index) ==
  file' = [cat |-> cat, index |-> index,
           removals |-> IF file.cat.entry \subseteq cat.entry
                        THEN file.removals ELSE file.removals + 1]

GoTo(point) == writer' = [writer EXCEPT !.pc = point]

StartCommand ==
  /\ writer.pc = "none"
  /\ commands < MaxCommands
  /\ commands' = commands + 1
  /\ \/ writer' = [Idle EXCEPT !.pc = "detect"]
     \/ \E place \in Places :
          writer' = [Idle EXCEPT !.pc = "detect", !.place = place, !.scans = TRUE]
  /\ UNCHANGED <<file, snap, conn>>

(* Database::initialize_schema.  Each of its statements commits by itself. *)
AfterUpgrade == IF writer.scans THEN "recover" ELSE "none"

Detect ==
  /\ writer.pc = "detect"
  /\ GoTo(CASE file.index = "contentless" -> "drop"
            [] file.index = "none" -> "create"
            [] file.index = "regular" -> AfterUpgrade)
  /\ UNCHANGED <<file, commands, snap, conn>>

DropIndex ==
  /\ writer.pc = "drop"
  /\ Commit([file.cat EXCEPT !.fts = {}], "none")
  /\ GoTo("rebuild")
  /\ UNCHANGED <<commands, snap, conn>>

(* Without an old table found there is nothing to rebuild from.            *)
CreateIndex ==
  /\ writer.pc \in {"create", "rebuild"}
  /\ file.index = "none"
  /\ Commit(file.cat, "regular")
  /\ GoTo(IF writer.pc = "rebuild" THEN "rebuild" ELSE AfterUpgrade)
  /\ UNCHANGED <<commands, snap, conn>>

(* Mutant: the recursive part of the query is missing.                     *)
RootsIndexed(cat) == [cat EXCEPT !.fts = IdsOf({e \in cat.entry : e.parent = NoId})]

Rebuilt(cat) == [cat EXCEPT !.fts = IdsOf(cat.entry)]

RebuildIndex ==
  /\ writer.pc = "rebuild"
  /\ file.index = "regular"
  /\ Commit(Rebuilt(file.cat), "regular")
  /\ GoTo(AfterUpgrade)
  /\ UNCHANGED <<commands, snap, conn>>

(* The commits of Scanner::scan_source.                                    *)
RecoverLeftovers ==
  /\ writer.pc = "recover"
  /\ IF InProgressSources(file.cat) = {} THEN UNCHANGED file
     ELSE Commit(RemoveSources(file.cat, Completely(InProgressSources(file.cat))), file.index)
  /\ GoTo("newsource")
  /\ UNCHANGED <<commands, snap, conn>>

NewSource ==
  /\ writer.pc = "newsource"
  /\ LET path == [place |-> writer.place, sep |-> FALSE] IN
     \E sid \in NewRowids(file.cat.source) :
       /\ Commit(InsertSource(file.cat, sid, path), file.index)
       /\ writer' = [writer EXCEPT !.pc = "newscan", !.sid = sid,
                                   !.old = FindByPath(file.cat, path)]
  /\ UNCHANGED <<commands, snap, conn>>

(* Where the walk goes on after n entries.                                 *)
AfterEntries(n) == IF n = Len(Walk[writer.place]) THEN "switch" ELSE "walk"

NewScan ==
  /\ writer.pc = "newscan"
  /\ \E scid \in NewRowids(file.cat.scan) :
       /\ Commit(InsertScan(file.cat, scid, writer.sid), file.index)
       /\ writer' = [writer EXCEPT !.pc = AfterEntries(0), !.scid = scid]
  /\ UNCHANGED <<commands, snap, conn>>

(* A batch of one entry, with or without its index row.                    *)
WriteBatch ==
  /\ writer.pc = "walk"
  /\ LET at == Len(writer.ids) + 1
         item == Walk[writer.place][at]
     IN  \E id \in NewRowids(file.cat.entry) :
           /\ LET cat == InsertEntry(file.cat, id, writer.sid,
                                     FolderId(writer.ids, item), item)
              IN  \/ ~ScannedFile(writer.place, item) /\ Commit(InsertFts(cat, id), file.index)
                  \/ MayLackRow(writer.place, item) /\ Commit(cat, file.index)
           /\ writer' = [writer EXCEPT !.ids = Append(@, id), !.pc = AfterEntries(at)]
  /\ UNCHANGED <<commands, snap, conn>>

Switch ==
  /\ writer.pc = "switch"
  /\ Commit(FinishScan(RemoveSources(file.cat, Completely(writer.old)),
                       writer.scid, "Completed"), file.index)
  /\ writer' = Idle
  /\ UNCHANGED <<commands, snap, conn>>

Kill ==
  /\ writer.pc \in Killable
  /\ writer' = Idle
  /\ UNCHANGED <<file, commands, snap, conn>>

Upgrade == Detect \/ DropIndex \/ CreateIndex \/ RebuildIndex
Scan == RecoverLeftovers \/ NewSource \/ NewScan \/ WriteBatch \/ Switch

-----------------------------------------------------------------------------
(* The shared connection                                                   *)

Searching == {h \in Handlers : conn[h].from # << >>}

(* Mutant: every statement sees the last commit.                           *)
ViewOfFile == file

View == IF snap # << >> THEN snap ELSE file

(* Mutant: the statement is finalized when all results have been sent.     *)
HeldOn(h) == snap

(* What the connection is held at when h's search is over.                 *)
HeldWithout(h) == IF Searching \subseteq {h} THEN << >> ELSE snap

Update(h, c) == conn' = [conn EXCEPT ![h] = c]
AtServer == UNCHANGED <<file, writer, commands>>

-----------------------------------------------------------------------------
(* Connections: run_server, handle_client and read_request                 *)

Accept(h) ==
  /\ conn[h].pc = "closed"
  /\ Update(h, [Closed EXCEPT !.pc = "reading"])
  /\ AtServer /\ UNCHANGED snap

(* Mutant: the length is compared too late.                                *)
TooLongAfter(c) == c.got > MaxHeader

TooLong(c) == c.got >= MaxHeader

(* A part of the header arrives without its end.                           *)
Receive(h) ==
  /\ conn[h].pc = "reading"
  /\ Update(h, IF TooLong(conn[h]) THEN Closed ELSE [conn[h] EXCEPT !.got = @ + 1])
  /\ AtServer /\ UNCHANGED snap

(* recv waits ten seconds for the next part, however many came before.     *)
FallSilent(h) ==
  /\ conn[h].pc = "reading"
  /\ Update(h, [Closed EXCEPT !.pc = "silent"])
  /\ AtServer /\ UNCHANGED snap

(* The client closes its side: recv returns 0.                             *)
HangUp(h) ==
  /\ conn[h].pc \in {"reading", "silent"}
  /\ Update(h, Closed)
  /\ AtServer /\ UNCHANGED snap

(* Mutant: no SO_RCVTIMEO is set.                                          *)
WaitsForever(c) == FALSE

WaitsTenSeconds(c) == c.pc = "silent"

GiveUp(h) ==
  /\ WaitsTenSeconds(conn[h])
  /\ Update(h, Closed)
  /\ AtServer /\ UNCHANGED snap

(* An answer is ready to be sent.  Only that of api_entry is kept, for the *)
(* properties.                                                             *)
Ready == [Closed EXCEPT !.pc = "replying"]

(* The rest of the header arrives: a good request, one whose Host is not   *)
(* this machine, or one that is no GET request.                            *)
TakeRequest(h) ==
  /\ conn[h].pc = "reading"
  /\ \/ \E req \in Requests[h] :
          Update(h, [Closed EXCEPT !.pc = "working", !.req = req])
     \/ Update(h, Ready)
     \/ Update(h, Closed)
  /\ AtServer /\ UNCHANGED snap

(* send returns when the client has taken its answer; it has no timeout.   *)
Reply(h) ==
  /\ conn[h].pc = "replying"
  /\ Update(h, Closed)
  /\ AtServer /\ UNCHANGED snap

(* An exception in the handler is answered with 500; the statements of the *)
(* request are finalized on the way out.                                   *)
Throw(h) ==
  /\ conn[h].pc \in {"working", "next", "details"}
  /\ Update(h, Ready)
  /\ snap' = HeldWithout(h)
  /\ AtServer

-----------------------------------------------------------------------------
(* Viewer: one action is one SELECT                                        *)

Asked(h, api) == conn[h].pc = "working" /\ conn[h].req.api = api
Follows(h, api) == conn[h].pc = "next" /\ conn[h].req.api = api
Least(set) == {i \in set : \A j \in set : i <= j}

(* Without another SELECT the answer is ready.                             *)
Answered(c) == IF c.todo = {} THEN Ready ELSE [c EXCEPT !.pc = "next"]

(* serve_index and serve_static read no table.                             *)
ServePage(h) ==
  /\ Asked(h, "page")
  /\ Update(h, Answered(conn[h]))
  /\ AtServer /\ UNCHANGED snap

(* The first SELECT of api_stats, api_sources and api_tree: what is left   *)
(* to do are the other two counts, the count for each source, the test     *)
(* is_container for each child.                                            *)
Left(req) ==
  CASE req.api = "stats"   -> {1, 2}
    [] req.api = "sources" -> IdsOf(View.cat.source)
    [] req.api = "tree"    -> IdsOf({e \in View.cat.entry :
         e.parent = req.id /\ (req.id = NoId => e.source = req.source)})

List(h) ==
  /\ \E api \in {"stats", "sources", "tree"} : Asked(h, api)
  /\ Update(h, Answered([conn[h] EXCEPT !.todo = Left(conn[h].req)]))
  /\ AtServer /\ UNCHANGED snap

CountNext(h) ==
  /\ \E api \in {"stats", "sources", "tree"} : Follows(h, api)
  /\ \E i \in Least(conn[h].todo) :
       Update(h, Answered([conn[h] EXCEPT !.todo = @ \ {i}]))
  /\ AtServer /\ UNCHANGED snap

(* api_entry: the row, then its path from the entry itself upwards.        *)
RowOf(id) == {e \in View.cat.entry : e.id = id}

FindEntry(h) ==
  /\ Asked(h, "entry")
  /\ Update(h, Answered([conn[h] EXCEPT !.first = View.removals,
       !.rows = RowOf(conn[h].req.id), !.todo = IdsOf(RowOf(conn[h].req.id))]))
  /\ AtServer /\ UNCHANGED snap

(* Mutant: the entry itself is not put in front.                           *)
ClimbedWithout(c, row) == [c EXCEPT !.path = <<row.item>>, !.todo = {row.parent} \ {NoId}]

Climbed(c, row) == [c EXCEPT !.path = <<row.item>> \o @, !.todo = {row.parent} \ {NoId}]

(* Behind the path come is_container, the container and the checksums.     *)
Details == 1 .. 3

OnPath(c) == IF c.todo = {} THEN [c EXCEPT !.pc = "details", !.todo = Details] ELSE c

ClimbPath(h) ==
  /\ Follows(h, "entry")
  /\ \E id \in conn[h].todo :
       Update(h, OnPath(
         IF RowOf(id) = {} THEN [conn[h] EXCEPT !.todo = {}]
         ELSE Climbed(conn[h], CHOOSE row \in RowOf(id) : TRUE)))
  /\ AtServer /\ UNCHANGED snap

ReadDetail(h) ==
  /\ conn[h].pc = "details"
  /\ \E i \in Least(conn[h].todo) :
       Update(h, [conn[h] EXCEPT !.todo = @ \ {i},
                                 !.pc = IF conn[h].todo = {i} THEN "replying" ELSE @])
  /\ AtServer /\ UNCHANGED snap

(* api_search.  Without the table the SELECT cannot be prepared.           *)
Search(h) ==
  /\ Asked(h, "search")
  /\ IF View.index = "none"
     THEN Update(h, Answered(conn[h])) /\ UNCHANGED snap
     ELSE /\ Update(h, [conn[h] EXCEPT
                          !.pc = "next", !.from = View, !.todo = View.cat.fts])
          /\ snap' = View
  /\ AtServer

(* build_search_result runs while the search is in the middle of its rows. *)
NextResult(h) ==
  /\ Follows(h, "search")
  /\ \E id \in Least(conn[h].todo) :
       Update(h, [conn[h] EXCEPT !.todo = @ \ {id}, !.rows = @ \cup RowOf(id)])
  /\ AtServer /\ UNCHANGED snap

EndSearch(h) ==
  /\ Follows(h, "search")
  /\ conn[h].todo = {}
  /\ Update(h, Ready)
  /\ snap' = HeldWithout(h)
  /\ AtServer

Respond(h) ==
  \/ ServePage(h) \/ List(h) \/ CountNext(h) \/ FindEntry(h) \/ ClimbPath(h)
  \/ ReadDetail(h) \/ Search(h) \/ NextResult(h) \/ EndSearch(h)

Work(h) == Respond(h) \/ Throw(h) \/ Reply(h)

(* What recv waits for: a client sends on, or it does not.                 *)
Await(h) == Receive(h) \/ TakeRequest(h) \/ FallSilent(h)

Next ==
  \/ StartCommand \/ Upgrade \/ Scan \/ Kill
  \/ \E h \in Handlers : Accept(h) \/ Await(h) \/ HangUp(h) \/ GiveUp(h) \/ Work(h)

Spec == Init /\ [][Next]_vars

(* A thread goes on with its statements, and time passes: within ten       *)
(* seconds the next part of a header comes or does not, and recv gives up  *)
(* after ten seconds of silence.  Nothing is assumed of what a client      *)
(* sends, nor that it ever takes its answer, nor of commands and           *)
(* exceptions.                                                             *)
FairSpec ==
  /\ Spec
  /\ \A h \in Handlers :
       WF_vars(Respond(h)) /\ WF_vars(Await(h)) /\ WF_vars(GiveUp(h))

-----------------------------------------------------------------------------
(* Properties                                                              *)

(* A search returns every entry its full-text query found, with the row    *)
(* that entry had when the query was run, whatever is committed and        *)
(* whatever other requests do before the last result is looked up.         *)
SearchIsOneSnapshot ==
  \A h \in Searching :
    /\ conn[h].rows \subseteq conn[h].from.cat.entry
    /\ IdsOf(conn[h].rows) \cup conn[h].todo = conn[h].from.cat.fts

(* A statement misses what was committed before it only while a search is  *)
(* in the middle of its rows: an old state is let go at the end of the     *)
(* last search, also of one that ends with an exception.                   *)
StaleOnlyUnderSearch == snap # << >> => \E h \in Searching : conn[h].from = snap

(* The answer to api_entry is the entry and its whole path in the present  *)
(* catalogue, if no entries were deleted since its first SELECT.           *)
ParentOf(cat, row) == CHOOSE e \in cat.entry : e.id = row.parent

PathsIn(cat) ==
  LET path[r \in cat.entry] ==
        IF r.parent = NoId THEN <<r.item>> ELSE Append(path[ParentOf(cat, r)], r.item)
  IN  path

PathIn(cat, row) == PathsIn(cat)[row]

EntryAnswerIsWhole ==
  \A h \in Handlers :
    (/\ conn[h].pc = "replying" /\ conn[h].req.api = "entry"
     /\ conn[h].rows # {} /\ conn[h].first = file.removals)
    => \E row \in conn[h].rows : row \in file.cat.entry /\ conn[h].path = PathIn(file.cat, row)

(* A search may find every entry of the catalogue that its scan put into   *)
(* the index, and no other: what is missing is the file of a single-file   *)
(* scan or an entry whose insert_fts failed, and the rows of a removed     *)
(* tree are gone although its rowids come back.  Only while a command      *)
(* replaces the index ("migrate them by dropping the index and rebuilding  *)
(* it from the entry table", database.cpp 166) is it incomplete.           *)
OnlyEntriesIndexed(cat) == cat.fts \subseteq IdsOf(cat.entry)

UnindexedByScan(cat, e) ==
  \E s \in cat.source : s.id = e.source /\ MayLackRow(s.path.place, e.item)

IndexFits(cat) ==
  /\ OnlyEntriesIndexed(cat)
  /\ \A e \in cat.entry : e.id \in cat.fts \/ UnindexedByScan(cat, e)

EntriesCanBeFound ==
  writer.pc \notin {"create", "rebuild"} => file.index # "none" /\ IndexFits(file.cat)

(* A scan starts its work with an index of the new kind that lacks nothing *)
(* its scans indexed, whatever happened to the commands before it (same    *)
(* comment).                                                               *)
UpgradedIsIndexed ==
  writer.pc = "recover" => file.index = "regular" /\ IndexFits(file.cat)

(* Every connection is closed in the end, also when its client stalls in   *)
(* the middle of the header or never ends it ("must not pin a detached     *)
(* thread forever", server.cpp 32), unless the client never takes its      *)
(* answer: only in send does a thread stay for good.                       *)
ConnectionsEnd ==
  \A h \in Handlers :
    conn[h].pc # "closed" ~> (conn[h].pc = "closed" \/ [](conn[h].pc = "replying"))

-----------------------------------------------------------------------------
(* The inductive invariants of CatalogServerProofs                         *)

(* A scan has its source row once it writes, and entries left to write     *)
(* while it walks.                                                         *)
WriterOK ==
  /\ writer.pc \in {"newscan", "walk", "switch"} => writer.sid \in Rowid
  /\ writer.pc \notin {"walk", "switch"} => writer.ids = << >>
  /\ writer.pc = "walk" => Len(writer.ids) < Len(Walk[writer.place])

RowidsDiffer(cat) == \A e, f \in cat.entry : e.id = f.id => e = f

WriterInv ==
  /\ file \in FileType
  /\ writer \in WriterType
  /\ commands \in 0 .. MaxCommands
  /\ WriterOK
  /\ RowidsDiffer(file.cat)
  /\ OnlyEntriesIndexed(file.cat)

(* An open search is in the middle of its rows, sees the state the         *)
(* connection is held at, and no deleted row is in the index it reads.     *)
SearchOK(h) ==
  /\ conn[h].pc = "next" /\ conn[h].req.api = "search"
  /\ conn[h].from = snap
  /\ OnlyEntriesIndexed(conn[h].from.cat)

(* A request starts with nothing found.                                    *)
NothingFound(c) == c.pc \in {"reading", "working"} => c.rows = {}

ServerInv ==
  /\ WriterInv
  /\ snap \in FileType \cup {<< >>}
  /\ conn \in [Handlers -> ConnType]
  /\ \A h \in Handlers : NothingFound(conn[h])
  /\ \A h \in Searching : SearchOK(h)
  /\ SearchIsOneSnapshot
  /\ StaleOnlyUnderSearch

(* The folder of an entry is an entry of the same source, written before.  *)
Rooted(cat) ==
  \A e \in cat.entry :
    e.parent = NoId \/ \E f \in cat.entry : f.id = e.parent /\ f.source = e.source /\ f.id < e.id

(* What the running scan has written is in the file.                       *)
WrittenOK ==
  \A i \in 1 .. Len(writer.ids) :
    \E e \in file.cat.entry : e.id = writer.ids[i] /\ e.source = writer.sid

(* No entry was deleted between two states with as many removals.          *)
GrewTo(old, new) ==
  /\ old.removals <= new.removals
  /\ old.removals = new.removals => old.cat.entry \subseteq new.cat.entry

(* What api_entry has collected is the end of the path, and it goes on at  *)
(* the folder where that end begins.                                       *)
PathOK(c, cat) ==
  \E row \in cat.entry :
    /\ c.rows = {row}
    /\ \/ c.pc # "next" /\ c.path = PathIn(cat, row)
       \/ /\ c.pc = "next"
          /\ \E e \in cat.entry : c.todo = {e.id} /\ PathIn(cat, row) = PathIn(cat, e) \o c.path

EntryOK(c, view) ==
  c.req.api = "entry" /\ c.pc \in {"next", "details", "replying"} /\ c.rows # {} =>
    /\ c.first <= view.removals
    /\ c.first = view.removals => PathOK(c, view.cat)

(* Behind the answers of api_entry.                                        *)
AnswerInv ==
  /\ ServerInv
  /\ Rooted(file.cat)
  /\ WrittenOK
  /\ snap # << >> => RowidsDiffer(snap.cat) /\ Rooted(snap.cat) /\ GrewTo(snap, file)
  /\ \A h \in Handlers :
       /\ conn[h].pc \in {"reading", "working"} => conn[h].path = << >>
       /\ EntryOK(conn[h], View)

(* A command that has dropped the index is on its way to rebuild it, and a *)
(* running scan has the source row of its place.                           *)
SourceOK ==
  writer.pc \in {"newscan", "walk", "switch"} =>
    \E s \in file.cat.source : s.id = writer.sid /\ s.path.place = writer.place

IndexInv ==
  /\ writer.pc = "rebuild" => file.index # "contentless"
  /\ writer.pc = "recover" => file.index = "regular"
  /\ writer.pc # "create"
  /\ SourceOK
  /\ EntriesCanBeFound

=============================================================================
