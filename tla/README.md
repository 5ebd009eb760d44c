# Offline Media Catalog in TLA+

Models, model-checking configurations and machine-checked proofs for the
Offline Media Catalog (`offcat`): a C++ program that scans directories, files
and disc images into an SQLite database and answers searches from it later.
File and line numbers below are those of the repository.

## 1. The system

| Component | Source | State it keeps | Operations | Talks to |
|---|---|---|---|---|
| Scan lifecycle | `src/scanner/scanner.cpp` 181–474 | counters, `old_source_id`, `source_id`, `scan_id`, the switch's `Transaction` | `scan_source`, `recover_orphaned_scans`, `drop_shadow` | managers, connection, walk, cancel flag |
| Directory walk | `scanner.cpp` 476–705 | recursion of `scan_directory`, `batch_counter_`, `errors_` | `scan_directory`, `scan_file_entry`, checksums, container scan | file system, managers, provider registry |
| Catalogue managers | `src/catalog/catalog.cpp` | none: rows in the tables | insert, `find_by_path`, `remove_tree`, `finish`, `build_path`, `insert_fts`, queries | connection |
| Connection | `src/database/database.cpp` | SQLite handle, open transaction, `Transaction::active_` | open, `initialize_schema` with the FTS migration, BEGIN/COMMIT/ROLLBACK, prepared statements | the database file |
| Command line | `cli/main.cpp`, `cli/serve.cpp` | global cancellation flag | `scan`, `search`, `info`, `verify`, `serve`, signal handler | scanner, search, server |
| Container registry, tree writer | `src/container/provider.cpp` | registered providers, entry-id stack | `find_provider`, `VirtualTreeWriter` | managers |
| ISO provider | `providers/iso/iso_provider.cpp` | entry and size counters, deadline, nesting depth | `can_handle`, `scan`, walks of ISO 9660/Joliet/UDF, `expand_nested` | parsers, tree writer |
| ISO 9660, Joliet | `providers/iso/iso9660`, `joliet` | volume descriptors | record iteration, Rock Ridge names | image reader |
| UDF | `providers/iso/udf` | anchor, partition maps, file set location | `parse_anchor` and what follows, Unicode decoding | image reader |
| Checksum engines | `src/core/checksum.cpp` | block buffer, byte count | `update`, `finalize` | walk |
| Search | `src/scanner/search.cpp` | none | query building, result rows | connection |
| Web server | `src/server/server.cpp`, `http.cpp` | listening socket, detached connection threads | accept loop, request reading, host check, routing | viewer |
| Viewer API | `src/server/viewer.cpp` | one shared connection | statistics, sources, tree, search, download | connection |

How they interact: the command line opens the connection (schema, migration),
builds a `Scanner` and calls `scan_source` once per process.  `scan_source`
calls the managers, which run one statement each on the one connection; the
walk calls back into the managers and into the providers; Ctrl+C sets the flag
which the walk polls.  The viewer is another process (or another thread) that
reads the same file.

What is hard: a scan is not one transaction.  Its source and scan rows commit
by themselves, its entries commit in batches of 1000, and its publication is a
third transaction that also removes the previous tree.  The process may be
killed or interrupted between any two statements, any statement may fail, some
failures are only logged, and SQLite may roll a transaction back behind the
program and hand out the same rowids again.  `PROJECT.json` lists these
hazards one by one.

What makes each component correct:

* **scan lifecycle** – a finished tree is never lost, altered or duplicated;
  leftovers are recognised and removed; the return value says what the
  catalogue shows; a scan ends.
* **walk** – a committed tree hangs together at every batch boundary; what is
  missing in a completed tree was counted; every entry can be searched.
* **managers and tables** – no row outlives its owner, the full-text rows,
  which have no foreign key, included.
* **connection** – the migration leaves a catalogue that can be searched.
  (Killed in the middle it does not, see section 5.)
* **ISO provider** – every limit holds per image and in every nesting, nothing
  is written for an image whose limit has fired, an expansion nothing cut is
  complete, temporary files go with the expansion they were made for, and the
  walk ends on cyclic images too.
* **UDF** – an anchor whose sequence is complete is not overridden by one that
  was given up; a directory is read whole although its size is under-reported;
  the root found behind the anchor is the right directory.
* **checksums** – the digest does not depend on how the data is cut.
* **server, viewer, search** – a search is about one state of the catalogue
  whatever is committed meanwhile; the connection returns to the present state
  after it; a connection ends.

## 2. Modules

| Module | Contents |
|---|---|
| `Catalog` | the tables as sets of rows; the SQL statements scanning uses as operators from one database content to the next |
| `ScanSource` | `scan_source` with everything it calls, as a state machine; its properties |
| `AtomicCatalog` | the abstract specification: what a reader of the catalogue may see change |
| `ScanSourceInv` | the inductive invariants of `ScanSource`, from `IInv` to `AtomicInv` |
| `MCScanSource` | the small instances TLC checks |
| `ImageWalk` | the expansion of a disc image: recognition, the choice of a file system, the two directory walks, limits, nested images |
| `ImageWalkProofs` | the theorems about `ImageWalk` |
| `MCImageWalk` | a hybrid disc, an image that contains itself, an unreadable one, and the combinations of options |
| `CatalogServer` | `offcat serve` and the viewer API, beside a writing command that upgrades the schema and scans; uses `Catalog` |
| `MCCatalogServer` | two threads, two places, two commands |
| `UdfParser` | anchors, descriptor sequences, the root directory, directory streams, the search behind the anchor |
| `Digest` | the reading loop of `compute_checksums` and the buffering and padding of the engines |
| `MCReaders` | `Digest` and `UdfParser` side by side, with the files and discs TLC checks |
| `CatalogServerProofs` | the theorems about `CatalogServer` |
| `CatalogTheorems` | lemmas on the operators of `Catalog` |
| `ScanSourceProofs` | the types, the records and the switch of `ScanSource`: `TypeCorrect`, `RecordsAreSafe`, `FinishedTreesSurvive` |
| `RowsProofs` | its rows, leftovers, results and places |
| `TreeProofs` | its trees, the full-text index, completeness, and that it implements `AtomicCatalog` |
| `ReaderProofs` | the theorems about `Digest` and `UdfParser` |
| `Induction` | induction and recursion along parents, for the proofs about recursive functions |

### Catalog

A database content is a record of five tables.  `source` and `scan` rows keep
their key, their foreign key, the path and the status.  An `entry` row keeps
its parent and the item of the file system it stands for.  `fts` is the set of
rowids the full-text table has indexed, `side` the set of entries with
checksum or container rows.  `NewRowids` is SQLite's rule for an
`INTEGER PRIMARY KEY`: largest rowid plus one, so freed rowids come back.
`RemoveSources` is `SourceManager::remove_tree`, five DELETEs in their order,
stopped after any of them, which is what recovery may commit.

### ScanSource

`disk` is the committed content of the file, `work` what the connection reads
(they differ only while `intxn`).  `Run` is a statement that succeeds: outside
a transaction it commits by itself.  `Fails` is one that does not: a kind named
in `Failing` leaves the transaction open, one named in `Aborting` has SQLite
roll it back (full disk, I/O error) without the program's noticing.

`pc` is the point `scan_source` has reached:

| `pc` | Action | Code |
|---|---|---|
| idle | `StartScan` | a process is started with a path that exists (181–211) |
| recover | `Recover` | `recover_orphaned_scans` (430–474), one committed transaction, possibly incomplete |
| lookup | `LookUp` | `find_by_path` (229–239); an error of `step()` reads as "none" |
| newsource, newscan | `CreateSource`, `CreateScan` | the two autocommitted INSERTs (241–298) |
| begin | `BeginScan` | BEGIN and the branch on the kind of path (300–353) |
| open | `OpenDirectory`, `StopWalk` | entry of `scan_directory` (476–487) |
| walk | `VisitEntry`, `LoseListing`, `LeaveDirectory`, `StopWalk` | the loop (485–575, 640–642) |
| index | `IndexEntry` | `build_path`, `insert_fts`, the batch counter (577–597) |
| batch | `CommitBatch` | COMMIT; BEGIN (597–608) |
| entry | `FinishEntry` | recursion, or checksum and container rows (610–639) |
| unwind | `LeaveOnError` | an error returned to the caller, which counts it unless it is `scan_source` (613–623) |
| file | `ScanFile` | `scan_file_entry` (645–696) |
| cancelled | `CancelFirstScan`, `CancelReplacement` | ROLLBACK and the two outcomes (311–334) |
| failed | `FailScan` | ROLLBACK, `drop_shadow`, error (335–353) |
| commit | `CommitScan` | the COMMIT whose failure is only logged (355–359) |
| switch, close, swcommit | `RemoveOld`, `CloseScan`, `CommitSwitch` | the switch (361–387) and `Transaction` (`database.cpp` 279–307) |
| drop | `DropAfterSwitch` | `drop_shadow` after a failed switch (388–394) |
| done | `Finish` | optimize, VACUUM, return (396–417) |

`Interrupt` is the signal handler (`cli/main.cpp` 36–42): it may set the flag
between any two steps of a running scan.  `Crash` ends the process at a point
of `CrashPoints`; the transaction is rolled back when the file is next opened.
`stack` holds the activations of `scan_directory`: each has the entry id its
children get as parent, its directory, and the items not yet visited, taken in
any order.

Choices of the abstraction:

* Files and folders are the members of `Items`, with `Under` and `Home` saying
  where each lies; the file system does not change while it is scanned, except
  that an entry may be unreadable, a directory unlistable and the path gone
  (`Trouble`).
* The status Failed, which no code writes, is left out of `Statuses`.
* A failing DELETE of `container` rows after the `checksum` rows are gone is
  the same as one of both: `side` rows go in one step.
* Names, sizes, times, progress, and the kind of checksum and container row
  are left out.  What a container provider writes is `ImageWalk`'s subject.
* For a single file the checksum and container rows are written with the entry
  in one step.  Each may fail alone, or SQLite may roll the entry back with
  it: `scan_file_entry` only logs either, and the scan goes on.
* `find_by_path` has no ORDER BY; the model returns the lowest matching rowid,
  the order of a table scan.
* BEGIN fails only when a transaction is open already (it takes no lock); no
  second process uses the file during a scan.
* An entry that is its own parent blocks `build_path`
  (`BuildPathReturns`).  It needs a rolled-back batch followed by reused
  rowids, so it shows up only in runs with `Aborting`, none of which checks
  termination.

### AtomicCatalog

What a place shows is nothing, or one tree with a status.  A step replaces it
by the complete tree (Completed, or Cancelled when the interrupt came after
the walk's last look at the flag), or puts the first part of a tree where
nothing was (a cancelled first scan).  Nothing else changes what is shown.
`ScanSource!Shown` computes it from `disk`; `ScansAreAtomic` says that every
behaviour of the detailed machine is one of the abstract one, so a step that
does not publish is a stutter.

### ImageWalk

`rows` are the virtual entries in the order of their ids, `boxes` the entries
with a container row, `jobs` the activations of `scan_udf` and `scan_iso9660`,
innermost first.  Each has its counters, its `limit_hit` flag and its `dirs`,
the activations of `walk_udf_directory` or `walk_iso_directory`: the entry its
children get as parent, and the records not looked at yet.

| Action | Code |
|---|---|
| `Overlook`, `Discover` | `expand_container_if_needed` (`scanner.cpp` 709–761), `find_provider`, `IsoProvider::can_handle`, `probe` and `scan` with the fallback from UDF to ISO 9660 or Joliet |
| `StopAtLimit` | the checks at the top of either loop, in their order: flag, entries, deadline |
| `SkipRecord` | an invalid name, an unresolved placeholder, a failing INSERT |
| `WriteLast` | the entry that passes `max_virtual_size` |
| `WriteDirectory`, `LeaveDirectory` | recursion, with both depth limits |
| `WriteFile`, `WriteImage` | a leaf; an image file that is extracted and expanded by `expand_nested` |
| `LeaveImage` | the return of `scan_udf` or `scan_iso9660` and the removal of the temporary file |
| `TimePasses` | the deadline of one activation passes, at any step |

Choices of the abstraction:

* What a parser returns is given: which file systems open and can be read
  (`Volume`), and the records of every directory (`Listing`), one record per
  kind the walk tells apart.  Reading a directory may fail: the walk passes it
  over, and of the Rock Ridge relocation directory, which is read once at the
  start, the records before the unreadable sector are used (`Reads`).  Names matter only as valid, invalid, and the
  digit a Rock Ridge placeholder is resolved by.
* Sizes are small numbers; an entry's size counts as in the code, also for a
  nested image.
* `late` counts activations past their deadline from the outermost inwards:
  all have the same budget and the outer ones started first.
* `IInv`, `AmountsInv` and `WholeInv`, at the end of the module, are the inductive
  invariants of section 4.
* Volume metadata rows, `large_unprobed_files_` and progress are left out.

### CatalogServer

`file` is the committed catalogue with the kind of its full-text table.  One
action of the writer is one commit of a command: the four autocommitted
statements of `initialize_schema`, then the transactions of a scan, one entry
to a batch (`ScanSource` has its single statements and failures).  A batch puts
its entry into the index, except that a single-file scan (`Files`) writes no
row for the file and a failing `insert_fts` (`FtsFails`) is only logged; a
catalogue of the old schema has the same gaps in the beginning.  `Kill` ends a
command at a point of `Killable`.

`conn` has one connection per thread: `reading` the header, `silent` while recv
waits in vain, `working` on the request, `next` between two SELECTs, `details`
while `api_entry` reads whether the entry is a container, the container and the
checksums, `replying` in `send`.  One action is one SELECT, or one row of a
search with the SELECTs of `build_search_result`.  All threads use
one SQLite connection in autocommit mode, so a statement normally sees the last
commit.  But as long as any statement of the connection has not been reset,
SQLite keeps its read transaction, and every other statement on the connection
sees that same state: `snap`.  Only the SELECT of a search is left open while
others run.  `HeldWithout` lets the state go with the last open search.

`Receive`, `TakeRequest`, `FallSilent`, `HangUp` and `GiveUp` are `read_request`
and `handle_client`: a part of the header, the end of the header with its three
outcomes, no data for ten seconds, the end of the stream, the error recv then
returns.  `SO_RCVTIMEO` starts anew with each part, so only the limit of the
header's length stops a client that keeps sending.  `Reply` is the return of
`send`, which has no timeout.  `Throw` is the `catch` around the routing.  URL and
JSON coding, static pages and the words of a query are left out.

`WriterInv`, `ServerInv`, `IndexInv` and `AnswerInv`, at the end of the module,
are the inductive invariants of section 4.

### UdfParser

A disc is a function from readable sectors to the descriptor each holds.
`pc` goes from `anchor` through `sequence` and `root` to `mounted`, or from
`root` through `head` and `heads` to `adopted` or `rootless`:
`TryAnchor`/`NoAnchor` are the loop of `parse_anchor`, `ReadDescriptor`,
`EndOfSequence` and `GiveUpSequence` that of `parse_vds`, `ReadRoot` the
standard path of `read_root_directory`, the rest `locate_root_in_head`.
`starts` and `fsd` are members of the parser and keep what a failed anchor
wrote, as in the code; `pds` is the local index of `parse_vds`.

Reading a directory has no effect, so it is an operator: `Stream` walks the
file identifiers with their sizes, alignment and sector boundaries, and extends
the data by a sector where `read_directory` does.  Sectors have 8 bytes and
headers 3, so that identifiers fall before, on and across boundaries within two
or three sectors.  Names are left out except for the placeholders' control
characters.  A header is no longer than a sector (`UdfAssumption`; 38 and 2048
bytes in the code).  `UdfInv`, at the end of the module, is the inductive
invariant of section 4.

### Digest

The state of an engine is the sequence of blocks it has compressed: if that is
right, so is the digest, given the compression function.  `Update` is the
engine's `update` (fill the buffer, whole blocks, the rest), `PutMark`,
`PutZero` and `PutLength` are `finalize`, which pads with calls of `update`,
one byte at a time.  The scanner reads pieces of `MaxPiece` bytes and takes a
short one for the end; `ReadPiece` may be cut short anywhere by an error.
`DigestInv`, at the end of the module, is the inductive invariant of section 4.

`MCReaders` puts `Digest` and `UdfParser` side by side: both are about the
content of one file and share no state, so a behaviour runs one and the other
rests.

## 3. Runs

`replace`, `tolerated`, `everything` and the first four runs of section 5
instantiate `MCScanSource`; the others are named in the table.  The runs of
passing properties:

| Run | Instance | Question | States |
|---|---|---|---|
| `replace` | two places: a tree of two nested folders and two files, and a single file; cancellation at every step; killed at every step except between the first two INSERTs; nothing fails | Is every scan atomic for readers? Does every committed tree hang together and get indexed? Are leftovers marked, and gone before the next tree is written? Does every scan end? | about 11 000 |
| `tolerated` | one folder with one file; in addition the failures the code handles: row insertions, `remove_tree`, `drop_shadow`, the switch, `finish` (as to completeness), unreadable entries, a path that vanishes | Is there ever a second finished tree of a path, or a Completed tree with an unaccounted gap? | about 38 000 |
| `everything` | two places: a folder with one file, and a single file, both with checksums; every statement fails in both ways, except that `finish` fails only with a rollback; killed at any step, unlistable directories | Are finished data still never lost nor altered, does no row outlive its owner, is the return value honest, and does `IInv` hold? | about 4 500 000 |
| `image_walk` | `MCImageWalk`: a hybrid disc whose UDF volume is damaged, with a relocation directory, a directory in itself and an image file; that image is a UDF volume that contains itself; all combinations of limits of entries, bytes and nesting, deadlines, failing INSERTs, reads (of the relocation directory too), extraction and parsing | Does each limit hold for each image? Does nothing follow a limit? Is an uncut expansion complete, and do entries hang together? Are temporary files removed? Does the walk end? | about 94 000 |
| `server` | `MCCatalogServer`: two threads, one that searches and looks up entries, one that searches and lists; two commands on a catalogue of the old schema, killed in the walk or before the switch; one place is a single file, and one folder's `insert_fts` may fail | Is a search about one state? Is a held state let go? Is an entry's path right? Does the index lack only what its scan did not put in? Do connections end, whatever clients do, unless one never takes its answer? | about 255 000 |
| `readers` | `MCReaders`: files of 0 to 10 bytes in blocks of 4; 60 discs with two anchors, 80 with under-reported directories, 100 with the trees of genisoimage | Is the digest that of the padded file, however it is read? Does the complete sequence decide? Is the root whole, and the right one? Does each end? | about 2 500 |

Bounds.  `MaxScans = 3`: one scan to fill the place, one to go wrong, one to
recover and replace; the disagreements of section 5 need at most that, and
`IInv` is proved for any number.  `BatchSize = 2`: with a tree of two to four
entries a batch boundary falls before, inside and after a nested folder, and
a tree ends with a full or a part batch; the code's 1000 is the same control
flow.  The tree of `replace` has a folder in a folder, so an activation
returns into another one as well as to `scan_source`; the smaller tree of the
other runs keeps one such return.  `Seps = {FALSE}`: the trailing separator is
in the model but left out of these runs, see section 5.

Bounds of the newer runs.  `MaxDirDepth = 4` and `UdfReadDepth = 2` (256 and
64 in the code) keep the order of the two; the directories that contain
themselves reach both.  Options have entry limits below, at and above the
number of entries of either image, nesting from none to three levels, byte
limits that are met exactly and passed.  `MaxHeader = 1`: a header arrives
whole, in two parts, or too long.  `MaxCommands = 2`: one command upgrades and
writes or is killed, the next finds what it left.  `BlockSize = 4`,
`LengthSize = 1`, `MaxPiece = 6`: pieces are shorter than, as long as and
longer than a block, two pieces and the padding cross three block boundaries,
and the length fits or does not fit beside the mark.  `MaxSequence = 5`,
`HeadScan = 9`, `MaxHeads = 2`, `MaxDirSectors = 4`: each is reached by some
disc and left unreached by others.

What the passing runs leave out is what the code gets wrong there.  `replace`
and `tolerated` have no kill and no failure between the INSERT of the source
and that of the scan row: what then happens is shown by `killed_early` alone.
`ScanEnds` is checked where no statement fails, so errors returned from a depth
of the walk are not in it.  `EntryAnswerIsWhole` leaves out answers during which
entries were deleted.

Deadlock is checked in every run; `Rest` stands for the user who leaves the
catalogue alone after the last scan.

Fairness.  In `ScanSource`, `FairSpec` adds `WF_vars(ScannerStep)`: a running process goes on
executing, which the operating system provides.  Nothing is assumed of
`Interrupt`, `Crash` or `StartScan`.  `ScanEnds` is checked without failing
statements (run `replace`), see `BuildPathReturns` above.  `ImageWalk` has weak
fairness of the walk alone, a single thread; that time passes is not assumed.
`CatalogServer` has weak fairness of each thread's own SELECTs (`Respond`); of
time, in that recv gets data or has none for ten seconds (`Await`); and of the
receive timeout after that (`GiveUp`), which the kernel provides.  There is
none of what clients send, hang up or take, of commands, exceptions or kills,
and none of `Reply`: `send` may wait for ever, and `ConnectionsEnd` says that a
connection is closed in the end or stays in `send` for good.  Without the limit
of the header's length a client that keeps sending would violate it.
`MCReaders` has weak fairness of the one task a behaviour has.

Each property of each passing run has a mutant in `PROJECT.json`: a plausible
bug in one definition that makes TLC find the property violated.

## 4. Proofs

The theorems hold for every value of the constants that the ASSUME of the
module allows.  Each rests on an inductive invariant that TLC checked on the
instance of a run before it was proved.  No theorem bounds the number of
scans, entries, threads or descriptors.

### ScanSource

Assumed: `ScanAssumption` (types) and `FileSystemAssumption` (a place and the
folders below it form a tree without cycles; a place that is a file lists that
file).  `Failing` and `Aborting`, the statements that fail, `Trouble`, what the
file system does, and `CrashPoints` are any sets; a theorem that does not hold
for all of them has its premise in its statement.

| Theorem | States | Premise |
|---|---|---|
| `TypeCorrect` | `TypeOK` | |
| `RecordsAreSafe` | `IInv` | |
| `FinishedTreesSurvive` | `NeverLost` | `finish` does not fail |
| `RowsAreSafe`, `NoRowIsLeftBehind` | `RowsInv`, `NoDanglingRows` | |
| `FinishedTreesAreNotAltered` | `SettledTreesUntouched` | |
| `LeftoversCanBeFound` | `LeftoversAreMarked` | no death or failure between the source row and the scan row; no removal in recovery fails |
| `OnlyTheShadowIsOpen` | `NoLeftoverBesideScan` | no removal in recovery fails |
| `TheResultIsTrue` | `ResultIsHonest` | `finish` does not fail |
| `PlacesHaveOneTree` | `OneTreePerPlace` | those of `LeftoversCanBeFound`; the lookup succeeds; no trailing separators |
| `TreesAreWhole` | `TreesHangTogether` | no statement of the walk has SQLite roll back |
| `FinishedTreesAreIndexed` | `SettledTreesAreIndexed` | `insert_fts` does not fail |
| `CompletedMissesNothing` | `CompletedIsComplete` | `NothingUncounted` |
| `ScansImplementThePromise` | `ScansAreAtomic` | those of `PlacesHaveOneTree`; `finish` does not fail; `NothingSkipped` |

The premises are the failures the code only logs or does not see, and each is
there because the statement is false without it: `finish_fails`, `killed_early`
and `last_commit_fails` (section 5) show three of them, and the observations at
the end of section 5 the others.  `NothingUncounted` excludes what the code does not count
as an error (a batch that cannot be committed, a directory that cannot be
listed, a rollback by SQLite), not that entries are unreadable or cannot be
inserted; `NothingSkipped` excludes these too, since a tree with a counted gap
is not the complete tree that `AtomicCatalog` promises.

*Records* (`IInv`).  `TypeOK` alone is not inductive: that a popped frame is a
frame needs a non-empty stack at the points of the walk, and that a row gets
rowids as keys needs `sid` and `cur.id` to be rowids there (`WalkOK`).
`KeysOK` says that a source has one scan row at most, so a tree with an
InProgress row is not finished, and recovery and `drop_shadow` take only such
trees (`RecoveryKeeps`, `DropShadowKeeps`; the latter needs the InProgress row
of the running scan, `RecordsOK`).  The steps of the walk do not touch the
source and scan tables (`WalkIsQuiet`).  That leaves the switch, which does
remove a finished tree.  `SwitchOK` says what its transaction holds: the tables
without the old tree, and the scan row of the new tree with a status it may be
left with (`ClosingStatuses`).  If `finish` cannot fail this is a finished one,
so whoever loses the old tree gains the new one (`SwitchKeeps`).

*Rows* (`RowsInv`).  Rowids are reused, so that a row belongs to a tree is not a
matter of its key alone.  `EntriesOK` says that entries have rowids of their
own and that nothing refers to a missing one, in the file and in the open
transaction; `TreesKept`, that the transaction differs from the file in the
shadow tree and, during the switch, the replaced one.  A COMMIT therefore
changes no other tree, and a ROLLBACK changes none at all.

*Leftovers, results, places* (`LeftInv`, `OpenInv`, `HonestInv`, `PlaceInv`).
Every source has a scan row, so recovery can see what it is; from the end of
recovery on the only open one is that of the running scan; hence the tree
`find_by_path` returns is the only finished tree of the place, and the switch
leaves one.

*Trees* (`TreeInv`, `IndexInv`, `CompleteInv`).  `ActivationsOK` ties the
activations of `scan_directory` to the shadow tree: each stands for an entry of
it or for the scanned place, still has to visit items of its own folder that
are not in the tree, and no folder is open twice or has been entered before.
So a new entry gets the right parent, and no item comes twice.  Outside the
walk entries come and go by whole trees.  `IndexInv` says which entry is not
yet indexed.  For completeness every item of the place is accounted for
(`Accounted`) or will still be visited (`Pending`), which turns into "accounted
for" when the last activation ends; that this covers whole subtrees follows by
induction over the folders, from `FileSystemAssumption`.

*Refinement* (`AtomicInv`).  By `OneTreePerPlace` what a place shows is one
tree.  Only the switch and the cancellation of a first scan make a tree a
finished one (`NewlySettled`), and they do so to the scanned place alone; every
other step leaves what is shown as it is (`ShownStays`), because finished trees
are not altered.  These two are the steps of `AtomicCatalog`
(`SwitchPublishes`, `CancelKeepsPart`): the tree they show is complete
(`CompleteInv` with nothing skipped), or has with each item the folder it lies
in, and has no item of another place (`ShadowBelow`).

### ImageWalk

For every disc image, directory contents, limits and depths, under
`WalkAssumption` (types, and that a directory record leads to a directory):

* **`ExpansionIsSound`**: `[]IInv`, and from it **`WalkTypes`**,
  **`VirtualTreesHangTogether`** (`EntriesHangTogether`), **`EntryLimitIsKept`**
  (`EntryLimitHolds`), **`TemporaryFilesAreRemoved`** (`TempIsTidy`) and
  **`LimitsAreFinal`** (`HitIsFinal`);
* **`AmountsAreKept`**: `[]AmountsInv`, and from it **`SizeLimitIsKept`**
  (`SizeLimitHolds`), **`NestingLimitIsKept`** (`NestingLimitHolds`) and
  **`HybridDiscsAreRead`** (`ReadableIsoIsWalked`);
* **`WalksAreWhole`**: `[]WholeInv`, and from it **`UncutWalksAreComplete`**
  (`WholeUnlessCut`).

`JobFits` ties an activation of `scan_udf` or `scan_iso9660` to the rows: its
container is one of the entries, each of its frames writes below an entry of
that container (`FoldersOf`), and its entry counter is the number of rows of
that container (`RowsOf`).  `JobsFit` adds that the containers of the
activations decrease from the innermost outwards, so they differ.  That is what
makes the invariant inductive: a row the innermost activation writes leaves the
counters of all outer ones right, and an activation whose flag is set keeps its
rows until it returns.  `EntryLimitHolds` follows because a row is written only
below the limit.  `HangTogether` needs that the parent of a new row is a
frame's entry.  `NothingYet` says that before discovery there is neither a row
nor an activation, and `TempIsTidy` counts a temporary file for each activation
but the outermost.  `AmountsInv` does the same for sizes and depths, which are
sums over the rows and lengths of chains of rows: recursive functions, about
which the lemmas of `Induction` say that a new row at the end leaves the values
before it alone.

`WholeInv` speaks of the activations whose flag is not set, when nothing fails.
`OpenFits` says of a directory being walked that the children it has and what
its frame has yet to look at make up its contents, and that its level is its
depth in the stack of frames; so the open directories differ, although the disc
may have one directory in itself, and a new row adds to the innermost alone.
Every other directory of the image has all its contents, or none if it lies too
deep (`HasItsContents`).  Reading a record moves it from what remains to the
children (`OthersStayWhole`), since a placeholder stands for one record at most
(`OneResolved`); a frame with nothing left is a finished directory
(`WholeLeft`); and when the activation returns no directory is open.

### CatalogServer

For any threads, requests, trees, and numbers of commands and kills, under
`ServerAssumption` (types, and that a walk reaches a folder before what lies in
it):

* **`ServerTypes`**, **`SearchesSeeOneState`** (`SearchIsOneSnapshot`),
  **`OldStatesAreLetGo`** (`StaleOnlyUnderSearch`), from `ServerInv`;
* **`IndexIsComplete`** (`EntriesCanBeFound`) and **`ScansStartIndexed`**
  (`UpgradedIsIndexed`), if `"rebuild" \notin Killable`, from `IndexInv`.  They
  say that the index fits (`IndexFits`): every row is that of an entry, and an
  entry without one is the file of a single-file scan or one whose `insert_fts`
  may fail (`UnindexedByScan`).  With `Files` and `FtsFails` empty the index has
  every entry;
* **`AnswersAreKept`**: `[]AnswerInv`, and **`EntryAnswersAreWhole`**
  (`EntryAnswerIsWhole`).

`SearchOK` says that an open search sees exactly the state the connection is
held at, so all open searches see the same one; a step of a thread outside a
search leaves that alone (`QuietStep`), and when a search ends the state goes
if and only if it was the last (`SearchEnds`).  That no result is lost needs
that the index names no missing entry.  This is `OnlyEntriesIndexed`, which
every commit keeps, also while the index is being replaced, and removing a tree
keeps it only because no two entries share a rowid (`RowidsDiffer`,
`RemovalFits`).  A new request has found nothing yet (`NothingFound`), since a
connection carries one request.  `IndexInv` adds what the upgrade is up to: a
command that dropped the index is the one that will rebuild it, and a scan that
is writing has the source row of its place (`SourceOK`), by which an entry is
known to be one of a single-file scan.  `Kill` is the
only step that breaks this, at the point `rebuild` alone, which is the premise,
and run `upgrade_killed` shows the loss without it.

`api_entry` climbs from an entry to its root by one SELECT per step.
`AnswerInv` says that what it has collected is the end of the path in the state
the connection sees, and the rest begins at the folder it looks up next
(`PathOK`), provided that no entry was deleted since its first SELECT: then the
catalogue has only grown (`GrewTo`), and a path in it stays what it was because
a folder is written before what lies in it (`Rooted`).

### Digest

For every block size, size of the length field, piece size and set of files,
under `DigestAssumption` (positive numbers, and a length shorter than a block):

* **`DigestIsKept`**: `[]DigestInv`, and from it **`DigestTypes`**
  (`DigestTypeOK`) and **`DigestsAreOfFiles`** (`DigestIsOfTheFile`).

`IsStream` says that blocks and buffer are a sequence of bytes, cut.  `CutIsStream`
is the algorithm of `update`: the new bytes, put behind the buffer, are cut
into whole blocks and less than one; `Join` puts the blocks of two calls one
after the other.  So at each point the engine holds what it was given, then a
mark, then zeros (`StreamInv`).  `ZerosFit` bounds the zeros by the length of
the buffer, which makes them the fewest that reach the place of the length, and
there the block ends with the length.

### UdfParser

For every disc and every limit of the parser, under `UdfAssumption` (types, and
that a header is no longer than a sector):

* **`VolumeIsKept`**: `[]UdfInv`, and from it **`VolumeTypes`** (`UdfTypeOK`),
  **`FirstSequenceWins`** (`AcceptedSequenceWins`), **`AdoptedRootIsTheBest`**
  (`RootIsFirstThatResolves`) and **`RootsAreWhole`** (`SizesMayBeTooSmall`).

`SequenceInv` says that after n descriptors of a sequence the partitions and
the file set are those of the n read so far (`Obeyed`): each partition
descriptor goes to the place of its number among those of this sequence, which
is what a counter that is not reset would break.  A sequence given up has no
end among the descriptors that may be read (`GivenUpIsIncomplete`).
`PassedInv` says that the directories already passed in the search behind the
anchor are not the root, and that the largest of them is remembered; when the
search ends they are all the candidates (`CandidatesArePassed`), whether the
sectors or the tries ran out.

`Stream` is recursive over a pair of numbers, the descriptor and the sectors
read.  `ReadExists` shows that it is well defined, since every step gets nearer
to the last descriptor or to the last sector allowed; `StreamIsWhole`, that for
a directory that is on the disc it never stops early: the header of a
descriptor lies in the sectors the one before it reaches (`HeadersFollow`), so
it has been read when its turn comes (`Enough`), and the sector a descriptor
runs into is on the disc and may be appended (`ReadingGoesOn`).

### Induction

The induction theorems of the library take a predicate as a parameter, which
the installed provers cannot instantiate.  `Induction` states them about sets:
`ForestInduction` says that a set which has the roots of a forest and every
node whose parent it has, has all nodes, and `ForestRecursion` that the
function defined by recursion along the parents exists.  The first comes from
a node of least rank outside the set.  They carry the proofs about the
recursive functions of the models: paths, sums over rows, depths, offsets and
streams of descriptors.

### Only model-checked

The liveness properties `ScanEnds`, `WalkEnds`, `ConnectionsEnd`,
`HashingEndsHere` and `MountEndsHere`: fairness and ENABLED are out of the
prover's reach.

## 5. Where code and documentation disagree

Six runs check one documented statement each and find it violated by what the
code does.

* `killed_early` (`OneTreePerPlace`): a process killed between the INSERT of the
  source row (`scanner.cpp` 262) and that of the scan row (294) leaves a source
  recovery does not see.  A later `find_by_path` takes it for the previous
  tree; the real one stays beside the new one.
* `finish_fails` (`NeverLost`): when the UPDATE that closes the scan row fails
  (376) this is only logged and the switch commits.  The old tree is gone and
  the new one is marked as a dead process's leftover, which the next scan
  deletes.
* `last_commit_fails` (`CompletedIsComplete`): when the last COMMIT fails (356)
  and SQLite rolls it back, the entries of the last batch are gone and the tree
  is marked Completed.
* `cancelled_first` (`CancelKeepsScanned`): README.md 202 and
  docs/architecture.md 291 say a cancelled first scan keeps what was scanned;
  the code first rolls back the current batch, up to 999 entries (314).
* `upgrade_killed` (`UpgradedIsIndexed`): the comment at `database.cpp` 165–167
  says old catalogues are migrated by dropping the index and rebuilding it.
  DROP (182), CREATE (200) and the INSERT that rebuilds (222) commit one by
  one, and only a command that found an old table rebuilds.  Killed after the
  DROP, the next command creates an empty index and goes on.
* `split_header` (`HeadersMayCrossSectors`): the comment at `udf_parser.cpp`
  457–458 and `docs/compatibility.md` 177 say a directory is extended when a
  file identifier's header is incomplete.  The loop condition (436) ends the
  stream in that case; only an identifier whose header fits and whose rest does
  not is extended.  The identifiers behind it are lost.

Further observations, without a run of their own.  Scanning: a
failed batch COMMIT in a subdirectory is counted as one bad folder and the walk
goes on with parent ids that were rolled back (622); a directory that cannot be
listed ends its iterator, so the error branch at 488 is never taken and the
folder is catalogued as empty (this is why `tolerated`, which checks
completeness, leaves "unlistable" out); `find_by_path` trims the path it looks
for but not the one stored (`catalog.cpp` 127) and reads an error as "none"
(131); recovery commits a partial removal (457); a failing INSERT of the
scan row (296) leaves the same source without a scan row as a kill before it
does, which is why only `everything`, which does not check `OneTreePerPlace`,
has it fail; a read error ends the hashing loop (789) like the end of the file
does; single-file scans write no
full-text row, so a search does not find the file until a schema upgrade
rebuilds the index: `SettledTreesAreIndexed` is about directories, and
`EntriesCanBeFound` allows this gap and that of an `insert_fts` whose failure
was only logged (586).

Disc images: the comment at `iso_provider.cpp` 291–293 says that UDF
directories are always fully expanded, docs/architecture.md 274 that the parser
has a depth limit of 64 of its own; the code has the limit, and
`WholeUnlessCut` follows it.  Every limit is per image, so a nested image
starts with fresh counters (`expand_nested`), and an image is written within one batch (756);
`docs/provider-api.md` 114–124 calls the limits not implemented, though the
code has them; a Joliet tree that is found but cannot be read hides a readable
plain tree, and so does one with an empty root (`ReadableIsoIsWalked` leaves
Joliet out); a resolved relocation entry appears twice, in its place and in the
relocation directory; files of several extents are several entries; a temporary
file stays when the process is killed.

UDF: the standard path accepts an empty root; the reserve descriptor sequence
is never consulted; what the accepted sequence does not define remains from
anchors that failed, which `AcceptedSequenceWins` does not forbid.

Server: `send` has no timeout, so a client that does not read keeps its thread,
which `ConnectionsEnd` leaves open to it; a SIGPIPE is not ignored; `api_entry` looks up the row and each parent by
itself, so a switch between two of them can cut the path or, with reused ids,
mix two trees (`EntryAnswerIsWhole` is about answers during which nothing was
deleted, so it says nothing of these); searches that overlap without a gap hold the shared connection at an
old state.  Two commands that write at once, as two upgrades or an upgrade
beside a scan, are not excluded by the program; the model has one at a time.

## 6. Plan

Done: `ScanSource` with its refinement and theorems; `ImageWalk` (the plan's
IsoWalk) and its theorems; `CatalogServer` (SchemaMigration and Viewer in one
module, because the hazard is their meeting) and its theorems; `UdfParser` and
`Digest` (StreamHash).

Also done: every safety property and action property of a passing run is a
theorem (section 4), the refinement among them.

Left, in this order:

1. ConcurrentScans – two processes on one file: recovery of the one takes the
   other's running scan for a leftover (scanner.cpp 431).
2. The record iteration of `iso9660_parser.cpp` with its sector padding and
   Rock Ridge continuation areas.

## 7. Not modelled

* The byte formats of ISO 9660, Joliet and Rock Ridge, UDF names and time
  stamps: layouts and character conversion, covered by fixtures.  `ImageWalk`
  takes their results as given, `UdfParser` models what a descriptor decides.
* The compression functions of the digests and CRC-32: 32-bit arithmetic over
  constants, out of TLC's reach and covered by test vectors.
* Option parsing, text output and progress; logging; platform calls.
* URL decoding, HTML and JSON formatting of the viewer; ranking and the syntax
  of full-text queries.
* Metadata rows of containers; busy timeouts and WAL checkpoints of SQLite;
  vendored SQLite itself, which appears only as the meaning of the statements
  the code runs.
* `update` and `insert_batch` of the managers, which no command calls.
