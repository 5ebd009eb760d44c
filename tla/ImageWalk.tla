----------------------------- MODULE ImageWalk -----------------------------
(***************************************************************************)
(* The expansion of a disc image into virtual entries: the scanner finds   *)
(* a container, IsoProvider chooses one of its file systems and walks the  *)
(* directory tree, and image files found on the way are extracted to a     *)
(* temporary file and walked in turn.  Entries, bytes and time are limited *)
(* per image, directories and images in their nesting.                     *)
(*                                                                         *)
(* Row ids are counted from 1 in the order of insertion; 0 stands for the  *)
(* entry of the scanned file itself.                                       *)
(***************************************************************************)
EXTENDS Naturals, Sequences, FiniteSets

CONSTANTS
  Images,        \* the disc images
  Dirs,          \* the directory extents of all images
  Records,       \* the directory records
  Listing,       \* extent -> its records in the order of the disc
  Volume,        \* image -> file system -> "absent", "broken" or "readable"
  Root,          \* image -> file system -> the extent of its root directory
  Options,       \* what the scanner may be asked to do
  MaxDirDepth,   \* levels of directories in one image (kMaxDirDepth, 256)
  UdfReadDepth   \* levels the UDF parser reads (64)

FileSystems == {"udf", "joliet", "iso"}
Kinds == {"dir", "stub", "file", "link", "image"}
Damage == {"insert", "index", "unreadable", "extract", "register", "lookup"}

(* A record with the name "" has an invalid name.  A stub is a Rock Ridge  *)
(* placeholder; its name is its digit and pos the position it stands for.  *)
(* "rr_moved" stands for either name of the relocation directory.          *)
RecordType ==
  [name : STRING, kind : Kinds, to : Dirs \cup Images, size : Nat, pos : Nat]

(* entries, bytes: 0 is no limit.  nest is max_container_depth.  The       *)
(* scanner leaves the limits at their defaults, other callers of scan set  *)
(* them.  probe: content is probed, and the file is large enough for it.   *)
OptionType ==
  [image : Images, byname : BOOLEAN, probe : BOOLEAN, nest : Nat, entries : Nat,
   bytes : Nat, timed : BOOLEAN, faults : SUBSET Damage]

ASSUME WalkAssumption ==
  /\ Images \cap Dirs = {}
  /\ Records \subseteq RecordType
  /\ \A r \in Records : (r.kind \in {"dir", "stub"} <=> r.to \in Dirs)
  /\ Listing \in [Dirs -> Seq(Records)]
  /\ Volume \in [Images -> [FileSystems -> {"absent", "broken", "readable"}]]
  /\ Root \in [Images -> [FileSystems -> Dirs]]
  /\ Options \subseteq OptionType
  /\ MaxDirDepth \in Nat
  /\ UdfReadDepth \in Nat

VARIABLES
  pc,      \* "found", "walking" or "done"
  opt,     \* the options of this scan
  rows,    \* the virtual entries, in the order of their ids
  boxes,   \* the entries that have a container row
  temp,    \* the entries whose image lies in a temporary file
  jobs,    \* the activations of scan_udf and scan_iso9660, innermost first
  late,    \* how many of them, from the outermost, are past their deadline
  errors   \* was errors_ increased

vars == <<pc, opt, rows, boxes, temp, jobs, late, errors>>

(* A walk_*_directory activation: the entry its children get as parent,    *)
(* and the records it has not looked at yet.                               *)
FrameType == [id : Nat, todo : Seq(Records)]

JobType ==
  [box : Nat, tree : FileSystems, moved : Seq(Records), depth : Nat, count : Nat,
   size : Nat, hit : BOOLEAN, dirs : Seq(FrameType)]

(* box, the image a row was written for, is for the properties only; found *)
(* says that the entry has its full-text row.                              *)
RowType == [parent : Nat, rec : Records, box : Nat, found : BOOLEAN]

TypeOK ==
  /\ pc \in {"found", "walking", "done"}
  /\ opt \in Options
  /\ rows \in Seq(RowType)
  /\ boxes \subseteq Nat
  /\ temp \subseteq Nat
  /\ jobs \in Seq(JobType)
  /\ late \in 0 .. Len(jobs)
  /\ errors \in BOOLEAN

Init ==
  /\ pc = "found"
  /\ opt \in Options
  /\ rows = << >>
  /\ boxes = {}
  /\ temp = {}
  /\ jobs = << >>
  /\ late = 0
  /\ errors = FALSE

-----------------------------------------------------------------------------
(* Choosing a file system                                                  *)

Opens(image, fs) == Volume[image][fs] # "absent"

Probe(image) == Opens(image, "udf") \/ Opens(image, "iso")

(* Mutant: a damaged UDF volume is not fallen back from.                   *)
NoFallback(image) ==
  IF Opens(image, "udf")
  THEN {fs \in {"udf"} : Volume[image][fs] = "readable"}
  ELSE {fs \in {"iso"} : Volume[image][fs] = "readable"}

(* The tree that is walked, at most one: UDF, and if its root cannot be    *)
(* read the Joliet tree of an ISO 9660 volume or else its plain tree.      *)
ChosenTree(image) ==
  IF Volume[image]["udf"] = "readable" THEN {"udf"}
  ELSE IF ~Opens(image, "iso") THEN {}
  ELSE {fs \in {IF Opens(image, "joliet") THEN "joliet" ELSE "iso"} :
          Volume[image][fs] = "readable"}

Earliest(at) == {k \in at : \A j \in at : k <= j}

(* The content of the relocation directory of a plain tree.                *)
Relocated(image, tree) ==
  LET listing == Listing[Root[image]["iso"]]
      at == Earliest({k \in DOMAIN listing : listing[k].kind = "dir" /\ listing[k].name = "rr_moved"})
  IN  IF tree = "iso" /\ at # {} THEN Listing[listing[CHOOSE k \in at : TRUE].to] ELSE << >>

(* What read_directory leaves of it: a sector that cannot be read is       *)
(* warned of, and the records of the sectors before it are kept.           *)
Reads(list) ==
  {list} \cup
  {SubSeq(list, 1, k) : k \in {n \in 0 .. Len(list) : "unreadable" \in opt.faults}}

(* The record an entry stands for, if any: a placeholder is looked up by   *)
(* its digit, then by its position.                                        *)
Resolved(r, moved) ==
  LET named == Earliest({k \in DOMAIN moved : moved[k].name = r.name})
  IN  IF r.kind # "stub" THEN {r}
      ELSE {moved[k] : k \in IF named # {} THEN named ELSE {r.pos} \cap DOMAIN moved}

ValidName(r) == r.kind # "stub" /\ r.name # ""

-----------------------------------------------------------------------------
(* The innermost activation                                                *)

Job == Head(jobs)
Frame == Head(Job.dirs)

NewJob(box, image, tree, moved, depth) ==
  [box |-> box, tree |-> tree, moved |-> moved, depth |-> depth,
   count |-> 0, size |-> 0, hit |-> FALSE,
   dirs |-> <<[id |-> box, todo |-> Listing[Root[image][tree]]]>>]

(* Mutant: one entry too many.                                             *)
FullLater(job) == opt.entries > 0 /\ job.count > opt.entries

Full(job) == opt.entries > 0 /\ job.count >= opt.entries
Overflows(job) == opt.bytes > 0 /\ job.size > opt.bytes
Expired == late >= Len(jobs)

Walking == pc = "walking" /\ jobs # << >>
AtRecord == Walking /\ Job.dirs # << >> /\ Frame.todo # << >>

(* Mutant: the outer activations look only at the counters.                *)
MayGoOnUnaware == ~Full(Job) /\ ~Expired

MayGoOn == ~Job.hit /\ ~Full(Job) /\ ~Expired

(* Mutant: the loop has already gone on to the next record.                *)
PassedTwo(job) ==
  [job EXCEPT !.dirs = <<[Frame EXCEPT !.todo = SubSeq(@, 3, Len(@))]>> \o Tail(@)]

InPlaceOfJob(new) == new \o Tail(jobs)
Passed(job) == [job EXCEPT !.dirs = <<[Frame EXCEPT !.todo = Tail(@)]>> \o Tail(@)]

(* Mutant: only leaves are counted.                                        *)
CountedOnlyFiles(job, r) ==
  [job EXCEPT !.count = IF r.kind = "dir" THEN @ ELSE @ + 1, !.size = @ + r.size]

Counted(job, r) == [job EXCEPT !.count = @ + 1, !.size = @ + r.size]

(* Mutants: the caller's loop does not learn of the limit; the loop does   *)
(* not return.                                                             *)
StoppedHere(job) == [job EXCEPT !.dirs = Tail(@)]
StoppedNowhere(job) == [job EXCEPT !.hit = TRUE]

Stopped(job) == [job EXCEPT !.hit = TRUE, !.dirs = Tail(@)]

(* Mutant: the id of the row before.                                       *)
EnteredBefore(job, r) ==
  [job EXCEPT !.dirs = <<[id |-> Len(rows), todo |-> Listing[r.to]]>> \o @]

Entered(job, r) ==
  [job EXCEPT !.dirs = <<[id |-> Len(rows) + 1, todo |-> Listing[r.to]]>> \o @]

(* VirtualTreeWriter::add_entry, which only logs a failing insert_fts.     *)
AddEntry(r) ==
  \E found \in BOOLEAN :
    /\ found \/ "index" \in opt.faults
    /\ rows' = Append(rows, [parent |-> Frame.id, rec |-> r, box |-> Job.box, found |-> found])

(* The record the loop is at, substituted if it is a placeholder, and the  *)
(* activation once it has been written.                                    *)
Writable == {r \in Resolved(Head(Frame.todo), Job.moved) : ValidName(r)}
After(r) == Counted(Passed(Job), r)

-----------------------------------------------------------------------------
(* Scanner::expand_container_if_needed and IsoProvider::scan               *)

Recognised == opt.byname \/ (opt.probe /\ Probe(opt.image))

Overlook ==
  /\ pc = "found"
  /\ ~Recognised \/ "register" \in opt.faults
  /\ pc' = "done"
  /\ UNCHANGED <<opt, rows, boxes, temp, jobs, late, errors>>

Discover ==
  /\ pc = "found"
  /\ Recognised
  /\ boxes' = {0}
  /\ \/ /\ opt.nest = 0
        /\ pc' = "done"
        /\ UNCHANGED <<jobs, errors>>
     \/ /\ opt.nest > 0
        /\ \E tree \in ChosenTree(opt.image) : \E moved \in Reads(Relocated(opt.image, tree)) :
             jobs' = <<NewJob(0, opt.image, tree, moved, 1)>>
        /\ pc' = "walking"
        /\ UNCHANGED errors
     \/ /\ opt.nest > 0
        /\ ChosenTree(opt.image) = {} \/ "lookup" \in opt.faults
        /\ errors' = TRUE
        /\ pc' = "done"
        /\ UNCHANGED jobs
  /\ UNCHANGED <<opt, rows, temp, late>>

-----------------------------------------------------------------------------
(* walk_iso_directory and walk_udf_directory                               *)

(* The checks at the top of the loop.                                      *)
StopAtLimit ==
  /\ AtRecord
  /\ ~MayGoOn
  /\ jobs' = InPlaceOfJob(<<Stopped(Job)>>)
  /\ UNCHANGED <<pc, opt, rows, boxes, temp, late, errors>>

SkipRecord ==
  /\ AtRecord
  /\ MayGoOn
  /\ Writable = {} \/ "insert" \in opt.faults
  /\ jobs' = InPlaceOfJob(<<Passed(Job)>>)
  /\ UNCHANGED <<pc, opt, rows, boxes, temp, late, errors>>

(* The entry that passes the size limit is the last one kept.              *)
WriteLast ==
  /\ AtRecord
  /\ MayGoOn
  /\ \E r \in Writable :
       /\ Overflows(After(r))
       /\ AddEntry(r)
       /\ jobs' = InPlaceOfJob(<<Stopped(After(r))>>)
  /\ UNCHANGED <<pc, opt, boxes, temp, late, errors>>

(* Mutant: the deepest level is not entered.                               *)
CanEnterLess == Len(Job.dirs) + 1 < MaxDirDepth

CanEnter == Len(Job.dirs) < MaxDirDepth
CanRead == Job.tree = "udf" => Len(Job.dirs) <= UdfReadDepth

WriteDirectory ==
  /\ AtRecord
  /\ MayGoOn
  /\ \E r \in Writable :
       /\ ~Overflows(After(r))
       /\ r.kind = "dir"
       /\ AddEntry(r)
       /\ \/ /\ CanEnter /\ CanRead
             /\ jobs' = InPlaceOfJob(<<Entered(After(r), r)>>)
          \/ /\ ~CanEnter \/ ~CanRead \/ "unreadable" \in opt.faults
             /\ jobs' = InPlaceOfJob(<<After(r)>>)
  /\ UNCHANGED <<pc, opt, boxes, temp, late, errors>>

(* Mutant: one level too many.                                             *)
MayNestDeeper(r) == r.kind = "image" /\ Job.depth <= opt.nest

MayNest(r) == r.kind = "image" /\ Job.depth < opt.nest

WriteFile ==
  /\ AtRecord
  /\ MayGoOn
  /\ \E r \in Writable :
       /\ ~Overflows(After(r))
       /\ r.kind \in {"file", "link", "image"}
       /\ MayNest(r) => "extract" \in opt.faults \/ "register" \in opt.faults
       /\ AddEntry(r)
       /\ jobs' = InPlaceOfJob(<<After(r)>>)
  /\ UNCHANGED <<pc, opt, boxes, temp, late, errors>>

(* An image file is extracted and expand_nested registers it as a          *)
(* container whether or not it can be parsed.                              *)
WriteImage ==
  /\ AtRecord
  /\ MayGoOn
  /\ \E r \in Writable :
       LET id == Len(rows) + 1 IN
       /\ ~Overflows(After(r))
       /\ MayNest(r)
       /\ AddEntry(r)
       /\ boxes' = boxes \cup {id}
       /\ \/ /\ \E tree \in ChosenTree(r.to) : \E moved \in Reads(Relocated(r.to, tree)) :
                  jobs' = <<NewJob(id, r.to, tree, moved, Job.depth + 1)>>
                            \o InPlaceOfJob(<<After(r)>>)
             /\ temp' = temp \cup {id}
          \/ /\ ChosenTree(r.to) = {}
             /\ jobs' = InPlaceOfJob(<<After(r)>>)
             /\ UNCHANGED temp
  /\ UNCHANGED <<pc, opt, late, errors>>

LeaveDirectory ==
  /\ Walking
  /\ Job.dirs # << >>
  /\ Frame.todo = << >>
  /\ jobs' = InPlaceOfJob(<<[Job EXCEPT !.dirs = Tail(@)]>>)
  /\ UNCHANGED <<pc, opt, rows, boxes, temp, late, errors>>

(* Mutant: the file is removed only when the walk was not cut short.       *)
TempLeft(job) == IF job.hit THEN temp ELSE temp \ {job.box}

(* Mutant: the deadline of a walk that is over still counts.               *)
LateStill == late

LateAfter == IF late < Len(jobs) THEN late ELSE Len(jobs) - 1

TempAfter(job) == temp \ {job.box}

(* scan_udf and scan_iso9660 return true however far the walk went; the    *)
(* caller of a nested one removes the temporary file.                      *)
LeaveImage ==
  /\ Walking
  /\ Job.dirs = << >>
  /\ jobs' = Tail(jobs)
  /\ temp' = TempAfter(Job)
  /\ late' = LateAfter
  /\ pc' = IF jobs' = << >> THEN "done" ELSE "walking"
  /\ UNCHANGED <<opt, rows, boxes, errors>>

WalkStep ==
  \/ Overlook \/ Discover \/ StopAtLimit \/ SkipRecord \/ WriteLast \/ WriteDirectory
  \/ WriteFile \/ WriteImage \/ LeaveDirectory \/ LeaveImage

(* Every image has the same time, so the outermost runs out of it first.   *)
TimePasses ==
  /\ opt.timed
  /\ late < Len(jobs)
  /\ late' = late + 1
  /\ UNCHANGED <<pc, opt, rows, boxes, temp, jobs, errors>>

Rest == pc = "done" /\ UNCHANGED vars

Next == WalkStep \/ TimePasses \/ Rest

Spec == Init /\ [][Next]_vars
FairSpec == Spec /\ WF_vars(WalkStep)

-----------------------------------------------------------------------------
(* Properties                                                              *)

Ids == 1 .. Len(rows)
RowsOf(rs, box) == {i \in 1 .. Len(rs) : rs[i].box = box}
RowsIn(box) == RowsOf(rows, box)
Folder(r) == r.kind = "dir"

(* No image gets more virtual entries than max_entries, and the counter    *)
(* the guard looks at is the number of rows written for the image.         *)
EntryLimitHolds ==
  /\ opt.entries > 0 => \A box \in boxes : Cardinality(RowsIn(box)) <= opt.entries
  /\ \A i \in 1 .. Len(jobs) : jobs[i].count = Cardinality(RowsIn(jobs[i].box))

(* What an image gets without its last entry stays within                  *)
(* max_virtual_size ("the overflowing entry is the last one kept").        *)
BytesUpTo(rs, box) ==
  LET sum[i \in 0 .. Len(rs)] ==
        IF i = 0 THEN 0
        ELSE sum[i - 1] + IF rs[i].box = box THEN rs[i].rec.size ELSE 0
  IN  sum

SizeLimitHolds ==
  opt.bytes > 0 =>
    \A i \in Ids : BytesUpTo(rows, rows[i].box)[i - 1] <= opt.bytes

(* Once a limit has fired, nothing more is written for the image, however  *)
(* many activations of the walk are still open.                            *)
HitIsFinal ==
  [][\A k \in DOMAIN rows' \ DOMAIN rows, i \in 1 .. Len(jobs) :
       jobs[i].box = rows'[k].box => ~jobs[i].hit]_vars

(* The number of images a row lies in.                                     *)
NestingOf(rs) ==
  LET n[i \in 0 .. Len(rs)] == IF i = 0 THEN 0 ELSE n[rs[i].box] + 1
  IN  n

(* Images are expanded inside images down to max_container_depth levels,   *)
(* even when an image contains itself.                                     *)
NestingLimitHolds == \A i \in Ids : NestingOf(rows)[i] <= opt.nest

(* Where the entries of an image may lie.                                  *)
FoldersOf(rs, box) == {box} \cup {i \in RowsOf(rs, box) : Folder(rs[i].rec)}

HangTogether(rs, containers) ==
  /\ containers \subseteq 0 .. Len(rs)
  /\ \A i \in 1 .. Len(rs) :
       /\ rs[i].box \in containers
       /\ rs[i].box < i
       /\ rs[i].parent < i
       /\ rs[i].parent \in FoldersOf(rs, rs[i].box)

(* Every virtual entry lies in a directory of the same image, or directly  *)
(* in the container entry of the image, and was written after both.        *)
EntriesHangTogether == HangTogether(rows, boxes)

(* The temporary files are those of the images being walked.               *)
BoxesOf(js) == {js[i].box : i \in 1 .. Len(js)}

TempIsTidy == temp = BoxesOf(jobs) \ {0}

ImageOf(rs, box) == IF box = 0 THEN opt.image ELSE rs[box].rec.to

(* The level of the directory a row lies in, 1 for the root of its image.  *)
LevelsOf(rs) ==
  LET level[i \in 0 .. Len(rs)] ==
        IF i = 0 THEN 0
        ELSE level[IF rs[i].parent = rs[i].box THEN 0 ELSE rs[i].parent] + 1
  IN  level

(* Of a directory i of the image a job walks, or of its container: the     *)
(* level, whether it can be entered and read, its extent, what it has and  *)
(* what it is to have.                                                     *)
LevelIn(rs, job, i) == IF i = job.box THEN 0 ELSE LevelsOf(rs)[i]

Reached(rs, job, i) ==
  LET level == LevelIn(rs, job, i) IN
  \/ i = job.box
  \/ level < MaxDirDepth /\ (job.tree = "udf" => level <= UdfReadDepth)

ExtentIn(rs, job, i) ==
  IF i = job.box THEN Root[ImageOf(rs, job.box)][job.tree] ELSE rs[i].rec.to

ChildrenOf(rs, i, box) == {rs[k].rec : k \in {m \in RowsOf(rs, box) : rs[m].parent = i}}

WritableOf(todo, moved) ==
  {r \in UNION {Resolved(todo[k], moved) : k \in 1 .. Len(todo)} : ValidName(r)}

Contents(rs, job, i) == WritableOf(Listing[ExtentIn(rs, job, i)], job.moved)

HasItsContents(rs, job, i) ==
  ChildrenOf(rs, i, job.box) = IF Reached(rs, job, i) THEN Contents(rs, job, i) ELSE {}

(* A walk that no limit cut short and nothing went wrong in leaves every   *)
(* directory complete ("directories are always fully expanded"), down to   *)
(* MaxDirDepth levels and, in a UDF tree, one level below UdfReadDepth.    *)
WholeUnlessCut ==
  [][LeaveImage /\ ~Job.hit /\ opt.faults = {} =>
       \A i \in FoldersOf(rows, Job.box) : HasItsContents(rows, Job, i)]_vars

(* A damaged UDF volume does not hide an ISO 9660 volume that can be read  *)
(* (hybrid discs; iso_provider.cpp 478).                                   *)
ReadableIsoIsWalked ==
  (/\ pc = "done" /\ opt.byname /\ opt.nest > 0 /\ opt.faults = {}
   /\ Volume[opt.image]["iso"] = "readable" /\ Volume[opt.image]["joliet"] = "absent")
  => ~errors

(* The walk ends, also on an image whose directories form a cycle.         *)
WalkEnds == <>(pc = "done")

-----------------------------------------------------------------------------
(* The inductive invariant of ImageWalkProofs                              *)

(* An activation writes for a container row of its own; its frames are     *)
(* directories of that image; it has counted what was written.             *)
JobFits(job, rs, containers) ==
  /\ job.box \in containers
  /\ \A k \in 1 .. Len(job.dirs) : job.dirs[k].id \in FoldersOf(rs, job.box)
  /\ job.count = Cardinality(RowsOf(rs, job.box))

(* An inner activation was begun after the outer ones.                     *)
JobsFit(js, rs, containers) ==
  /\ \A i \in 1 .. Len(js) : JobFits(js[i], rs, containers)
  /\ \A i, j \in 1 .. Len(js) : i < j => js[j].box < js[i].box

NothingYet == rows = << >> /\ boxes = {} /\ jobs = << >> /\ temp = {} /\ late = 0

(* What the types, the limits and the tidiness of an expansion rest on.    *)
IInv ==
  /\ TypeOK
  /\ pc = "found" => NothingYet
  /\ EntriesHangTogether
  /\ JobsFit(jobs, rows, boxes)
  /\ TempIsTidy
  /\ EntryLimitHolds

(* The size an activation has counted is that of the rows written for it,  *)
(* within the limit until it stops; its depth is that of its container.    *)
AmountsFit(job, rs) ==
  /\ job.size = BytesUpTo(rs, job.box)[Len(rs)]
  /\ opt.bytes > 0 /\ ~job.hit => job.size <= opt.bytes
  /\ job.depth = NestingOf(rs)[job.box] + 1
  /\ job.depth <= opt.nest

(* Behind the limits of bytes and nesting, and the choice of file systems. *)
AmountsInv ==
  /\ IInv
  /\ \A i \in 1 .. Len(jobs) : AmountsFit(jobs[i], rows)
  /\ SizeLimitHolds
  /\ NestingLimitHolds
  /\ errors => ChosenTree(opt.image) = {} \/ "lookup" \in opt.faults

(* The open directories lie one in another and were all to be entered.     *)
(* What an open directory has and what its frame has yet to look at make   *)
(* up its contents; a directory that is not open is finished.              *)
OpenFits(job, rs, k) ==
  LET frame == job.dirs[k] IN
  /\ LevelIn(rs, job, frame.id) = Len(job.dirs) - k
  /\ Reached(rs, job, frame.id)
  /\ ChildrenOf(rs, frame.id, job.box) \cup WritableOf(frame.todo, job.moved) =
       Contents(rs, job, frame.id)

OpenIn(job) == {job.dirs[k].id : k \in 1 .. Len(job.dirs)}

WholeSoFar(job, rs) ==
  /\ \A k \in 1 .. Len(job.dirs) : OpenFits(job, rs, k)
  /\ \A i \in FoldersOf(rs, job.box) \ OpenIn(job) : HasItsContents(rs, job, i)

(* Behind the completeness of a walk that was not cut short.               *)
WholeInv ==
  /\ IInv
  /\ opt.faults = {} =>
       \A i \in 1 .. Len(jobs) : ~jobs[i].hit => WholeSoFar(jobs[i], rows)

=============================================================================
