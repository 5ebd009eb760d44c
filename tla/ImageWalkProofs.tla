-------------------------- MODULE ImageWalkProofs --------------------------
(***************************************************************************)
(* Theorems about ImageWalk: for all images, limits and depths, what is    *)
(* written hangs together, the limits of entries, bytes and nesting hold   *)
(* for every image, the temporary files are those of the open expansions,  *)
(* nothing is written for an image after one of its limits has fired, no   *)
(* readable image is taken for an unreadable one, and a walk that was not  *)
(* cut short leaves every directory complete.                              *)
(***************************************************************************)
EXTENDS ImageWalk, Induction, SequenceTheorems, FiniteSetTheorems, TLAPS

-----------------------------------------------------------------------------
(* Sequences whose first element changes                                   *)

LEMMA Pushed ==
  ASSUME NEW S, NEW s \in Seq(S), NEW x \in S
  PROVE  /\ <<x>> \o s \in Seq(S)
         /\ Len(<<x>> \o s) = Len(s) + 1
         /\ (<<x>> \o s)[1] = x
         /\ \A i \in 1 .. Len(s) : (<<x>> \o s)[i + 1] = s[i]
<1>1. <<x>> \in Seq(S) /\ Len(<<x>>) = 1 /\ <<x>>[1] = x
  OBVIOUS
<1>2. Len(s) \in Nat
  OBVIOUS
<1>3. QED
  BY <1>1, <1>2, ConcatProperties

LEMMA Nonempty ==
  ASSUME NEW S, NEW s \in Seq(S), s # << >>
  PROVE  /\ Len(s) \in Nat /\ 1 <= Len(s)
         /\ Head(s) = s[1] /\ s[1] \in S
         /\ Tail(s) \in Seq(S) /\ Len(Tail(s)) = Len(s) - 1
         /\ \A i \in 1 .. Len(s) - 1 : Tail(s)[i] = s[i + 1]
<1>1. Len(s) \in Nat \ {0}
  BY EmptySeq
<1>2. QED
  BY <1>1, HeadTailProperties, ElementOfSeq

LEMMA TopReplaced ==
  ASSUME NEW S, NEW s \in Seq(S), s # << >>, NEW x \in S
  PROVE  LET t == <<x>> \o Tail(s) IN
         /\ t \in Seq(S)
         /\ t # << >>
         /\ Len(t) = Len(s)
         /\ t[1] = x
         /\ \A i \in 1 .. Len(s) : i # 1 => t[i] = s[i]
<1> DEFINE t == <<x>> \o Tail(s)
<1>1. /\ Len(s) \in Nat /\ 1 <= Len(s)
      /\ Tail(s) \in Seq(S) /\ Len(Tail(s)) = Len(s) - 1
      /\ \A i \in 1 .. Len(s) - 1 : Tail(s)[i] = s[i + 1]
  BY Nonempty
<1>2. /\ t \in Seq(S) /\ Len(t) = Len(s) /\ t[1] = x
      /\ \A i \in 1 .. Len(s) - 1 : t[i + 1] = Tail(s)[i]
  BY <1>1, Pushed
<1>3. t # << >>
  BY <1>1, <1>2, EmptySeq
<1>4. ASSUME NEW i \in 1 .. Len(s), i # 1
      PROVE  t[i] = s[i]
  <2>1. i - 1 \in 1 .. Len(s) - 1 /\ (i - 1) + 1 = i
    BY <1>1, <1>4
  <2>2. QED
    BY <2>1, <1>1, <1>2
<1>5. QED
  BY <1>2, <1>3, <1>4

-----------------------------------------------------------------------------
(* A row is written                                                        *)

LEMMA RowsFinite ==
  ASSUME NEW rs \in Seq(RowType), NEW box
  PROVE  IsFiniteSet(RowsOf(rs, box)) /\ Cardinality(RowsOf(rs, box)) \in Nat
<1>1. IsFiniteSet(1 .. Len(rs))
  BY FS_Interval, LenProperties
<1>2. RowsOf(rs, box) \in SUBSET (1 .. Len(rs))
  BY DEF RowsOf
<1>3. IsFiniteSet(RowsOf(rs, box))
  BY <1>1, <1>2, FS_Subset
<1>4. QED
  BY <1>3, FS_CardinalityType

LEMMA RowAppended ==
  ASSUME NEW rs \in Seq(RowType), NEW row \in RowType
  PROVE  /\ Append(rs, row) \in Seq(RowType)
         /\ Len(Append(rs, row)) = Len(rs) + 1
         /\ Len(rs) \in Nat
         /\ \A i \in 1 .. Len(rs) : Append(rs, row)[i] = rs[i]
         /\ Append(rs, row)[Len(rs) + 1] = row
         /\ RowsOf(Append(rs, row), row.box) = RowsOf(rs, row.box) \cup {Len(rs) + 1}
         /\ \A box : box # row.box => RowsOf(Append(rs, row), box) = RowsOf(rs, box)
<1> DEFINE rt == Append(rs, row)
<1>1. Len(rs) \in Nat
  BY LenProperties
<1>2. /\ rt \in Seq(RowType) /\ Len(rt) = Len(rs) + 1
      /\ \A i \in 1 .. Len(rs) : rt[i] = rs[i]
      /\ rt[Len(rs) + 1] = row
  BY AppendProperties
<1>3. 1 .. Len(rt) = (1 .. Len(rs)) \cup {Len(rs) + 1} /\ Len(rs) + 1 \notin 1 .. Len(rs)
  BY <1>1, <1>2
<1> HIDE DEF rt
<1>4. RowsOf(rt, row.box) = RowsOf(rs, row.box) \cup {Len(rs) + 1}
  BY <1>2, <1>3 DEF RowsOf
<1>5. ASSUME NEW box, box # row.box
      PROVE  RowsOf(rt, box) = RowsOf(rs, box)
  BY <1>2, <1>3, <1>5 DEF RowsOf
<1>6. QED
  BY <1>1, <1>2, <1>4, <1>5 DEF rt

LEMMA FoldersGrow ==
  ASSUME NEW rs \in Seq(RowType), NEW row \in RowType, NEW box
  PROVE  FoldersOf(rs, box) \subseteq FoldersOf(Append(rs, row), box)
<1>1. RowsOf(rs, box) \subseteq RowsOf(Append(rs, row), box)
  <2>1. CASE box = row.box
    BY <2>1, RowAppended
  <2>2. CASE box # row.box
    BY <2>2, RowAppended
  <2>3. QED
    BY <2>1, <2>2
<1>2. \A i \in RowsOf(rs, box) : Append(rs, row)[i] = rs[i]
  BY RowAppended DEF RowsOf
<1>3. QED
  BY <1>1, <1>2 DEF FoldersOf

LEMMA HangTogetherKept ==
  ASSUME NEW rs \in Seq(RowType), NEW row \in RowType, NEW boxesNow,
         HangTogether(rs, boxesNow),
         row.box \in boxesNow, row.parent \in FoldersOf(rs, row.box),
         NEW more \in SUBSET {Len(rs) + 1}
  PROVE  HangTogether(Append(rs, row), boxesNow \cup more)
<1> DEFINE rt == Append(rs, row)
<1>1. /\ Len(rs) \in Nat /\ Len(rt) = Len(rs) + 1
      /\ \A i \in 1 .. Len(rs) : rt[i] = rs[i]
      /\ rt[Len(rs) + 1] = row
  BY RowAppended
<1>2. boxesNow \subseteq 0 .. Len(rs)
  BY DEF HangTogether
<1>3. boxesNow \cup more \subseteq 0 .. Len(rt)
  BY <1>1, <1>2
<1>4. \A box : FoldersOf(rs, box) \subseteq FoldersOf(rt, box)
  BY FoldersGrow
<1> HIDE DEF rt
<1>5. ASSUME NEW i \in 1 .. Len(rt)
      PROVE  /\ rt[i].box \in boxesNow \cup more
             /\ rt[i].box < i
             /\ rt[i].parent < i
             /\ rt[i].parent \in FoldersOf(rt, rt[i].box)
  <2>1. CASE i \in 1 .. Len(rs)
    BY <2>1, <1>1, <1>4 DEF HangTogether
  <2>2. CASE i = Len(rs) + 1
    <3>1. row.parent = row.box \/ row.parent \in 1 .. Len(rs)
      BY DEF FoldersOf, RowsOf
    <3>2. row.box \in 0 .. Len(rs)
      BY <1>2
    <3>3. QED
      BY <2>2, <3>1, <3>2, <1>1, <1>4
  <2>3. QED
    BY <2>1, <2>2, <1>1
<1>6. QED
  BY <1>3, <1>5 DEF HangTogether, rt

(* Boxes are numbered before their rows, so a new one has none.            *)
LEMMA NewBoxIsEmpty ==
  ASSUME NEW rs \in Seq(RowType), NEW row \in RowType, NEW boxesNow,
         HangTogether(rs, boxesNow), row.box \in boxesNow
  PROVE  /\ Len(rs) + 1 \notin boxesNow
         /\ RowsOf(Append(rs, row), Len(rs) + 1) = {}
<1>1. Len(rs) \in Nat /\ boxesNow \subseteq 0 .. Len(rs)
  BY LenProperties DEF HangTogether
<1>2. Len(rs) + 1 \notin boxesNow
  BY <1>1
<1>3. RowsOf(rs, Len(rs) + 1) = {}
  BY <1>2 DEF HangTogether, RowsOf
<1>4. QED
  BY <1>2, <1>3, RowAppended

LEMMA RowsCounted ==
  ASSUME NEW rs \in Seq(RowType), NEW row \in RowType, NEW box
  PROVE  Cardinality(RowsOf(Append(rs, row), box)) =
           IF box = row.box THEN Cardinality(RowsOf(rs, box)) + 1
                            ELSE Cardinality(RowsOf(rs, box))
<1>1. CASE box = row.box
  <2>1. Len(rs) + 1 \notin RowsOf(rs, box)
    <3>1. Len(rs) \in Nat
      BY LenProperties
    <3>2. QED
      BY <3>1 DEF RowsOf
  <2>2. RowsOf(Append(rs, row), box) = RowsOf(rs, box) \cup {Len(rs) + 1}
    BY <1>1, RowAppended
  <2>3. QED
    <3>1. IsFiniteSet(RowsOf(rs, box))
      BY RowsFinite
    <3>2. Cardinality(RowsOf(rs, box) \cup {Len(rs) + 1}) = Cardinality(RowsOf(rs, box)) + 1
      BY <2>1, <3>1, FS_AddElement
    <3>3. QED
      BY <1>1, <2>2, <3>2
<1>2. CASE box # row.box
  BY <1>2, RowAppended
<1>3. QED
  BY <1>1, <1>2

-----------------------------------------------------------------------------
(* The activations                                                         *)

LEMMA TopFits ==
  ASSUME NEW js \in Seq(JobType), js # << >>, NEW rs, NEW containers,
         JobsFit(js, rs, containers),
         NEW x \in JobType, x.box = js[1].box,
         NEW rt, NEW containersNow,
         JobFits(x, rt, containersNow),
         \A i \in 1 .. Len(js) : i # 1 => JobFits(js[i], rt, containersNow)
  PROVE  /\ JobsFit(<<x>> \o Tail(js), rt, containersNow)
         /\ BoxesOf(<<x>> \o Tail(js)) = BoxesOf(js)
<1> DEFINE new == <<x>> \o Tail(js)
<1>1. /\ Len(new) = Len(js) /\ new[1] = x
      /\ \A i \in 1 .. Len(js) : i # 1 => new[i] = js[i]
  BY TopReplaced
<1> HIDE DEF new
<1>2. \A i \in 1 .. Len(js) : new[i].box = js[i].box
  BY <1>1
<1>3. \A i \in 1 .. Len(new) : JobFits(new[i], rt, containersNow)
  BY <1>1
<1>4. \A i, j \in 1 .. Len(new) : i < j => new[j].box < new[i].box
  BY <1>1, <1>2 DEF JobsFit
<1>5. BoxesOf(new) = BoxesOf(js)
  BY <1>1, <1>2 DEF BoxesOf
<1>6. QED
  BY <1>3, <1>4, <1>5 DEF JobsFit, new

(* A row changes nothing for the activations of other images.              *)
LEMMA OthersFit ==
  ASSUME NEW rs \in Seq(RowType), NEW row \in RowType, NEW containers,
         NEW containersNow, containers \subseteq containersNow,
         NEW job \in JobType, JobFits(job, rs, containers), job.box # row.box
  PROVE  JobFits(job, Append(rs, row), containersNow)
<1>1. FoldersOf(rs, job.box) \subseteq FoldersOf(Append(rs, row), job.box)
  BY FoldersGrow
<1>2. Cardinality(RowsOf(Append(rs, row), job.box)) = Cardinality(RowsOf(rs, job.box))
  BY RowsCounted
<1>3. QED
  BY <1>1, <1>2 DEF JobFits

(* The activation that wrote the row.                                      *)
LEMMA WriterFits ==
  ASSUME NEW rs \in Seq(RowType), NEW row \in RowType, NEW containers,
         NEW containersNow, containers \subseteq containersNow,
         NEW job \in JobType, JobFits(job, rs, containers), job.box = row.box,
         NEW x \in JobType, x.box = job.box, x.count = job.count + 1,
         \A k \in 1 .. Len(x.dirs) :
           \/ x.dirs[k].id \in FoldersOf(rs, job.box)
           \/ Folder(row.rec) /\ x.dirs[k].id = Len(rs) + 1
  PROVE  JobFits(x, Append(rs, row), containersNow)
<1> DEFINE rt == Append(rs, row)
<1>1. FoldersOf(rs, job.box) \subseteq FoldersOf(rt, job.box)
  BY FoldersGrow
<1>2. Folder(row.rec) => Len(rs) + 1 \in FoldersOf(rt, job.box)
  <2>1. /\ rt[Len(rs) + 1] = row
        /\ RowsOf(rt, row.box) = RowsOf(rs, row.box) \cup {Len(rs) + 1}
    BY RowAppended
  <2> HIDE DEF rt
  <2>2. QED
    BY <2>1 DEF FoldersOf
<1>3. Cardinality(RowsOf(rt, job.box)) = Cardinality(RowsOf(rs, job.box)) + 1
  BY RowsCounted
<1>4. QED
  BY <1>1, <1>2, <1>3 DEF JobFits

LEMMA BoxesDiffer ==
  ASSUME NEW js \in Seq(JobType), NEW rs, NEW containers, JobsFit(js, rs, containers),
         NEW i \in 1 .. Len(js), i # 1
  PROVE  js[i].box # js[1].box
<1>1. Len(js) \in Nat
  BY LenProperties
<1>2. 1 \in 1 .. Len(js) /\ 1 < i
  BY <1>1
<1>3. js[i].box < js[1].box
  BY <1>2 DEF JobsFit
<1>4. js[i] \in JobType /\ js[1] \in JobType
  BY <1>2, ElementOfSeq
<1>5. js[i].box \in Nat /\ js[1].box \in Nat
  BY <1>4 DEF JobType
<1>6. QED
  BY <1>3, <1>5

-----------------------------------------------------------------------------
(* Types of what an action puts together                                   *)

LEMMA OptTyped ==
  ASSUME TypeOK
  PROVE  /\ opt \in OptionType /\ opt.entries \in Nat /\ opt.image \in Images
BY WalkAssumption DEF TypeOK, OptionType

LEMMA TopTyped ==
  ASSUME TypeOK, Walking
  PROVE  /\ Job \in JobType /\ Job = jobs[1]
         /\ Len(jobs) \in Nat /\ 1 <= Len(jobs)
         /\ Job.dirs \in Seq(FrameType) /\ Job.box \in Nat
         /\ Tail(jobs) \in Seq(JobType)
<1>1. jobs \in Seq(JobType) /\ jobs # << >>
  BY DEF TypeOK, Walking
<1>2. /\ Job \in JobType /\ Job = jobs[1] /\ Tail(jobs) \in Seq(JobType)
      /\ Len(jobs) \in Nat /\ 1 <= Len(jobs)
  BY <1>1, Nonempty DEF Job
<1>3. Job.dirs \in Seq(FrameType) /\ Job.box \in Nat
  BY <1>2 DEF JobType
<1>4. QED
  BY <1>2, <1>3

LEMMA FrameTyped ==
  ASSUME TypeOK, AtRecord
  PROVE  /\ Frame \in FrameType /\ Frame = Job.dirs[1]
         /\ Frame.id \in Nat
         /\ Head(Frame.todo) \in Records /\ Tail(Frame.todo) \in Seq(Records)
         /\ Tail(Job.dirs) \in Seq(FrameType)
<1>1. Job.dirs \in Seq(FrameType) /\ Job.dirs # << >>
  BY TopTyped DEF AtRecord
<1>2. Frame \in FrameType /\ Frame = Job.dirs[1] /\ Tail(Job.dirs) \in Seq(FrameType)
  BY <1>1, Nonempty DEF Frame
<1>3. Frame.todo \in Seq(Records) /\ Frame.todo # << >> /\ Frame.id \in Nat
  BY <1>2 DEF FrameType, AtRecord
<1>4. QED
  BY <1>2, <1>3, Nonempty

(* To look at a record changes no entry an activation writes under.        *)
LEMMA PassedTyped ==
  ASSUME TypeOK, AtRecord
  PROVE  /\ Passed(Job) \in JobType
         /\ Passed(Job).box = Job.box /\ Passed(Job).count = Job.count
         /\ Len(Passed(Job).dirs) = Len(Job.dirs)
         /\ \A k \in 1 .. Len(Job.dirs) : Passed(Job).dirs[k].id = Job.dirs[k].id
<1> DEFINE frame == [Frame EXCEPT !.todo = Tail(Frame.todo)]
           dirs == <<frame>> \o Tail(Job.dirs)
<1>1. frame \in FrameType /\ frame.id = Frame.id
  BY FrameTyped DEF FrameType
<1>2. Job \in JobType /\ Job.dirs \in Seq(FrameType) /\ Job.dirs # << >>
  BY TopTyped DEF AtRecord
<1> HIDE DEF frame
<1>3. /\ dirs \in Seq(FrameType) /\ Len(dirs) = Len(Job.dirs) /\ dirs[1] = frame
      /\ \A k \in 1 .. Len(Job.dirs) : k # 1 => dirs[k] = Job.dirs[k]
  BY <1>1, <1>2, TopReplaced
<1>4. \A k \in 1 .. Len(Job.dirs) : dirs[k].id = Job.dirs[k].id
  BY <1>1, <1>3, FrameTyped
<1>5. Passed(Job) = [Job EXCEPT !.dirs = dirs]
  BY DEF Passed, frame
<1> HIDE DEF dirs
<1>6. QED
  BY <1>2, <1>3, <1>4, <1>5 DEF JobType

LEMMA CountedTyped ==
  ASSUME NEW job \in JobType, NEW r \in Records
  PROVE  /\ Counted(job, r) \in JobType
         /\ Counted(job, r).box = job.box /\ Counted(job, r).count = job.count + 1
         /\ Counted(job, r).dirs = job.dirs
<1>1. r.size \in Nat
  BY WalkAssumption DEF RecordType
<1>2. job.count + 1 \in Nat /\ job.size + r.size \in Nat
  BY <1>1 DEF JobType
<1>3. QED
  BY <1>2 DEF Counted, JobType

LEMMA AfterTyped ==
  ASSUME TypeOK, AtRecord, NEW r \in Records
  PROVE  /\ After(r) \in JobType
         /\ After(r).box = Job.box /\ After(r).count = Job.count + 1
         /\ Len(After(r).dirs) = Len(Job.dirs)
         /\ \A k \in 1 .. Len(Job.dirs) : After(r).dirs[k].id = Job.dirs[k].id
BY PassedTyped, CountedTyped DEF After

LEMMA StoppedTyped ==
  ASSUME NEW job \in JobType, job.dirs # << >>
  PROVE  /\ Stopped(job) \in JobType
         /\ Stopped(job).box = job.box /\ Stopped(job).count = job.count
         /\ Len(job.dirs) \in Nat
         /\ Len(Stopped(job).dirs) = Len(job.dirs) - 1
         /\ \A k \in 1 .. Len(job.dirs) - 1 : Stopped(job).dirs[k] = job.dirs[k + 1]
<1>1. job.dirs \in Seq(FrameType)
  BY DEF JobType
<1>2. QED
  BY <1>1, Nonempty DEF Stopped, JobType

LEMMA RelocatedTyped ==
  ASSUME NEW image \in Images, NEW tree \in FileSystems
  PROVE  Relocated(image, tree) \in Seq(Records)
<1> DEFINE listing == Listing[Root[image]["iso"]]
           at == Earliest({k \in DOMAIN listing :
                             listing[k].kind = "dir" /\ listing[k].name = "rr_moved"})
<1>1. listing \in Seq(Records)
  BY WalkAssumption DEF FileSystems
<1>2. << >> \in Seq(Records)
  OBVIOUS
<1>3. ASSUME NEW k \in at
      PROVE  Listing[listing[k].to] \in Seq(Records)
  <2>1. k \in DOMAIN listing /\ listing[k].kind = "dir"
    BY DEF Earliest
  <2>2. listing[k] \in Records
    BY <1>1, <2>1
  <2>3. listing[k].to \in Dirs
    BY <2>1, <2>2, WalkAssumption
  <2>4. QED
    BY <2>3, WalkAssumption
<1>4. at # {} => (CHOOSE k \in at : TRUE) \in at
  OBVIOUS
<1>5. QED
  BY <1>2, <1>3, <1>4 DEF Relocated

LEMMA ReadsTyped ==
  ASSUME NEW list \in Seq(Records)
  PROVE  Reads(list) \subseteq Seq(Records)
<1>1. ASSUME NEW k \in 0 .. Len(list)
      PROVE  SubSeq(list, 1, k) \in Seq(Records)
  <2>1. Len(list) \in Nat /\ list = [i \in 1 .. Len(list) |-> list[i]]
        /\ \A i \in 1 .. Len(list) : list[i] \in Records
    BY LenProperties, ElementOfSeq
  <2>2. SubSeq(list, 1, k) = [i \in 1 .. k |-> list[i]]
    BY <2>1
  <2>3. \A i \in 1 .. k : list[i] \in Records
    BY <2>1
  <2>4. QED
    BY <2>2, <2>3
<1>2. QED
  BY <1>1 DEF Reads

(* The relocated records a walk of an image may have read.                 *)
LEMMA ReadOfImage ==
  ASSUME NEW image \in Images, NEW tree \in FileSystems
  PROVE  Reads(Relocated(image, tree)) \subseteq Seq(Records)
BY RelocatedTyped, ReadsTyped

LEMMA ResolvedTyped ==
  ASSUME NEW r \in Records, NEW list \in Seq(Records)
  PROVE  Resolved(r, list) \subseteq Records
<1>1. \A k \in DOMAIN list : list[k] \in Records
  OBVIOUS
<1>2. QED
  BY <1>1 DEF Resolved, Earliest

LEMMA WritableTyped ==
  ASSUME TypeOK, AtRecord
  PROVE  Writable \subseteq Records
<1>1. Job.moved \in Seq(Records)
  BY TopTyped DEF JobType, AtRecord
<1>2. QED
  BY <1>1, FrameTyped, ResolvedTyped DEF Writable

LEMMA NewJobTyped ==
  ASSUME NEW box \in Nat, NEW image \in Images, NEW tree \in FileSystems,
         NEW moved \in Seq(Records), NEW depth \in Nat
  PROVE  LET job == NewJob(box, image, tree, moved, depth) IN
         /\ job \in JobType
         /\ job.box = box /\ job.count = 0
         /\ Len(job.dirs) = 1 /\ job.dirs[1].id = box
<1> DEFINE frame == [id |-> box, todo |-> Listing[Root[image][tree]]]
<1>1. Listing[Root[image][tree]] \in Seq(Records)
  BY WalkAssumption
<1>2. frame \in FrameType
  BY <1>1 DEF FrameType
<1> HIDE DEF frame
<1>3. <<frame>> \in Seq(FrameType) /\ Len(<<frame>>) = 1 /\ <<frame>>[1] = frame
  BY <1>2
<1>4. NewJob(box, image, tree, moved, depth) =
        [box |-> box, tree |-> tree, moved |-> moved, depth |-> depth,
         count |-> 0, size |-> 0, hit |-> FALSE, dirs |-> <<frame>>]
  BY DEF NewJob, frame
<1>5. frame.id = box
  BY DEF frame
<1>6. QED
  BY <1>3, <1>4, <1>5 DEF JobType

LEMMA ChosenIsOne ==
  ASSUME NEW image
  PROVE  ChosenTree(image) \subseteq FileSystems
BY DEF ChosenTree, FileSystems

-----------------------------------------------------------------------------
(* Steps that write nothing                                                *)

LEMMA LimitOf ==
  ASSUME EntryLimitHolds, opt.entries > 0
  PROVE  \A box \in boxes : Cardinality(RowsOf(rows, box)) <= opt.entries
BY DEF EntryLimitHolds, RowsIn

LEMMA QuietStep ==
  ASSUME IInv, Walking, NEW x \in JobType, x.box = Job.box, x.count = Job.count,
         \A k \in 1 .. Len(x.dirs) : \E m \in 1 .. Len(Job.dirs) : x.dirs[k].id = Job.dirs[m].id,
         jobs' = InPlaceOfJob(<<x>>),
         UNCHANGED <<pc, opt, rows, boxes, temp, late, errors>>
  PROVE  IInv'
<1>1. /\ jobs \in Seq(JobType) /\ jobs # << >> /\ Job = jobs[1]
      /\ 1 \in 1 .. Len(jobs)
      /\ JobsFit(jobs, rows, boxes)
  <2>1. TypeOK
    BY DEF IInv
  <2>2. QED
    BY <2>1, TopTyped DEF IInv, TypeOK, Walking
<1>2. JobFits(Job, rows, boxes)
  BY <1>1 DEF JobsFit
<1>3. JobFits(x, rows, boxes)
  BY <1>2 DEF JobFits
<1>4. \A i \in 1 .. Len(jobs) : JobFits(jobs[i], rows, boxes)
  BY <1>1 DEF JobsFit
<1>5. /\ JobsFit(jobs', rows, boxes)
      /\ BoxesOf(jobs') = BoxesOf(jobs)
  BY <1>1, <1>3, <1>4, TopFits DEF InPlaceOfJob
<1>6. jobs' \in Seq(JobType) /\ Len(jobs') = Len(jobs)
  BY <1>1, TopReplaced DEF InPlaceOfJob
<1>7. TypeOK'
  BY <1>6 DEF IInv, TypeOK
<1>8. JobsFit(jobs, rows, boxes)'
  BY <1>5
<1>9. TempIsTidy'
  BY <1>5 DEF IInv, TempIsTidy
<1>10. EntriesHangTogether'
  BY DEF IInv, EntriesHangTogether
<1>11. EntryLimitHolds'
  <2>1. opt.entries > 0 => \A box \in boxes : Cardinality(RowsOf(rows, box)) <= opt.entries
    BY LimitOf DEF IInv
  <2>2. (opt.entries > 0 => \A box \in boxes : Cardinality(RowsOf(rows, box)) <= opt.entries)'
    BY <2>1
  <2>3. QED
    BY <2>2, <1>8 DEF EntryLimitHolds, JobsFit, JobFits, RowsIn
<1>12. pc' # "found"
  BY DEF Walking
<1>13. QED
  BY <1>7, <1>8, <1>9, <1>10, <1>11, <1>12 DEF IInv

-----------------------------------------------------------------------------
(* Steps that write a row                                                  *)

LEMMA Written ==
  ASSUME IInv, AtRecord, MayGoOn, NEW r \in Records, AddEntry(r),
         NEW x \in JobType, x.box = Job.box, x.count = Job.count + 1,
         \A k \in 1 .. Len(x.dirs) :
           \/ \E m \in 1 .. Len(Job.dirs) : x.dirs[k].id = Job.dirs[m].id
           \/ Folder(r) /\ x.dirs[k].id = Len(rows) + 1,
         NEW more \in SUBSET {Len(rows) + 1},
         boxes' = boxes \cup more,
         UNCHANGED opt
  PROVE  LET js == InPlaceOfJob(<<x>>) IN
         /\ rows' \in Seq(RowType) /\ Len(rows) \in Nat /\ Len(rows') = Len(rows) + 1
         /\ EntriesHangTogether'
         /\ js \in Seq(JobType) /\ js # << >> /\ Len(js) = Len(jobs)
         /\ JobsFit(js, rows', boxes')
         /\ BoxesOf(js) = BoxesOf(jobs)
         /\ opt.entries > 0 =>
              \A box \in boxes' : Cardinality(RowsOf(rows', box)) <= opt.entries
         /\ Job.box \in boxes
         /\ Len(rows) + 1 \notin boxes
         /\ RowsOf(rows', Len(rows) + 1) = {}
<1> DEFINE js == InPlaceOfJob(<<x>>)
<1>1. TypeOK /\ HangTogether(rows, boxes) /\ JobsFit(jobs, rows, boxes)
  BY DEF IInv, EntriesHangTogether
<1>2. /\ rows \in Seq(RowType) /\ jobs \in Seq(JobType) /\ jobs # << >>
      /\ Job = jobs[1] /\ 1 \in 1 .. Len(jobs) /\ Job \in JobType
  BY <1>1, TopTyped DEF TypeOK, AtRecord, Walking
<1>3. JobFits(Job, rows, boxes)
  BY <1>1, <1>2 DEF JobsFit
<1>4. Frame.id \in FoldersOf(rows, Job.box)
  <2>1. Job.dirs \in Seq(FrameType) /\ Job.dirs # << >>
    BY <1>2 DEF JobType, AtRecord
  <2>2. 1 \in 1 .. Len(Job.dirs)
    BY <2>1, Nonempty
  <2>3. QED
    BY <1>1, <1>3, <2>2, FrameTyped DEF JobFits
<1>5. PICK found \in BOOLEAN :
        rows' = Append(rows, [parent |-> Frame.id, rec |-> r, box |-> Job.box, found |-> found])
  BY DEF AddEntry
<1> DEFINE row == [parent |-> Frame.id, rec |-> r, box |-> Job.box, found |-> found]
<1>6. row \in RowType
  BY <1>1, <1>2, FrameTyped DEF RowType, JobType
<1>7. row.box = Job.box /\ row.parent = Frame.id /\ row.rec = r /\ rows' = Append(rows, row)
  BY <1>5
<1>8. row.box \in boxes
  BY <1>3, <1>7 DEF JobFits
<1> HIDE DEF row
<1>9. rows' \in Seq(RowType) /\ Len(rows) \in Nat /\ Len(rows') = Len(rows) + 1
  BY <1>2, <1>6, <1>7, RowAppended
<1>10. HangTogether(rows', boxes')
  BY <1>1, <1>2, <1>4, <1>6, <1>7, <1>8, HangTogetherKept
<1>11. JobFits(x, rows', boxes')
  <2>1. \A k \in 1 .. Len(x.dirs) :
          \/ x.dirs[k].id \in FoldersOf(rows, Job.box)
          \/ Folder(row.rec) /\ x.dirs[k].id = Len(rows) + 1
    BY <1>3, <1>7 DEF JobFits
  <2>2. boxes \subseteq boxes'
    OBVIOUS
  <2>3. QED
    BY <1>2, <1>3, <1>6, <1>7, <2>1, <2>2, WriterFits
<1>12. ASSUME NEW i \in 1 .. Len(jobs), i # 1
       PROVE  JobFits(jobs[i], rows', boxes')
  <2>1. jobs[i].box # Job.box
    BY <1>1, <1>2, <1>12, BoxesDiffer
  <2>2. jobs[i] \in JobType /\ JobFits(jobs[i], rows, boxes)
    BY <1>1, <1>2, ElementOfSeq DEF JobsFit
  <2>3. QED
    BY <1>2, <1>6, <1>7, <2>1, <2>2, OthersFit
<1>13. JobsFit(js, rows', boxes') /\ BoxesOf(js) = BoxesOf(jobs)
  BY <1>1, <1>2, <1>11, <1>12, TopFits DEF InPlaceOfJob
<1>14. js \in Seq(JobType) /\ js # << >> /\ Len(js) = Len(jobs)
  BY <1>2, TopReplaced DEF InPlaceOfJob
<1>15. Len(rows) + 1 \notin boxes /\ RowsOf(rows', Len(rows) + 1) = {}
  BY <1>1, <1>2, <1>6, <1>7, <1>8, NewBoxIsEmpty
<1>16. ASSUME opt.entries > 0, NEW box \in boxes'
       PROVE  Cardinality(RowsOf(rows', box)) <= opt.entries
  <2>1. opt.entries \in Nat
    BY <1>1, OptTyped
  <2>2. CASE box = Len(rows) + 1
    <3>1. Cardinality({}) = 0
      BY FS_EmptySet
    <3>2. Cardinality(RowsOf(rows', box)) = 0
      BY <2>2, <1>15, <3>1
    <3>3. QED
      BY <2>1, <3>2
  <2>3. CASE box \in boxes /\ box # Job.box
    <3>1. Cardinality(RowsOf(rows', box)) = Cardinality(RowsOf(rows, box))
      BY <2>3, <1>2, <1>6, <1>7, RowsCounted
    <3>2. QED
      BY <3>1, <2>3, <1>16, LimitOf DEF IInv
  <2>4. CASE box = Job.box
    <3>1. Cardinality(RowsOf(rows', box)) = Job.count + 1
      BY <2>4, <1>2, <1>3, <1>6, <1>7, RowsCounted DEF JobFits
    <3>2. ~(Job.count >= opt.entries)
      BY <1>16 DEF MayGoOn, Full
    <3>3. Job.count \in Nat
      BY <1>2 DEF JobType
    <3>4. QED
      BY <2>1, <3>1, <3>2, <3>3
  <2>5. QED
    BY <2>2, <2>3, <2>4
<1>17. QED
  BY <1>7, <1>8, <1>9, <1>10, <1>13, <1>14, <1>15, <1>16 DEF EntriesHangTogether

LEMMA WrittenKeeps ==
  ASSUME IInv, AtRecord, MayGoOn, NEW r \in Records, AddEntry(r),
         NEW x \in JobType, x.box = Job.box, x.count = Job.count + 1,
         \A k \in 1 .. Len(x.dirs) :
           \/ \E m \in 1 .. Len(Job.dirs) : x.dirs[k].id = Job.dirs[m].id
           \/ Folder(r) /\ x.dirs[k].id = Len(rows) + 1,
         NEW more \in SUBSET {Len(rows) + 1},
         boxes' = boxes \cup more,
         jobs' = InPlaceOfJob(<<x>>),
         UNCHANGED <<pc, opt, temp, late, errors>>
  PROVE  IInv'
<1>1. /\ rows' \in Seq(RowType) /\ Len(rows) \in Nat
      /\ EntriesHangTogether'
      /\ jobs' \in Seq(JobType) /\ Len(jobs') = Len(jobs)
      /\ JobsFit(jobs', rows', boxes')
      /\ BoxesOf(jobs') = BoxesOf(jobs)
      /\ opt.entries > 0 => \A box \in boxes' : Cardinality(RowsOf(rows', box)) <= opt.entries
  BY Written
<1>2. TypeOK'
  <2>1. TypeOK
    BY DEF IInv
  <2>2. boxes' \subseteq Nat
    BY <1>1, <2>1 DEF TypeOK
  <2>3. late' \in 0 .. Len(jobs')
    BY <1>1, <2>1 DEF TypeOK
  <2>4. QED
    BY <1>1, <2>1, <2>2, <2>3 DEF TypeOK
<1>3. TempIsTidy'
  BY <1>1 DEF IInv, TempIsTidy
<1>4. EntryLimitHolds'
  BY <1>1 DEF EntryLimitHolds, JobsFit, JobFits, RowsIn
<1>5. pc' # "found"
  BY DEF AtRecord, Walking
<1>6. QED
  BY <1>1, <1>2, <1>3, <1>4, <1>5 DEF IInv

-----------------------------------------------------------------------------
(* The actions                                                             *)

LEMMA InitIInv == Init => IInv
<1> SUFFICES ASSUME Init
             PROVE  IInv
  OBVIOUS
<1>1. TypeOK
  <2>1. << >> \in Seq(RowType) /\ << >> \in Seq(JobType) /\ 0 \in 0 .. Len(<< >>)
    BY EmptySeq
  <2>2. QED
    BY <2>1 DEF Init, TypeOK
<1>2. EntriesHangTogether
  BY DEF Init, EntriesHangTogether, HangTogether
<1>3. JobsFit(jobs, rows, boxes) /\ TempIsTidy /\ EntryLimitHolds
  BY DEF Init, JobsFit, TempIsTidy, BoxesOf, EntryLimitHolds
<1>4. QED
  BY <1>1, <1>2, <1>3 DEF IInv, NothingYet, Init

LEMMA OverlookKeeps ==
  ASSUME IInv, Overlook
  PROVE  IInv'
<1>1. TypeOK'
  BY DEF IInv, TypeOK, Overlook
<1>2. EntriesHangTogether' /\ TempIsTidy'
  BY DEF IInv, EntriesHangTogether, TempIsTidy, Overlook
<1>3. JobsFit(jobs, rows, boxes)' /\ EntryLimitHolds'
  BY DEF IInv, JobsFit, EntryLimitHolds, RowsIn, Overlook
<1>4. QED
  BY <1>1, <1>2, <1>3 DEF IInv, Overlook

LEMMA DiscoverKeeps ==
  ASSUME IInv, Discover
  PROVE  IInv'
<1>1. /\ TypeOK /\ opt \in OptionType /\ opt.image \in Images /\ opt.entries \in Nat
      /\ rows = << >> /\ jobs = << >> /\ temp = {} /\ late = 0
  BY OptTyped DEF IInv, NothingYet, Discover
<1>2. /\ boxes' = {0} /\ rows' = << >> /\ temp' = {} /\ late' = 0 /\ opt' = opt
      /\ pc' \in {"walking", "done"} /\ errors' \in BOOLEAN
  BY <1>1 DEF Discover, TypeOK
<1>3. \/ jobs' = << >>
      \/ \E tree \in FileSystems, moved \in Seq(Records) :
           jobs' = <<NewJob(0, opt.image, tree, moved, 1)>>
  BY <1>1, ChosenIsOne, ReadOfImage DEF Discover
<1>4. RowsOf(<< >>, 0) = {} /\ Cardinality({}) = 0
  BY FS_EmptySet DEF RowsOf
<1>5. EntriesHangTogether'
  BY <1>2 DEF EntriesHangTogether, HangTogether
<1>6. jobs' \in Seq(JobType) /\ JobsFit(jobs', << >>, {0}) /\ BoxesOf(jobs') \subseteq {0}
  <2>1. CASE jobs' = << >>
    BY <2>1 DEF JobsFit, BoxesOf
  <2>2. CASE \E tree \in FileSystems, moved \in Seq(Records) :
             jobs' = <<NewJob(0, opt.image, tree, moved, 1)>>
    <3>1. PICK tree \in FileSystems, moved \in Seq(Records) :
            jobs' = <<NewJob(0, opt.image, tree, moved, 1)>>
      BY <2>2
    <3> DEFINE job == NewJob(0, opt.image, tree, moved, 1)
    <3>2. /\ job \in JobType /\ job.box = 0 /\ job.count = 0
          /\ Len(job.dirs) = 1 /\ job.dirs[1].id = 0
      BY <1>1, NewJobTyped
    <3>3. jobs' = <<job>>
      BY <3>1
    <3> HIDE DEF job
    <3>4. jobs' \in Seq(JobType) /\ Len(jobs') = 1 /\ jobs'[1] = job
      BY <3>2, <3>3
    <3>5. JobFits(job, << >>, {0})
      <4>1. job.count = Cardinality(RowsOf(<< >>, 0))
        BY <1>4, <3>2
      <4>2. \A k \in 1 .. Len(job.dirs) : job.dirs[k].id = 0
        BY <3>2
      <4>3. \A k \in 1 .. Len(job.dirs) : job.dirs[k].id \in FoldersOf(<< >>, 0)
        BY <4>2 DEF FoldersOf
      <4>4. QED
        BY <3>2, <4>1, <4>3 DEF JobFits
    <3>6. JobsFit(jobs', << >>, {0})
      BY <3>4, <3>5 DEF JobsFit
    <3>7. QED
      BY <3>2, <3>4, <3>6 DEF BoxesOf
  <2>3. QED
    BY <1>3, <2>1, <2>2
<1>7. EntryLimitHolds'
  <2>1. opt.entries > 0 => \A box \in {0} : Cardinality(RowsOf(<< >>, box)) <= opt.entries
    <3>1. Cardinality(RowsOf(<< >>, 0)) = 0
      BY <1>4
    <3>2. QED
      BY <1>1, <3>1
  <2>2. QED
    BY <1>2, <1>6, <2>1 DEF EntryLimitHolds, JobsFit, JobFits, RowsIn
<1>8. TypeOK'
  <2>1. 0 \in 0 .. Len(jobs')
    BY <1>6, LenProperties
  <2>2. QED
    BY <1>1, <1>2, <1>6, <2>1 DEF TypeOK
<1>9. TempIsTidy'
  BY <1>2, <1>6 DEF TempIsTidy
<1>10. JobsFit(jobs, rows, boxes)'
  BY <1>2, <1>6
<1>11. QED
  BY <1>2, <1>5, <1>7, <1>8, <1>9, <1>10 DEF IInv

LEMMA StopAtLimitKeeps ==
  ASSUME IInv, StopAtLimit
  PROVE  IInv'
<1>1. TypeOK /\ Walking /\ Job.dirs # << >>
  BY DEF IInv, StopAtLimit, AtRecord
<1>2. Job \in JobType
  BY <1>1, TopTyped
<1>3. /\ Stopped(Job) \in JobType /\ Stopped(Job).box = Job.box
      /\ Stopped(Job).count = Job.count
      /\ Len(Job.dirs) \in Nat /\ Len(Stopped(Job).dirs) = Len(Job.dirs) - 1
      /\ \A k \in 1 .. Len(Job.dirs) - 1 : Stopped(Job).dirs[k] = Job.dirs[k + 1]
  BY <1>1, <1>2, StoppedTyped
<1>4. \A k \in 1 .. Len(Stopped(Job).dirs) :
        \E m \in 1 .. Len(Job.dirs) : Stopped(Job).dirs[k].id = Job.dirs[m].id
  <2>1. ASSUME NEW k \in 1 .. Len(Job.dirs) - 1
        PROVE  k + 1 \in 1 .. Len(Job.dirs)
    BY <1>3
  <2>2. QED
    BY <1>3, <2>1
<1>5. QED
  BY <1>1, <1>3, <1>4, QuietStep DEF StopAtLimit

LEMMA SkipRecordKeeps ==
  ASSUME IInv, SkipRecord
  PROVE  IInv'
<1>1. TypeOK /\ Walking /\ AtRecord
  BY DEF IInv, SkipRecord, AtRecord
<1>2. /\ Passed(Job) \in JobType
      /\ Passed(Job).box = Job.box /\ Passed(Job).count = Job.count
      /\ Len(Passed(Job).dirs) = Len(Job.dirs)
      /\ \A k \in 1 .. Len(Job.dirs) : Passed(Job).dirs[k].id = Job.dirs[k].id
  BY <1>1, PassedTyped
<1>3. QED
  BY <1>1, <1>2, QuietStep DEF SkipRecord

LEMMA LeaveDirectoryKeeps ==
  ASSUME IInv, LeaveDirectory
  PROVE  IInv'
<1> DEFINE x == [Job EXCEPT !.dirs = Tail(Job.dirs)]
<1>1. TypeOK /\ Walking /\ Job.dirs # << >>
  BY DEF IInv, LeaveDirectory
<1>2. Job \in JobType /\ Job.dirs \in Seq(FrameType)
  BY <1>1, TopTyped
<1>3. /\ Tail(Job.dirs) \in Seq(FrameType) /\ Len(Job.dirs) \in Nat
      /\ Len(Tail(Job.dirs)) = Len(Job.dirs) - 1
      /\ \A k \in 1 .. Len(Job.dirs) - 1 : Tail(Job.dirs)[k] = Job.dirs[k + 1]
  BY <1>1, <1>2, Nonempty
<1>4. x \in JobType /\ x.box = Job.box /\ x.count = Job.count /\ x.dirs = Tail(Job.dirs)
  BY <1>2, <1>3 DEF JobType
<1>5. jobs' = InPlaceOfJob(<<x>>)
  BY DEF LeaveDirectory
<1> HIDE DEF x
<1>6. \A k \in 1 .. Len(x.dirs) : \E m \in 1 .. Len(Job.dirs) : x.dirs[k].id = Job.dirs[m].id
  <2>1. ASSUME NEW k \in 1 .. Len(Job.dirs) - 1
        PROVE  k + 1 \in 1 .. Len(Job.dirs)
    BY <1>3
  <2>2. QED
    BY <1>3, <1>4, <2>1
<1>7. QED
  BY <1>1, <1>4, <1>5, <1>6, QuietStep DEF LeaveDirectory

LEMMA WriteLastKeeps ==
  ASSUME IInv, WriteLast
  PROVE  IInv'
<1>1. TypeOK /\ AtRecord /\ MayGoOn /\ Job.dirs # << >>
  BY DEF IInv, WriteLast, AtRecord
<1>2. PICK r \in Writable : AddEntry(r) /\ jobs' = InPlaceOfJob(<<Stopped(After(r))>>)
  BY DEF WriteLast
<1>3. r \in Records
  BY <1>1, <1>2, WritableTyped
<1> DEFINE job == After(r)
<1>4. /\ job \in JobType /\ job.box = Job.box /\ job.count = Job.count + 1
      /\ Len(job.dirs) = Len(Job.dirs)
      /\ \A k \in 1 .. Len(Job.dirs) : job.dirs[k].id = Job.dirs[k].id
  BY <1>1, <1>3, AfterTyped
<1>5. job.dirs # << >>
  <2>1. Job.dirs \in Seq(FrameType)
    BY <1>1, TopTyped DEF AtRecord
  <2>2. Len(Job.dirs) # 0
    BY <1>1, <2>1, Nonempty
  <2>3. QED
    BY <1>4, <2>2
<1> HIDE DEF job
<1>6. /\ Stopped(job) \in JobType /\ Stopped(job).box = job.box
      /\ Stopped(job).count = job.count
      /\ Len(job.dirs) \in Nat /\ Len(Stopped(job).dirs) = Len(job.dirs) - 1
      /\ \A k \in 1 .. Len(job.dirs) - 1 : Stopped(job).dirs[k] = job.dirs[k + 1]
  BY <1>4, <1>5, StoppedTyped
<1>7. \A k \in 1 .. Len(Stopped(job).dirs) :
        \E m \in 1 .. Len(Job.dirs) : Stopped(job).dirs[k].id = Job.dirs[m].id
  <2>1. ASSUME NEW k \in 1 .. Len(job.dirs) - 1
        PROVE  k + 1 \in 1 .. Len(job.dirs)
    BY <1>6
  <2>2. QED
    BY <1>4, <1>6, <2>1
<1>8. jobs' = InPlaceOfJob(<<Stopped(job)>>)
  BY <1>2 DEF job
<1>9. {} \in SUBSET {Len(rows) + 1} /\ boxes' = boxes \cup {}
  BY DEF WriteLast
<1>10. UNCHANGED <<pc, opt, temp, late, errors>>
  BY DEF WriteLast
<1>11. QED
  BY <1>1, <1>2, <1>3, <1>4, <1>6, <1>7, <1>8, <1>9, <1>10, WrittenKeeps

(* What the three other writing actions have in common.                    *)
LEMMA AfterKeeps ==
  ASSUME IInv, AtRecord, MayGoOn, NEW r \in Records, AddEntry(r),
         NEW more \in SUBSET {Len(rows) + 1},
         boxes' = boxes \cup more,
         jobs' = InPlaceOfJob(<<After(r)>>),
         UNCHANGED <<pc, opt, temp, late, errors>>
  PROVE  IInv'
<1>1. TypeOK
  BY DEF IInv
<1> DEFINE x == After(r)
<1>2. /\ x \in JobType /\ x.box = Job.box /\ x.count = Job.count + 1
      /\ \A k \in 1 .. Len(x.dirs) : \E m \in 1 .. Len(Job.dirs) : x.dirs[k].id = Job.dirs[m].id
  BY <1>1, AfterTyped
<1>3. jobs' = InPlaceOfJob(<<x>>)
  OBVIOUS
<1> HIDE DEF x
<1>4. QED
  BY <1>2, <1>3, WrittenKeeps

LEMMA EnteredTyped ==
  ASSUME TypeOK, AtRecord, NEW r \in Records, r.kind = "dir"
  PROVE  LET x == Entered(After(r), r) IN
         /\ x \in JobType /\ x.box = Job.box /\ x.count = Job.count + 1
         /\ \A k \in 1 .. Len(x.dirs) :
              \/ \E m \in 1 .. Len(Job.dirs) : x.dirs[k].id = Job.dirs[m].id
              \/ Folder(r) /\ x.dirs[k].id = Len(rows) + 1
<1> DEFINE job == After(r)
           frame == [id |-> Len(rows) + 1, todo |-> Listing[r.to]]
           dirs == <<frame>> \o job.dirs
           x == [job EXCEPT !.dirs = dirs]
<1>1. /\ job \in JobType /\ job.box = Job.box /\ job.count = Job.count + 1
      /\ Len(job.dirs) = Len(Job.dirs)
      /\ \A k \in 1 .. Len(Job.dirs) : job.dirs[k].id = Job.dirs[k].id
  BY AfterTyped
<1>2. Entered(job, r) = x
  BY DEF Entered
<1> HIDE DEF job
<1>3. r.to \in Dirs
  BY WalkAssumption
<1>4. Listing[r.to] \in Seq(Records) /\ Len(rows) \in Nat
  BY <1>3, WalkAssumption, LenProperties DEF TypeOK
<1>5. frame \in FrameType /\ frame.id = Len(rows) + 1
  BY <1>4 DEF FrameType
<1> HIDE DEF frame
<1>6. job.dirs \in Seq(FrameType) /\ Len(job.dirs) \in Nat
  BY <1>1, LenProperties DEF JobType
<1>7. /\ dirs \in Seq(FrameType) /\ Len(dirs) = Len(job.dirs) + 1 /\ dirs[1] = frame
      /\ \A i \in 1 .. Len(job.dirs) : dirs[i + 1] = job.dirs[i]
  BY <1>5, <1>6, Pushed
<1> HIDE DEF dirs
<1>8. x \in JobType /\ x.box = job.box /\ x.count = job.count /\ x.dirs = dirs
  BY <1>1, <1>7 DEF JobType
<1>9. ASSUME NEW k \in 1 .. Len(dirs)
      PROVE  \/ \E m \in 1 .. Len(Job.dirs) : dirs[k].id = Job.dirs[m].id
             \/ Folder(r) /\ dirs[k].id = Len(rows) + 1
  <2>1. CASE k = 1
    BY <2>1, <1>5, <1>7 DEF Folder
  <2>2. CASE k # 1
    <3>1. k - 1 \in 1 .. Len(job.dirs) /\ (k - 1) + 1 = k
      BY <2>2, <1>6, <1>7
    <3>2. dirs[k] = job.dirs[k - 1]
      BY <3>1, <1>7
    <3>3. QED
      BY <3>1, <3>2, <1>1
  <2>3. QED
    BY <2>1, <2>2
<1>10. QED
  BY <1>1, <1>2, <1>8, <1>9 DEF job

LEMMA WriteDirectoryKeeps ==
  ASSUME IInv, WriteDirectory
  PROVE  IInv'
<1>1. TypeOK /\ AtRecord /\ MayGoOn
  BY DEF IInv, WriteDirectory
<1>2. PICK r \in Writable :
        /\ r.kind = "dir"
        /\ AddEntry(r)
        /\ \/ jobs' = InPlaceOfJob(<<Entered(After(r), r)>>)
           \/ jobs' = InPlaceOfJob(<<After(r)>>)
  BY DEF WriteDirectory
<1>3. r \in Records
  BY <1>1, <1>2, WritableTyped
<1>4. {} \in SUBSET {Len(rows) + 1} /\ boxes' = boxes \cup {}
  BY DEF WriteDirectory
<1>5. UNCHANGED <<pc, opt, temp, late, errors>>
  BY DEF WriteDirectory
<1>6. CASE jobs' = InPlaceOfJob(<<After(r)>>)
  BY <1>1, <1>2, <1>3, <1>4, <1>5, <1>6, AfterKeeps
<1>7. CASE jobs' = InPlaceOfJob(<<Entered(After(r), r)>>)
  <2> DEFINE x == Entered(After(r), r)
  <2>1. /\ x \in JobType /\ x.box = Job.box /\ x.count = Job.count + 1
        /\ \A k \in 1 .. Len(x.dirs) :
             \/ \E m \in 1 .. Len(Job.dirs) : x.dirs[k].id = Job.dirs[m].id
             \/ Folder(r) /\ x.dirs[k].id = Len(rows) + 1
    BY <1>1, <1>2, <1>3, EnteredTyped
  <2>2. jobs' = InPlaceOfJob(<<x>>)
    BY <1>7
  <2> HIDE DEF x
  <2>3. QED
    BY <1>1, <1>2, <1>3, <1>4, <1>5, <2>1, <2>2, WrittenKeeps
<1>8. QED
  BY <1>2, <1>6, <1>7

LEMMA WriteFileKeeps ==
  ASSUME IInv, WriteFile
  PROVE  IInv'
<1>1. TypeOK /\ AtRecord /\ MayGoOn
  BY DEF IInv, WriteFile
<1>2. PICK r \in Writable : AddEntry(r) /\ jobs' = InPlaceOfJob(<<After(r)>>)
  BY DEF WriteFile
<1>3. r \in Records
  BY <1>1, <1>2, WritableTyped
<1>4. {} \in SUBSET {Len(rows) + 1} /\ boxes' = boxes \cup {}
  BY DEF WriteFile
<1>5. UNCHANGED <<pc, opt, temp, late, errors>>
  BY DEF WriteFile
<1>6. QED
  BY <1>1, <1>2, <1>3, <1>4, <1>5, AfterKeeps

LEMMA JobPushed ==
  ASSUME NEW js \in Seq(JobType), NEW rs, NEW containers, JobsFit(js, rs, containers),
         NEW job \in JobType, JobFits(job, rs, containers),
         \A box \in BoxesOf(js) : box < job.box
  PROVE  /\ JobsFit(<<job>> \o js, rs, containers)
         /\ BoxesOf(<<job>> \o js) = BoxesOf(js) \cup {job.box}
<1> DEFINE new == <<job>> \o js
<1>1. /\ Len(new) = Len(js) + 1 /\ new[1] = job /\ Len(js) \in Nat
      /\ \A i \in 1 .. Len(js) : new[i + 1] = js[i]
  BY Pushed, LenProperties
<1> HIDE DEF new
<1>2. ASSUME NEW i \in 1 .. Len(new), i # 1
      PROVE  i - 1 \in 1 .. Len(js) /\ new[i] = js[i - 1]
  <2>1. i - 1 \in 1 .. Len(js) /\ (i - 1) + 1 = i
    BY <1>1, <1>2
  <2>2. QED
    BY <1>1, <2>1
<1>3. \A i \in 1 .. Len(new) : JobFits(new[i], rs, containers)
  BY <1>1, <1>2 DEF JobsFit
<1>4. ASSUME NEW i \in 1 .. Len(new), NEW j \in 1 .. Len(new), i < j
      PROVE  new[j].box < new[i].box
  <2>1. j # 1
    BY <1>1, <1>4
  <2>2. CASE i = 1
    BY <1>1, <1>2, <2>1, <2>2 DEF BoxesOf
  <2>3. CASE i # 1
    <3>1. i - 1 < j - 1
      BY <1>1, <1>4
    <3>2. QED
      BY <1>2, <2>1, <2>3, <3>1 DEF JobsFit
  <2>4. QED
    BY <2>2, <2>3
<1>5. BoxesOf(new) = BoxesOf(js) \cup {job.box}
  <2>1. ASSUME NEW box \in BoxesOf(new)
        PROVE  box \in BoxesOf(js) \cup {job.box}
    <3>1. PICK i \in 1 .. Len(new) : box = new[i].box
      BY DEF BoxesOf
    <3>2. CASE i = 1
      BY <1>1, <3>1, <3>2
    <3>3. CASE i # 1
      BY <1>2, <3>1, <3>3 DEF BoxesOf
    <3>4. QED
      BY <3>2, <3>3
  <2>2. ASSUME NEW i \in 1 .. Len(js)
        PROVE  js[i].box \in BoxesOf(new)
    <3>1. i + 1 \in 1 .. Len(new)
      BY <1>1
    <3>2. QED
      BY <1>1, <3>1 DEF BoxesOf
  <2>3. job.box \in BoxesOf(new)
    <3>1. 1 \in 1 .. Len(new)
      BY <1>1
    <3>2. QED
      BY <1>1, <3>1 DEF BoxesOf
  <2>4. BoxesOf(js) \subseteq BoxesOf(new)
    BY <2>2 DEF BoxesOf
  <2>5. QED
    BY <2>1, <2>3, <2>4
<1>6. QED
  BY <1>3, <1>4, <1>5 DEF JobsFit, new

LEMMA JobPopped ==
  ASSUME NEW js \in Seq(JobType), js # << >>, NEW rs, NEW containers,
         JobsFit(js, rs, containers)
  PROVE  /\ JobsFit(Tail(js), rs, containers)
         /\ BoxesOf(Tail(js)) = BoxesOf(js) \ {js[1].box}
<1> DEFINE rest == Tail(js)
<1>1. /\ Len(js) \in Nat /\ 1 <= Len(js) /\ Len(rest) = Len(js) - 1
      /\ \A i \in 1 .. Len(js) - 1 : rest[i] = js[i + 1]
  BY Nonempty
<1> HIDE DEF rest
<1>2. \A i \in 1 .. Len(rest) : i + 1 \in 1 .. Len(js) /\ rest[i] = js[i + 1]
  BY <1>1
<1>3. \A i \in 1 .. Len(rest) : JobFits(rest[i], rs, containers)
  BY <1>2 DEF JobsFit
<1>4. ASSUME NEW i \in 1 .. Len(rest), NEW j \in 1 .. Len(rest), i < j
      PROVE  rest[j].box < rest[i].box
  <2>1. i + 1 < j + 1
    BY <1>1, <1>4
  <2>2. QED
    BY <1>2, <2>1 DEF JobsFit
<1>5. BoxesOf(rest) = BoxesOf(js) \ {js[1].box}
  <2>1. ASSUME NEW i \in 1 .. Len(rest)
        PROVE  rest[i].box \in BoxesOf(js) \ {js[1].box}
    <3>1. i + 1 # 1
      BY <1>1
    <3>2. QED
      BY <1>2, <3>1, BoxesDiffer DEF BoxesOf
  <2>2. ASSUME NEW i \in 1 .. Len(js), js[i].box # js[1].box
        PROVE  js[i].box \in BoxesOf(rest)
    <3>1. i - 1 \in 1 .. Len(rest) /\ (i - 1) + 1 = i
      BY <1>1, <2>2
    <3>2. QED
      BY <1>2, <3>1 DEF BoxesOf
  <2>3. QED
    BY <2>1, <2>2 DEF BoxesOf
<1>6. QED
  BY <1>3, <1>4, <1>5 DEF JobsFit, rest

LEMMA WriteImageKeeps ==
  ASSUME IInv, WriteImage
  PROVE  IInv'
<1> DEFINE id == Len(rows) + 1
           js(r) == InPlaceOfJob(<<After(r)>>)
<1>1. TypeOK /\ AtRecord /\ MayGoOn /\ HangTogether(rows, boxes)
  BY DEF IInv, WriteImage, EntriesHangTogether
<1>2. PICK r \in Writable :
        /\ MayNest(r)
        /\ AddEntry(r)
        /\ boxes' = boxes \cup {id}
        /\ \/ /\ \E tree \in ChosenTree(r.to) : \E moved \in Reads(Relocated(r.to, tree)) :
                   jobs' = <<NewJob(id, r.to, tree, moved, Job.depth + 1)>> \o js(r)
              /\ temp' = temp \cup {id}
           \/ jobs' = js(r) /\ UNCHANGED temp
  BY DEF WriteImage
<1>3. r \in Records
  BY <1>1, <1>2, WritableTyped
<1>4. {id} \in SUBSET {Len(rows) + 1}
  OBVIOUS
<1>5. UNCHANGED <<pc, opt, late, errors>>
  BY DEF WriteImage
<1>6. CASE jobs' = js(r) /\ UNCHANGED temp
  BY <1>1, <1>2, <1>3, <1>4, <1>5, <1>6, AfterKeeps
<1>7. CASE /\ \E tree \in ChosenTree(r.to) : \E moved \in Reads(Relocated(r.to, tree)) :
                jobs' = <<NewJob(id, r.to, tree, moved, Job.depth + 1)>> \o js(r)
           /\ temp' = temp \cup {id}
  <2>1. PICK tree \in FileSystems :
          \E moved \in Reads(Relocated(r.to, tree)) :
            jobs' = <<NewJob(id, r.to, tree, moved, Job.depth + 1)>> \o js(r)
    BY <1>7, ChosenIsOne
  <2>2. PICK moved \in Reads(Relocated(r.to, tree)) :
          jobs' = <<NewJob(id, r.to, tree, moved, Job.depth + 1)>> \o js(r)
    BY <2>1
  <2> DEFINE x == After(r)
             outer == InPlaceOfJob(<<x>>)
             job == NewJob(id, r.to, tree, moved, Job.depth + 1)
  <2>3. /\ x \in JobType /\ x.box = Job.box /\ x.count = Job.count + 1
        /\ \A k \in 1 .. Len(x.dirs) : \E m \in 1 .. Len(Job.dirs) : x.dirs[k].id = Job.dirs[m].id
    BY <1>1, <1>3, AfterTyped
  <2>4. jobs' = <<job>> \o outer
    BY <2>2
  <2>5. r.to \in Images
    <3>1. r.kind = "image"
      BY <1>2 DEF MayNest
    <3>2. r \in RecordType /\ (r.kind \in {"dir", "stub"} <=> r.to \in Dirs)
      BY <1>3, WalkAssumption
    <3>3. r.to \in Dirs \cup Images
      BY <3>2 DEF RecordType
    <3>4. r.kind \notin {"dir", "stub"}
      BY <3>1
    <3>5. QED
      BY <3>2, <3>3, <3>4
  <2>6. Job \in JobType /\ Job.depth + 1 \in Nat
    <3>1. Job \in JobType
      BY <1>1, TopTyped DEF AtRecord
    <3>2. Job.depth \in Nat
      BY <3>1 DEF JobType
    <3>3. QED
      BY <3>1, <3>2
  <2>7. id \in Nat
    BY <1>1, LenProperties DEF TypeOK
  <2>8. /\ job \in JobType /\ job.box = id /\ job.count = 0
        /\ Len(job.dirs) = 1 /\ job.dirs[1].id = id
    BY <2>5, <2>6, <2>7, ReadOfImage, NewJobTyped
  <2> HIDE DEF x, job
  <2>9. /\ rows' \in Seq(RowType) /\ Len(rows) \in Nat
        /\ EntriesHangTogether'
        /\ outer \in Seq(JobType) /\ Len(outer) = Len(jobs)
        /\ JobsFit(outer, rows', boxes')
        /\ BoxesOf(outer) = BoxesOf(jobs)
        /\ opt.entries > 0 =>
             \A box \in boxes' : Cardinality(RowsOf(rows', box)) <= opt.entries
        /\ RowsOf(rows', id) = {}
    BY <1>1, <1>2, <1>3, <1>4, <1>5, <2>3, Written
  <2> HIDE DEF outer
  <2>10. JobFits(job, rows', boxes')
    <3>1. job.count = Cardinality(RowsOf(rows', id))
      <4>1. Cardinality({}) = 0
        BY FS_EmptySet
      <4>2. QED
        BY <2>8, <2>9, <4>1
    <3>2. id \in boxes'
      BY <1>2
    <3>3. \A k \in 1 .. Len(job.dirs) : job.dirs[k].id = id
      BY <2>8
    <3>4. QED
      BY <2>8, <3>1, <3>2, <3>3 DEF JobFits, FoldersOf
  <2>11. \A box \in BoxesOf(outer) : box < job.box
    <3>1. BoxesOf(jobs) \subseteq boxes
      BY DEF IInv, JobsFit, JobFits, BoxesOf
    <3>2. boxes \subseteq 0 .. Len(rows)
      BY <1>1 DEF HangTogether
    <3>3. BoxesOf(outer) \subseteq 0 .. Len(rows)
      BY <2>9, <3>1, <3>2
    <3>4. Len(rows) \in Nat
      BY <2>9
    <3>5. \A box \in 0 .. Len(rows) : box < Len(rows) + 1
      BY <3>4
    <3>6. QED
      BY <2>8, <3>3, <3>5
  <2>12. /\ JobsFit(jobs', rows', boxes')
         /\ BoxesOf(jobs') = BoxesOf(jobs) \cup {id}
    BY <2>4, <2>8, <2>9, <2>10, <2>11, JobPushed
  <2>13. jobs' \in Seq(JobType) /\ Len(jobs') = Len(jobs) + 1 /\ Len(jobs) \in Nat
    <3>1. Len(jobs) \in Nat
      BY <1>1, TopTyped DEF AtRecord
    <3>2. QED
      BY <2>4, <2>8, <2>9, <3>1, Pushed
  <2>14. TempIsTidy'
    <3>1. id # 0
      BY <2>9
    <3>2. temp = BoxesOf(jobs) \ {0}
      BY DEF IInv, TempIsTidy
    <3>3. QED
      BY <1>7, <2>12, <3>1, <3>2 DEF TempIsTidy
  <2>15. EntryLimitHolds'
    BY <1>5, <2>9, <2>12 DEF EntryLimitHolds, JobsFit, JobFits, RowsIn
  <2>16. TypeOK'
    <3>1. boxes' \subseteq Nat /\ temp' \subseteq Nat
      BY <1>1, <1>2, <1>7, <2>7 DEF TypeOK
    <3>2. late' \in 0 .. Len(jobs')
      BY <1>1, <1>5, <2>13 DEF TypeOK
    <3>3. QED
      BY <1>1, <1>5, <2>9, <2>13, <3>1, <3>2 DEF TypeOK
  <2>17. pc' # "found"
    BY <1>1, <1>5 DEF AtRecord, Walking
  <2>18. QED
    BY <2>9, <2>12, <2>14, <2>15, <2>16, <2>17 DEF IInv
<1>8. QED
  BY <1>2, <1>6, <1>7

LEMMA LeaveImageKeeps ==
  ASSUME IInv, LeaveImage
  PROVE  IInv'
<1>1. /\ TypeOK /\ Walking /\ jobs \in Seq(JobType) /\ jobs # << >>
      /\ JobsFit(jobs, rows, boxes)
  BY DEF IInv, TypeOK, LeaveImage, Walking
<1>2. /\ jobs' = Tail(jobs) /\ temp' = temp \ {Job.box} /\ late' = LateAfter
      /\ pc' \in {"done", "walking"}
      /\ UNCHANGED <<opt, rows, boxes, errors>>
  BY DEF LeaveImage, TempAfter
<1>3. /\ Job = jobs[1] /\ Len(jobs) \in Nat /\ 1 <= Len(jobs)
      /\ jobs' \in Seq(JobType) /\ Len(jobs') = Len(jobs) - 1
  BY <1>1, <1>2, TopTyped, Nonempty
<1>4. JobsFit(jobs', rows, boxes) /\ BoxesOf(jobs') = BoxesOf(jobs) \ {Job.box}
  BY <1>1, <1>2, <1>3, JobPopped
<1>5. TempIsTidy'
  BY <1>2, <1>4 DEF IInv, TempIsTidy
<1>6. EntriesHangTogether'
  BY <1>2 DEF IInv, EntriesHangTogether
<1>7. EntryLimitHolds'
  <2>1. opt.entries > 0 => \A box \in boxes : Cardinality(RowsOf(rows, box)) <= opt.entries
    BY LimitOf DEF IInv
  <2>2. QED
    BY <1>2, <1>4, <2>1 DEF EntryLimitHolds, JobsFit, JobFits, RowsIn
<1>8. TypeOK'
  <2>1. late' \in 0 .. Len(jobs')
    BY <1>1, <1>2, <1>3 DEF LateAfter, TypeOK
  <2>2. QED
    BY <1>1, <1>2, <1>3, <2>1 DEF TypeOK
<1>9. JobsFit(jobs, rows, boxes)'
  BY <1>2, <1>4
<1>10. QED
  BY <1>2, <1>5, <1>6, <1>7, <1>8, <1>9 DEF IInv

LEMMA TimePassesKeeps ==
  ASSUME IInv, TimePasses
  PROVE  IInv'
<1>1. TypeOK /\ late' = late + 1 /\ late < Len(jobs)
      /\ UNCHANGED <<pc, opt, rows, boxes, temp, jobs, errors>>
  BY DEF IInv, TimePasses
<1>2. Len(jobs) \in Nat
  BY <1>1, LenProperties DEF TypeOK
<1>3. late' \in 0 .. Len(jobs')
  BY <1>1, <1>2 DEF TypeOK
<1>4. TypeOK'
  BY <1>1, <1>3 DEF TypeOK
<1>5. EntriesHangTogether' /\ TempIsTidy'
  BY <1>1 DEF IInv, EntriesHangTogether, TempIsTidy
<1>6. JobsFit(jobs, rows, boxes)' /\ EntryLimitHolds'
  BY <1>1 DEF IInv, JobsFit, EntryLimitHolds, RowsIn
<1>7. pc' # "found"
  <2>1. jobs # << >>
    BY <1>1, EmptySeq DEF TypeOK
  <2>2. QED
    BY <1>1, <2>1 DEF IInv, NothingYet
<1>8. QED
  BY <1>4, <1>5, <1>6, <1>7 DEF IInv

LEMMA StutterKeeps ==
  ASSUME IInv, UNCHANGED vars
  PROVE  IInv'
<1>1. TypeOK'
  BY DEF IInv, TypeOK, vars
<1>2. EntriesHangTogether' /\ TempIsTidy'
  BY DEF IInv, EntriesHangTogether, TempIsTidy, vars
<1>3. JobsFit(jobs, rows, boxes)' /\ EntryLimitHolds'
  BY DEF IInv, JobsFit, EntryLimitHolds, RowsIn, vars
<1>4. (pc = "found" => NothingYet)'
  BY DEF IInv, NothingYet, vars
<1>5. QED
  BY <1>1, <1>2, <1>3, <1>4 DEF IInv

LEMMA NextKeeps == IInv /\ [Next]_vars => IInv'
<1> SUFFICES ASSUME IInv, [Next]_vars
             PROVE  IInv'
  OBVIOUS
<1>1. CASE Overlook
  BY <1>1, OverlookKeeps
<1>2. CASE Discover
  BY <1>2, DiscoverKeeps
<1>3. CASE StopAtLimit
  BY <1>3, StopAtLimitKeeps
<1>4. CASE SkipRecord
  BY <1>4, SkipRecordKeeps
<1>5. CASE WriteLast
  BY <1>5, WriteLastKeeps
<1>6. CASE WriteDirectory
  BY <1>6, WriteDirectoryKeeps
<1>7. CASE WriteFile
  BY <1>7, WriteFileKeeps
<1>8. CASE WriteImage
  BY <1>8, WriteImageKeeps
<1>9. CASE LeaveDirectory
  BY <1>9, LeaveDirectoryKeeps
<1>10. CASE LeaveImage
  BY <1>10, LeaveImageKeeps
<1>11. CASE TimePasses
  BY <1>11, TimePassesKeeps
<1>12. CASE Rest \/ UNCHANGED vars
  BY <1>12, StutterKeeps DEF Rest
<1>13. QED
  BY <1>1, <1>2, <1>3, <1>4, <1>5, <1>6, <1>7, <1>8, <1>9, <1>10, <1>11, <1>12
  DEF Next, WalkStep

-----------------------------------------------------------------------------
(* The theorems                                                            *)

(* For any images, however their directories refer to one another, and any *)
(* limits, deadlines and failures, the expansion keeps IInv.               *)
THEOREM ExpansionIsSound == Spec => []IInv
<1>1. QED
  BY InitIInv, NextKeeps, PTL DEF Spec

(* What the expansion of a disc image writes forms trees: an entry lies in *)
(* a directory of the same image or directly in its container, and was     *)
(* written after both (VirtualTreeWriter's parent ids).                    *)
THEOREM VirtualTreesHangTogether == Spec => []EntriesHangTogether
<1>1. IInv => EntriesHangTogether
  BY DEF IInv
<1>2. QED
  BY <1>1, ExpansionIsSound, PTL

(* No image gets more entries than max_entries, whatever nests in it, and  *)
(* the counter that is compared is right.                                  *)
THEOREM EntryLimitIsKept == Spec => []EntryLimitHolds
<1>1. IInv => EntryLimitHolds
  BY DEF IInv
<1>2. QED
  BY <1>1, ExpansionIsSound, PTL

(* A temporary file exists exactly as long as the expansion of its image   *)
(* is open (expand_nested removes it on every return).                     *)
THEOREM TemporaryFilesAreRemoved == Spec => []TempIsTidy
<1>1. IInv => TempIsTidy
  BY DEF IInv
<1>2. QED
  BY <1>1, ExpansionIsSound, PTL

(* A row is written only by the innermost activation, which must not have  *)
(* met a limit, and no other activation has the same container.            *)
LEMMA RowsComeFromTheTop ==
  ASSUME IInv, AtRecord, MayGoOn, NEW r \in Records, AddEntry(r),
         NEW k \in DOMAIN rows' \ DOMAIN rows, NEW i \in 1 .. Len(jobs),
         jobs[i].box = rows'[k].box
  PROVE  ~jobs[i].hit
<1>1. /\ TypeOK /\ rows \in Seq(RowType) /\ jobs \in Seq(JobType)
      /\ JobsFit(jobs, rows, boxes)
  BY DEF IInv, TypeOK
<1>2. Job = jobs[1] /\ Job \in JobType
  BY <1>1, TopTyped DEF AtRecord
<1>3. PICK found \in BOOLEAN :
        rows' = Append(rows, [parent |-> Frame.id, rec |-> r, box |-> Job.box, found |-> found])
  BY DEF AddEntry
<1> DEFINE row == [parent |-> Frame.id, rec |-> r, box |-> Job.box, found |-> found]
<1>4. row \in RowType
  BY <1>1, <1>2, FrameTyped DEF RowType, JobType
<1>5. row.box = Job.box /\ rows' = Append(rows, row)
  BY <1>3
<1> HIDE DEF row
<1>6. /\ rows' \in Seq(RowType) /\ Len(rows) \in Nat /\ Len(rows') = Len(rows) + 1
      /\ rows'[Len(rows) + 1] = row
  BY <1>1, <1>4, <1>5, RowAppended
<1>7. DOMAIN rows' = 1 .. Len(rows) + 1 /\ DOMAIN rows = 1 .. Len(rows)
  BY <1>1, <1>6, LenProperties
<1>8. k = Len(rows) + 1
  BY <1>6, <1>7
<1>9. jobs[i].box = Job.box
  BY <1>5, <1>6, <1>8
<1>10. i = 1
  BY <1>1, <1>2, <1>9, BoxesDiffer
<1>11. QED
  BY <1>2, <1>10 DEF MayGoOn

(* Once one of its limits has fired, nothing is written for an image,      *)
(* however many activations of the walk are still open ("limit_hit").      *)
THEOREM LimitsAreFinal == Spec => HitIsFinal
<1> DEFINE Quiet == \A k \in DOMAIN rows' \ DOMAIN rows, i \in 1 .. Len(jobs) :
                      jobs[i].box = rows'[k].box => ~jobs[i].hit
<1>1. ASSUME IInv, Next
      PROVE  Quiet
  <2>1. ASSUME AtRecord, MayGoOn, \E r \in Writable : AddEntry(r)
        PROVE  Quiet
    <3>1. TypeOK
      BY <1>1 DEF IInv
    <3>2. Writable \subseteq Records
      BY <2>1, <3>1, WritableTyped
    <3>3. QED
      BY <1>1, <2>1, <3>2, RowsComeFromTheTop
  <2>2. CASE WriteLast \/ WriteDirectory \/ WriteFile \/ WriteImage
    BY <2>1, <2>2 DEF WriteLast, WriteDirectory, WriteFile, WriteImage
  <2>3. CASE UNCHANGED rows
    BY <2>3
  <2>4. QED
    BY <1>1, <2>2, <2>3
    DEF Next, WalkStep, Overlook, Discover, StopAtLimit, SkipRecord, LeaveDirectory,
        LeaveImage, TimePasses, Rest, vars
<1>2. IInv /\ [Next]_vars => [Quiet]_vars
  BY <1>1
<1>3. QED
  BY <1>2, ExpansionIsSound, PTL DEF Spec, HitIsFinal

-----------------------------------------------------------------------------
(* Sums over the rows                                                      *)

EarlierRow(rs) == [i \in 1 .. Len(rs) |-> i - 1]
SizesIn(rs, box) ==
  [i \in 1 .. Len(rs) |-> IF rs[i].box = box THEN rs[i].rec.size ELSE 0]

ContainerRow(rs) == [i \in 1 .. Len(rs) |-> rs[i].box]
Ones(rs) == [i \in 1 .. Len(rs) |-> 1]

LEMMA SizeTyped ==
  ASSUME NEW row \in RowType
  PROVE  row.rec.size \in Nat /\ row.box \in Nat
<1>1. row.rec \in RecordType
  BY WalkAssumption DEF RowType
<1>2. QED
  BY <1>1 DEF RowType, RecordType

LEMMA RowsAreChains ==
  ASSUME NEW rs \in Seq(RowType)
  PROVE  /\ \A box : IsChain(EarlierRow(rs), SizesIn(rs, box), Len(rs))
         /\ (\A i \in 1 .. Len(rs) : rs[i].box < i) =>
              IsChain(ContainerRow(rs), Ones(rs), Len(rs))
<1>1. Len(rs) \in Nat /\ \A i \in 1 .. Len(rs) : rs[i] \in RowType
  BY LenProperties, ElementOfSeq
<1>2. \A i \in 1 .. Len(rs) : rs[i].rec.size \in Nat /\ rs[i].box \in Nat
  BY <1>1, SizeTyped
<1>3. \A i \in 1 .. Len(rs) : i - 1 \in Nat /\ i - 1 < i
  BY <1>1
<1>4. QED
  BY <1>1, <1>2, <1>3 DEF IsChain, EarlierRow, SizesIn, ContainerRow, Ones

LEMMA BytesAddUp ==
  ASSUME NEW rs \in Seq(RowType), NEW box
  PROVE  AddsUp(BytesUpTo(rs, box), EarlierRow(rs), SizesIn(rs, box), Len(rs))
<1> DEFINE Sum(f) == f = [i \in 0 .. Len(rs) |->
                            IF i = 0 THEN 0
                            ELSE f[i - 1] + IF rs[i].box = box THEN rs[i].rec.size ELSE 0]
<1>1. PICK f : AddsUp(f, EarlierRow(rs), SizesIn(rs, box), Len(rs))
  BY RowsAreChains, ChainsAddUp
<1>2. ASSUME NEW f1
      PROVE  Sum(f1) <=> AddsUp(f1, EarlierRow(rs), SizesIn(rs, box), Len(rs))
  <2>1. \A i \in 0 .. Len(rs) : i # 0 =>
          EarlierRow(rs)[i] = i - 1
          /\ SizesIn(rs, box)[i] = IF rs[i].box = box THEN rs[i].rec.size ELSE 0
    BY LenProperties DEF EarlierRow, SizesIn
  <2>2. QED
    BY <2>1 DEF AddsUp
<1>3. Sum(f)
  BY <1>1, <1>2
<1>4. BytesUpTo(rs, box) = CHOOSE g : Sum(g)
  BY DEF BytesUpTo
<1> HIDE DEF Sum
<1>5. Sum(BytesUpTo(rs, box))
  BY <1>3, <1>4
<1>6. QED
  BY <1>2, <1>5

LEMMA NestingAddsUp ==
  ASSUME NEW rs \in Seq(RowType), \A i \in 1 .. Len(rs) : rs[i].box < i
  PROVE  AddsUp(NestingOf(rs), ContainerRow(rs), Ones(rs), Len(rs))
<1> DEFINE Sum(f) == f = [i \in 0 .. Len(rs) |-> IF i = 0 THEN 0 ELSE f[rs[i].box] + 1]
<1>1. PICK f : AddsUp(f, ContainerRow(rs), Ones(rs), Len(rs))
  BY RowsAreChains, ChainsAddUp
<1>2. ASSUME NEW f1
      PROVE  Sum(f1) <=> AddsUp(f1, ContainerRow(rs), Ones(rs), Len(rs))
  <2>1. \A i \in 0 .. Len(rs) : i # 0 => ContainerRow(rs)[i] = rs[i].box /\ Ones(rs)[i] = 1
    BY LenProperties DEF ContainerRow, Ones
  <2>2. QED
    BY <2>1 DEF AddsUp
<1>3. Sum(f)
  BY <1>1, <1>2
<1>4. NestingOf(rs) = CHOOSE g : Sum(g)
  BY DEF NestingOf
<1> HIDE DEF Sum
<1>5. Sum(NestingOf(rs))
  BY <1>3, <1>4
<1>6. QED
  BY <1>2, <1>5

LEMMA BytesAppended ==
  ASSUME NEW rs \in Seq(RowType), NEW row \in RowType, NEW box
  PROVE  LET rt == Append(rs, row) IN
         /\ \A i \in 0 .. Len(rs) : BytesUpTo(rs, box)[i] \in Nat
         /\ \A i \in 0 .. Len(rs) : BytesUpTo(rt, box)[i] = BytesUpTo(rs, box)[i]
         /\ BytesUpTo(rt, box)[Len(rs) + 1] =
              BytesUpTo(rs, box)[Len(rs)] + IF row.box = box THEN row.rec.size ELSE 0
<1> DEFINE rt == Append(rs, row)
           n == Len(rs)
<1>1. /\ rt \in Seq(RowType) /\ Len(rt) = n + 1 /\ n \in Nat
      /\ \A i \in 1 .. n : rt[i] = rs[i]
      /\ rt[n + 1] = row
  BY RowAppended
<1>2. IsChain(EarlierRow(rs), SizesIn(rs, box), n)
  BY RowsAreChains
<1>3. AddsUp(BytesUpTo(rs, box), EarlierRow(rs), SizesIn(rs, box), n)
  BY BytesAddUp
<1> HIDE DEF rt
<1>4. AddsUp(BytesUpTo(rt, box), EarlierRow(rt), SizesIn(rt, box), n + 1)
  BY <1>1, BytesAddUp
<1>5. \A i \in 1 .. n : /\ EarlierRow(rt)[i] = EarlierRow(rs)[i]
                        /\ SizesIn(rt, box)[i] = SizesIn(rs, box)[i]
  BY <1>1 DEF EarlierRow, SizesIn
<1>6. n + 1 \in Nat /\ n <= n + 1
  BY <1>1
<1>7. \A i \in 0 .. n : BytesUpTo(rt, box)[i] = BytesUpTo(rs, box)[i]
  BY <1>1, <1>2, <1>3, <1>4, <1>5, <1>6, SumsAgree
<1>8. \A i \in 0 .. n : BytesUpTo(rs, box)[i] \in Nat
  <2>1. PICK f \in [0 .. n -> Nat] : AddsUp(f, EarlierRow(rs), SizesIn(rs, box), n)
    BY <1>2, ChainsAddUp
  <2>2. n <= n
    BY <1>1
  <2>3. \A i \in 0 .. n : f[i] = BytesUpTo(rs, box)[i]
    BY <1>1, <1>2, <1>3, <2>1, <2>2, SumsAgree
  <2>4. QED
    BY <2>1, <2>3
<1>9. BytesUpTo(rt, box)[n + 1] = BytesUpTo(rt, box)[n] + SizesIn(rt, box)[n + 1]
  <2>1. n + 1 \in 0 .. n + 1 /\ n + 1 # 0 /\ n + 1 \in 1 .. Len(rt) /\ (n + 1) - 1 = n
    BY <1>1
  <2>2. EarlierRow(rt)[n + 1] = n
    BY <2>1 DEF EarlierRow
  <2>3. QED
    BY <1>4, <2>1, <2>2 DEF AddsUp
<1>10. SizesIn(rt, box)[n + 1] = IF row.box = box THEN row.rec.size ELSE 0
  BY <1>1 DEF SizesIn
<1>11. n \in 0 .. n
  BY <1>1
<1>12. QED
  BY <1>7, <1>8, <1>9, <1>10, <1>11 DEF rt

LEMMA NothingInNewBox ==
  ASSUME NEW rs \in Seq(RowType), NEW box, \A i \in 1 .. Len(rs) : rs[i].box # box
  PROVE  BytesUpTo(rs, box)[Len(rs)] = 0
<1> DEFINE n == Len(rs)
           none == [i \in 0 .. n |-> 0]
<1>1. n \in Nat /\ n <= n /\ n \in 0 .. n
  BY LenProperties
<1>2. IsChain(EarlierRow(rs), SizesIn(rs, box), n)
  BY RowsAreChains
<1>3. AddsUp(BytesUpTo(rs, box), EarlierRow(rs), SizesIn(rs, box), n)
  BY BytesAddUp
<1>4. AddsUp(none, EarlierRow(rs), SizesIn(rs, box), n)
  <2>1. \A i \in 0 .. n : i # 0 => EarlierRow(rs)[i] \in 0 .. n /\ SizesIn(rs, box)[i] = 0
    BY <1>1 DEF EarlierRow, SizesIn
  <2>2. QED
    BY <2>1 DEF AddsUp
<1> HIDE DEF none
<1>5. \A i \in 0 .. n : none[i] = BytesUpTo(rs, box)[i]
  BY <1>1, <1>2, <1>3, <1>4, SumsAgree
<1>6. QED
  BY <1>1, <1>5 DEF none

LEMMA NestingAppended ==
  ASSUME NEW rs \in Seq(RowType), \A i \in 1 .. Len(rs) : rs[i].box < i,
         NEW row \in RowType, row.box <= Len(rs)
  PROVE  LET rt == Append(rs, row) IN
         /\ \A i \in 0 .. Len(rs) : NestingOf(rs)[i] \in Nat
         /\ \A i \in 0 .. Len(rs) : NestingOf(rt)[i] = NestingOf(rs)[i]
         /\ NestingOf(rt)[Len(rs) + 1] = NestingOf(rs)[row.box] + 1
<1> DEFINE rt == Append(rs, row)
           n == Len(rs)
<1>1. /\ rt \in Seq(RowType) /\ Len(rt) = n + 1 /\ n \in Nat
      /\ \A i \in 1 .. n : rt[i] = rs[i]
      /\ rt[n + 1] = row
  BY RowAppended
<1>2. IsChain(ContainerRow(rs), Ones(rs), n)
  BY RowsAreChains
<1>3. AddsUp(NestingOf(rs), ContainerRow(rs), Ones(rs), n)
  BY NestingAddsUp
<1>4. row.box \in Nat
  BY SizeTyped
<1> HIDE DEF rt
<1>5. \A i \in 1 .. Len(rt) : rt[i].box < i
  <2>1. \A i \in 1 .. n : rt[i].box < i
    BY <1>1
  <2>2. rt[n + 1].box < n + 1
    BY <1>1, <1>4
  <2>3. QED
    BY <1>1, <2>1, <2>2
<1>6. AddsUp(NestingOf(rt), ContainerRow(rt), Ones(rt), n + 1)
  BY <1>1, <1>5, NestingAddsUp
<1>7. \A i \in 1 .. n : ContainerRow(rt)[i] = ContainerRow(rs)[i] /\ Ones(rt)[i] = Ones(rs)[i]
  BY <1>1 DEF ContainerRow, Ones
<1>8. n + 1 \in Nat /\ n <= n + 1
  BY <1>1
<1>9. \A i \in 0 .. n : NestingOf(rt)[i] = NestingOf(rs)[i]
  BY <1>1, <1>2, <1>3, <1>6, <1>7, <1>8, SumsAgree
<1>10. \A i \in 0 .. n : NestingOf(rs)[i] \in Nat
  <2>1. PICK f \in [0 .. n -> Nat] : AddsUp(f, ContainerRow(rs), Ones(rs), n)
    BY <1>2, ChainsAddUp
  <2>2. n <= n
    BY <1>1
  <2>3. \A i \in 0 .. n : f[i] = NestingOf(rs)[i]
    BY <1>1, <1>2, <1>3, <2>1, <2>2, SumsAgree
  <2>4. QED
    BY <2>1, <2>3
<1>11. NestingOf(rt)[n + 1] = NestingOf(rt)[row.box] + 1
  <2>1. n + 1 \in 0 .. n + 1 /\ n + 1 # 0 /\ n + 1 \in 1 .. Len(rt)
    BY <1>1
  <2>2. ContainerRow(rt)[n + 1] = row.box /\ Ones(rt)[n + 1] = 1
    BY <1>1, <2>1 DEF ContainerRow, Ones
  <2>3. QED
    BY <1>6, <2>1, <2>2 DEF AddsUp
<1>12. row.box \in 0 .. n
  BY <1>1, <1>4
<1>13. QED
  BY <1>9, <1>10, <1>11, <1>12 DEF rt

-----------------------------------------------------------------------------
(* What a step does to the sizes and depths of the activations             *)

SameAmounts(x, y) == x.box = y.box /\ x.size = y.size /\ x.depth = y.depth

(* Nothing is written, and no activation begins.                           *)
Keeps ==
  /\ rows' = rows
  /\ \A i \in 1 .. Len(jobs') : \E k \in 1 .. Len(jobs) :
       SameAmounts(jobs'[i], jobs[k]) /\ (jobs[k].hit => jobs'[i].hit)

Begins ==
  /\ rows = << >> /\ rows' = << >> /\ opt.nest > 0
  /\ \A i \in 1 .. Len(jobs') :
       jobs'[i].box = 0 /\ jobs'[i].size = 0 /\ jobs'[i].depth = 1

(* The innermost activation writes a row; the row of an image may have an  *)
(* activation of its own.                                                  *)
WroteIt(job, row) ==
  /\ job.box = Job.box /\ job.size = Job.size + row.rec.size /\ job.depth = Job.depth
  /\ job.hit \/ ~Overflows(job)

StartedIt(job) ==
  /\ job.box = Len(rows) + 1 /\ job.size = 0
  /\ job.depth = Job.depth + 1 /\ Job.depth < opt.nest

Writes(row) ==
  /\ Walking /\ ~Job.hit
  /\ rows' = Append(rows, row) /\ row \in RowType /\ row.box = Job.box
  /\ \A i \in 1 .. Len(jobs') :
       \/ \E k \in 2 .. Len(jobs) : jobs'[i] = jobs[k]
       \/ WroteIt(jobs'[i], row)
       \/ StartedIt(jobs'[i])

LEMMA AfterAmounts ==
  ASSUME TypeOK, AtRecord, NEW r \in Records
  PROVE  /\ After(r).box = Job.box /\ After(r).size = Job.size + r.size
         /\ After(r).depth = Job.depth /\ After(r).hit = Job.hit
<1>1. Job \in JobType
  BY TopTyped DEF AtRecord
<1>2. Passed(Job) \in JobType /\ Passed(Job).size = Job.size
      /\ Passed(Job).box = Job.box /\ Passed(Job).depth = Job.depth
      /\ Passed(Job).hit = Job.hit
  BY <1>1, PassedTyped DEF Passed, JobType
<1>3. QED
  BY <1>2 DEF After, Counted, JobType

LEMMA ReplacedKeeps ==
  ASSUME TypeOK, Walking, NEW x \in JobType,
         jobs' = InPlaceOfJob(<<x>>), rows' = rows,
         SameAmounts(x, Job), Job.hit => x.hit
  PROVE  Keeps
<1>1. jobs \in Seq(JobType) /\ jobs # << >> /\ Job = jobs[1] /\ 1 \in 1 .. Len(jobs)
  BY TopTyped DEF TypeOK, Walking
<1>2. /\ Len(jobs') = Len(jobs) /\ jobs'[1] = x
      /\ \A i \in 1 .. Len(jobs) : i # 1 => jobs'[i] = jobs[i]
  BY <1>1, TopReplaced DEF InPlaceOfJob
<1>3. ASSUME NEW i \in 1 .. Len(jobs')
      PROVE  \E k \in 1 .. Len(jobs) :
               SameAmounts(jobs'[i], jobs[k]) /\ (jobs[k].hit => jobs'[i].hit)
  <2>1. CASE i = 1
    BY <1>1, <1>2, <2>1
  <2>2. CASE i # 1
    <3>1. jobs'[i] = jobs[i] /\ i \in 1 .. Len(jobs)
      BY <1>2, <2>2
    <3>2. SameAmounts(jobs'[i], jobs[i])
      BY <3>1 DEF SameAmounts
    <3>3. QED
      BY <3>1, <3>2
  <2>3. QED
    BY <2>1, <2>2
<1>4. QED
  BY <1>3 DEF Keeps

LEMMA QuietStepsKeep ==
  ASSUME IInv,
         \/ Overlook \/ StopAtLimit \/ SkipRecord \/ LeaveDirectory \/ LeaveImage
         \/ TimePasses \/ Rest \/ UNCHANGED vars
  PROVE  Keeps
<1>1. TypeOK /\ jobs \in Seq(JobType)
  BY DEF IInv, TypeOK
<1>2. CASE rows' = rows /\ jobs' = jobs
  BY <1>2 DEF Keeps, SameAmounts
<1>3. CASE StopAtLimit
  <2>1. Walking /\ Job \in JobType /\ Job.dirs # << >>
    BY <1>1, <1>3, TopTyped DEF StopAtLimit, AtRecord
  <2>2. Stopped(Job) \in JobType
    BY <2>1, StoppedTyped
  <2>3. SameAmounts(Stopped(Job), Job) /\ Stopped(Job).hit
    BY <2>1 DEF SameAmounts, Stopped, JobType
  <2>4. jobs' = InPlaceOfJob(<<Stopped(Job)>>) /\ rows' = rows
    BY <1>3 DEF StopAtLimit
  <2>5. QED
    BY <1>1, <2>1, <2>2, <2>3, <2>4, ReplacedKeeps
<1>4. CASE SkipRecord
  <2>1. AtRecord /\ Walking /\ Job \in JobType
    BY <1>1, <1>4, TopTyped DEF SkipRecord, AtRecord
  <2>2. Passed(Job) \in JobType
    BY <1>1, <2>1, PassedTyped
  <2>3. SameAmounts(Passed(Job), Job) /\ Passed(Job).hit = Job.hit
    BY <2>1 DEF SameAmounts, Passed, JobType
  <2>4. jobs' = InPlaceOfJob(<<Passed(Job)>>) /\ rows' = rows
    BY <1>4 DEF SkipRecord
  <2>5. QED
    BY <1>1, <2>1, <2>2, <2>3, <2>4, ReplacedKeeps
<1>5. CASE LeaveDirectory
  <2> DEFINE x == [Job EXCEPT !.dirs = Tail(Job.dirs)]
  <2>1. Walking /\ Job \in JobType /\ Job.dirs # << >>
    BY <1>1, <1>5, TopTyped DEF LeaveDirectory
  <2>2. Tail(Job.dirs) \in Seq(FrameType)
    BY <2>1, Nonempty DEF JobType
  <2>3. x \in JobType /\ SameAmounts(x, Job) /\ x.hit = Job.hit
    BY <2>1, <2>2 DEF SameAmounts, JobType
  <2>4. jobs' = InPlaceOfJob(<<x>>) /\ rows' = rows
    BY <1>5 DEF LeaveDirectory
  <2> HIDE DEF x
  <2>5. QED
    BY <1>1, <2>1, <2>3, <2>4, ReplacedKeeps
<1>6. CASE LeaveImage
  <2>1. jobs # << >> /\ jobs' = Tail(jobs) /\ rows' = rows
    BY <1>6 DEF LeaveImage, Walking
  <2>2. /\ Len(jobs) \in Nat /\ Len(jobs') = Len(jobs) - 1
        /\ \A i \in 1 .. Len(jobs) - 1 : jobs'[i] = jobs[i + 1]
    BY <1>1, <2>1, Nonempty
  <2>3. \A i \in 1 .. Len(jobs') : i + 1 \in 1 .. Len(jobs) /\ jobs'[i] = jobs[i + 1]
    BY <2>2
  <2>4. QED
    BY <2>1, <2>3 DEF Keeps, SameAmounts
<1>7. QED
  BY <1>2, <1>3, <1>4, <1>5, <1>6 DEF Overlook, TimePasses, Rest, vars

LEMMA DiscoverBegins ==
  ASSUME IInv, Discover
  PROVE  Keeps \/ Begins
<1>1. rows = << >> /\ jobs = << >> /\ rows' = << >> /\ opt.image \in Images
  BY OptTyped DEF IInv, NothingYet, Discover
<1>2. CASE jobs' = << >>
  BY <1>1, <1>2 DEF Keeps
<1>3. CASE opt.nest > 0 /\ \E tree \in FileSystems, moved \in Seq(Records) :
             jobs' = <<NewJob(0, opt.image, tree, moved, 1)>>
  <2>1. PICK tree \in FileSystems, moved \in Seq(Records) :
          jobs' = <<NewJob(0, opt.image, tree, moved, 1)>>
    BY <1>3
  <2> DEFINE job == NewJob(0, opt.image, tree, moved, 1)
  <2>2. job.box = 0 /\ job.size = 0 /\ job.depth = 1
    BY DEF NewJob
  <2>3. jobs' = <<job>>
    BY <2>1
  <2> HIDE DEF job
  <2>4. Len(jobs') = 1 /\ jobs'[1] = job
    BY <2>3
  <2>5. \A i \in 1 .. Len(jobs') : jobs'[i] = job
    BY <2>4
  <2>6. QED
    BY <1>1, <1>3, <2>2, <2>5 DEF Begins
<1>4. QED
  BY <1>1, <1>2, <1>3, ChosenIsOne, ReadOfImage DEF Discover

(* The row of an entry, and the activations when its own has been updated. *)
LEMMA RowWritten ==
  ASSUME IInv, AtRecord, MayGoOn, NEW r \in Records, AddEntry(r)
  PROVE  \E row \in RowType :
           /\ rows' = Append(rows, row)
           /\ row.box = Job.box /\ row.rec = r /\ row.parent = Frame.id
<1>1. PICK found \in BOOLEAN :
        rows' = Append(rows, [parent |-> Frame.id, rec |-> r, box |-> Job.box, found |-> found])
  BY DEF AddEntry
<1>2. TypeOK
  BY DEF IInv
<1>3. Frame.id \in Nat /\ Job.box \in Nat
  BY <1>2, FrameTyped, TopTyped DEF AtRecord
<1>4. [parent |-> Frame.id, rec |-> r, box |-> Job.box, found |-> found] \in RowType
  BY <1>3 DEF RowType
<1>5. QED
  BY <1>1, <1>4

LEMMA TopWrites ==
  ASSUME IInv, AtRecord, MayGoOn, NEW row \in RowType,
         rows' = Append(rows, row), row.box = Job.box,
         NEW x \in JobType, WroteIt(x, row)
  PROVE  /\ jobs' = InPlaceOfJob(<<x>>) => Writes(row)
         /\ \A job \in JobType :
              jobs' = <<job>> \o InPlaceOfJob(<<x>>) /\ StartedIt(job) => Writes(row)
<1> DEFINE js == InPlaceOfJob(<<x>>)
<1>1. /\ TypeOK /\ Walking /\ ~Job.hit /\ jobs \in Seq(JobType) /\ jobs # << >>
      /\ Len(jobs) \in Nat
  BY TopTyped DEF IInv, TypeOK, AtRecord, Walking, MayGoOn
<1>2. /\ js \in Seq(JobType) /\ Len(js) = Len(jobs) /\ js[1] = x
      /\ \A i \in 1 .. Len(jobs) : i # 1 => js[i] = jobs[i]
  BY <1>1, TopReplaced DEF InPlaceOfJob
<1> HIDE DEF js
<1>3. ASSUME NEW i \in 1 .. Len(js)
      PROVE  (\E k \in 2 .. Len(jobs) : js[i] = jobs[k]) \/ WroteIt(js[i], row)
  <2>1. CASE i = 1
    BY <1>2, <2>1
  <2>2. CASE i # 1
    BY <1>1, <1>2, <2>2
  <2>3. QED
    BY <2>1, <2>2
<1>4. CASE jobs' = js
  BY <1>1, <1>3, <1>4 DEF Writes
<1>5. ASSUME NEW job \in JobType, jobs' = <<job>> \o js, StartedIt(job)
      PROVE  Writes(row)
  <2>1. /\ Len(jobs') = Len(js) + 1 /\ Len(js) \in Nat /\ jobs'[1] = job
        /\ \A i \in 1 .. Len(js) : jobs'[i + 1] = js[i]
    BY <1>1, <1>2, <1>5, Pushed
  <2>2. ASSUME NEW i \in 1 .. Len(jobs'), i # 1
        PROVE  i - 1 \in 1 .. Len(js) /\ jobs'[i] = js[i - 1]
    <3>1. i - 1 \in 1 .. Len(js) /\ (i - 1) + 1 = i
      BY <2>1, <2>2
    <3>2. QED
      BY <2>1, <3>1
  <2>3. ASSUME NEW i \in 1 .. Len(jobs')
        PROVE  \/ \E k \in 2 .. Len(jobs) : jobs'[i] = jobs[k]
               \/ WroteIt(jobs'[i], row)
               \/ StartedIt(jobs'[i])
    <3>1. CASE i = 1
      BY <1>5, <2>1, <3>1
    <3>2. CASE i # 1
      BY <1>3, <2>2, <3>2
    <3>3. QED
      BY <3>1, <3>2
  <2>4. QED
    BY <1>1, <2>3 DEF Writes
<1>6. QED
  BY <1>4, <1>5 DEF js

(* An entry that does not pass the limit leaves its activation going on.   *)
LEMMA WithinLimit ==
  ASSUME TypeOK, AtRecord, NEW r \in Records, ~Overflows(After(r)),
         NEW row, row.rec = r,
         NEW x, SameAmounts(x, After(r))
  PROVE  WroteIt(x, row)
BY AfterAmounts DEF SameAmounts, WroteIt, Overflows

LEMMA WriteSteps ==
  ASSUME IInv, WriteLast \/ WriteDirectory \/ WriteFile \/ WriteImage
  PROVE  \E row : Writes(row)
<1>1. TypeOK /\ AtRecord /\ MayGoOn
  BY DEF IInv, WriteLast, WriteDirectory, WriteFile, WriteImage
<1>2. CASE WriteLast
  <2>1. PICK r \in Writable : AddEntry(r) /\ jobs' = InPlaceOfJob(<<Stopped(After(r))>>)
    BY <1>2 DEF WriteLast
  <2>2. r \in Records
    BY <1>1, <2>1, WritableTyped
  <2>3. PICK row \in RowType : rows' = Append(rows, row) /\ row.box = Job.box /\ row.rec = r
    BY <1>1, <2>1, <2>2, RowWritten
  <2> DEFINE x == After(r)
  <2>4. x \in JobType /\ Len(x.dirs) = Len(Job.dirs)
    BY <1>1, <2>2, AfterTyped
  <2>5. x.box = Job.box /\ x.size = Job.size + r.size /\ x.depth = Job.depth
    BY <1>1, <2>2, AfterAmounts
  <2>6. x.dirs # << >>
    <3>1. Job.dirs \in Seq(FrameType) /\ Job.dirs # << >>
      BY <1>1, TopTyped DEF AtRecord
    <3>2. Len(Job.dirs) # 0
      BY <3>1, Nonempty
    <3>3. QED
      BY <2>4, <3>2
  <2>7. jobs' = InPlaceOfJob(<<Stopped(x)>>)
    BY <2>1
  <2> HIDE DEF x
  <2>8. Stopped(x) \in JobType
    BY <2>4, <2>6, StoppedTyped
  <2>9. WroteIt(Stopped(x), row)
    BY <2>3, <2>4, <2>5 DEF WroteIt, Stopped, JobType
  <2>10. QED
    BY <1>1, <2>3, <2>7, <2>8, <2>9, TopWrites
<1>3. CASE WriteDirectory
  <2>1. PICK r \in Writable :
          /\ ~Overflows(After(r)) /\ r.kind = "dir" /\ AddEntry(r)
          /\ \/ jobs' = InPlaceOfJob(<<Entered(After(r), r)>>)
             \/ jobs' = InPlaceOfJob(<<After(r)>>)
    BY <1>3 DEF WriteDirectory
  <2>2. r \in Records
    BY <1>1, <2>1, WritableTyped
  <2>3. PICK row \in RowType : rows' = Append(rows, row) /\ row.box = Job.box /\ row.rec = r
    BY <1>1, <2>1, <2>2, RowWritten
  <2>4. After(r) \in JobType /\ Entered(After(r), r) \in JobType
    BY <1>1, <2>1, <2>2, AfterTyped, EnteredTyped
  <2>5. SameAmounts(Entered(After(r), r), After(r))
    BY <2>4 DEF SameAmounts, Entered, JobType
  <2>6. WroteIt(After(r), row) /\ WroteIt(Entered(After(r), r), row)
    BY <1>1, <2>1, <2>2, <2>3, <2>5, WithinLimit DEF SameAmounts
  <2>7. QED
    BY <1>1, <2>1, <2>3, <2>4, <2>6, TopWrites
<1>4. CASE WriteFile
  <2>1. PICK r \in Writable :
          ~Overflows(After(r)) /\ AddEntry(r) /\ jobs' = InPlaceOfJob(<<After(r)>>)
    BY <1>4 DEF WriteFile
  <2>2. r \in Records
    BY <1>1, <2>1, WritableTyped
  <2>3. PICK row \in RowType : rows' = Append(rows, row) /\ row.box = Job.box /\ row.rec = r
    BY <1>1, <2>1, <2>2, RowWritten
  <2>4. After(r) \in JobType /\ WroteIt(After(r), row)
    BY <1>1, <2>1, <2>2, <2>3, AfterTyped, WithinLimit DEF SameAmounts
  <2>5. QED
    BY <1>1, <2>1, <2>3, <2>4, TopWrites
<1>5. CASE WriteImage
  <2> DEFINE new(r, tree, moved) == NewJob(Len(rows) + 1, r.to, tree, moved, Job.depth + 1)
  <2>1. PICK r \in Writable :
          /\ ~Overflows(After(r)) /\ MayNest(r) /\ AddEntry(r)
          /\ \/ \E tree \in FileSystems : \E moved \in Reads(Relocated(r.to, tree)) :
                  jobs' = <<new(r, tree, moved)>> \o InPlaceOfJob(<<After(r)>>)
             \/ jobs' = InPlaceOfJob(<<After(r)>>)
    BY <1>5, ChosenIsOne DEF WriteImage
  <2>2. r \in Records
    BY <1>1, <2>1, WritableTyped
  <2>3. PICK row \in RowType : rows' = Append(rows, row) /\ row.box = Job.box /\ row.rec = r
    BY <1>1, <2>1, <2>2, RowWritten
  <2>4. After(r) \in JobType /\ WroteIt(After(r), row)
    BY <1>1, <2>1, <2>2, <2>3, AfterTyped, WithinLimit DEF SameAmounts
  <2>5. r.to \in Images
    <3>1. r \in RecordType /\ r.kind = "image" /\ (r.kind \in {"dir", "stub"} <=> r.to \in Dirs)
      BY <2>1, <2>2, WalkAssumption DEF MayNest
    <3>2. QED
      BY <3>1 DEF RecordType
  <2>6. Len(rows) + 1 \in Nat /\ Job.depth + 1 \in Nat
    <3>1. Job \in JobType /\ rows \in Seq(RowType)
      BY <1>1, TopTyped DEF AtRecord, TypeOK
    <3>2. QED
      BY <3>1, LenProperties DEF JobType
  <2>7. ASSUME NEW tree \in FileSystems, NEW moved \in Reads(Relocated(r.to, tree))
        PROVE  new(r, tree, moved) \in JobType /\ StartedIt(new(r, tree, moved))
    <3>1. new(r, tree, moved) \in JobType
      BY <2>5, <2>6, ReadOfImage, NewJobTyped
    <3>2. Job.depth < opt.nest
      BY <2>1 DEF MayNest
    <3>3. QED
      BY <3>1, <3>2 DEF StartedIt, NewJob
  <2> HIDE DEF new
  <2>8. QED
    BY <1>1, <2>1, <2>3, <2>4, <2>7, TopWrites
<1>6. QED
  BY <1>2, <1>3, <1>4, <1>5

LEMMA StepAmounts ==
  ASSUME IInv, [Next]_vars
  PROVE  opt' = opt /\ (Keeps \/ Begins \/ \E row : Writes(row))
<1>1. opt' = opt
  BY DEF Next, WalkStep, Overlook, Discover, StopAtLimit, SkipRecord, WriteLast,
         WriteDirectory, WriteFile, WriteImage, LeaveDirectory, LeaveImage, TimePasses,
         Rest, vars
<1>2. QED
  BY <1>1, QuietStepsKeep, DiscoverBegins, WriteSteps DEF Next, WalkStep

-----------------------------------------------------------------------------
(* The invariant of the sizes and depths                                   *)

AmountsRest ==
  /\ \A i \in 1 .. Len(jobs) : AmountsFit(jobs[i], rows)
  /\ SizeLimitHolds
  /\ NestingLimitHolds

LEMMA KeepsAmounts ==
  ASSUME AmountsRest, opt' = opt, Keeps
  PROVE  AmountsRest'
<1>1. rows' = rows
  BY DEF Keeps
<1>2. ASSUME NEW i \in 1 .. Len(jobs')
      PROVE  AmountsFit(jobs[i], rows)'
  <2>1. PICK k \in 1 .. Len(jobs) :
          SameAmounts(jobs'[i], jobs[k]) /\ (jobs[k].hit => jobs'[i].hit)
    BY DEF Keeps
  <2>2. AmountsFit(jobs[k], rows)
    BY DEF AmountsRest
  <2>3. QED
    BY <1>1, <2>1, <2>2 DEF AmountsFit, SameAmounts
<1>3. SizeLimitHolds' /\ NestingLimitHolds'
  BY <1>1 DEF AmountsRest, SizeLimitHolds, NestingLimitHolds, Ids
<1>4. QED
  BY <1>2, <1>3 DEF AmountsRest

LEMMA BeginsAmounts ==
  ASSUME IInv, opt' = opt, Begins
  PROVE  AmountsRest'
<1>1. rows' = << >> /\ << >> \in Seq(RowType) /\ Len(rows') = 0
  BY EmptySeq DEF Begins
<1>2. \A i \in 1 .. Len(rows') : rows'[i].box < i /\ rows'[i].box # 0
  BY <1>1
<1>3. opt.nest \in Nat /\ opt.bytes \in Nat
  BY WalkAssumption DEF IInv, TypeOK, OptionType
<1>4. BytesUpTo(rows', 0)[Len(rows')] = 0
  BY <1>1, <1>2, NothingInNewBox
<1>5. NestingOf(rows')[0] = 0
  <2>1. AddsUp(NestingOf(rows'), ContainerRow(rows'), Ones(rows'), Len(rows'))
    BY <1>1, <1>2, NestingAddsUp
  <2>2. QED
    BY <1>1, <2>1 DEF AddsUp
<1>6. ASSUME NEW i \in 1 .. Len(jobs')
      PROVE  AmountsFit(jobs[i], rows)'
  <2>1. jobs'[i].box = 0 /\ jobs'[i].size = 0 /\ jobs'[i].depth = 1 /\ opt.nest > 0
    BY DEF Begins
  <2>2. QED
    BY <1>3, <1>4, <1>5, <2>1 DEF AmountsFit
<1>7. SizeLimitHolds' /\ NestingLimitHolds'
  BY <1>1 DEF SizeLimitHolds, NestingLimitHolds, Ids
<1>8. QED
  BY <1>6, <1>7 DEF AmountsRest

LEMMA WritesAmounts ==
  ASSUME IInv, AmountsRest, opt' = opt, NEW row, Writes(row)
  PROVE  AmountsRest'
<1> DEFINE n == Len(rows)
<1>1. /\ TypeOK /\ Walking /\ ~Job.hit /\ rows \in Seq(RowType) /\ jobs \in Seq(JobType)
      /\ rows' = Append(rows, row) /\ row \in RowType /\ row.box = Job.box
      /\ JobsFit(jobs, rows, boxes) /\ HangTogether(rows, boxes)
  BY DEF IInv, TypeOK, Writes, EntriesHangTogether
<1>2. Job = jobs[1] /\ 1 \in 1 .. Len(jobs) /\ Len(jobs) \in Nat
  BY <1>1, TopTyped
<1>3. AmountsFit(Job, rows) /\ Job.box \in boxes
  BY <1>1, <1>2 DEF AmountsRest, JobsFit, JobFits
<1>4. /\ rows' \in Seq(RowType) /\ Len(rows') = n + 1 /\ n \in Nat
      /\ \A i \in 1 .. n : rows'[i] = rows[i]
      /\ rows'[n + 1] = row
  BY <1>1, RowAppended
<1>5. \A i \in 1 .. n : rows[i].box < i
  BY <1>1 DEF HangTogether
<1>6. boxes \subseteq 0 .. n /\ Job.box \in 0 .. n
  BY <1>1, <1>3 DEF HangTogether
<1>7. /\ \A i \in 0 .. n : NestingOf(rows')[i] = NestingOf(rows)[i]
      /\ NestingOf(rows')[n + 1] = NestingOf(rows)[Job.box] + 1
  BY <1>1, <1>4, <1>5, <1>6, NestingAppended
<1>8. ASSUME NEW box
      PROVE  /\ \A i \in 0 .. n : BytesUpTo(rows', box)[i] = BytesUpTo(rows, box)[i]
             /\ BytesUpTo(rows, box)[n] \in Nat
             /\ BytesUpTo(rows', box)[n + 1] =
                  BytesUpTo(rows, box)[n] + IF Job.box = box THEN row.rec.size ELSE 0
  BY <1>1, <1>4, BytesAppended
<1>9. opt.nest \in Nat /\ opt.bytes \in Nat
  BY <1>1, WalkAssumption DEF TypeOK, OptionType
<1>10. row.rec.size \in Nat
  BY <1>1, SizeTyped
<1>11. ASSUME NEW i \in 1 .. Len(jobs')
       PROVE  AmountsFit(jobs[i], rows)'
  <2>1. ASSUME NEW k \in 2 .. Len(jobs), jobs'[i] = jobs[k]
        PROVE  AmountsFit(jobs[i], rows)'
    <3>1. k \in 1 .. Len(jobs) /\ k # 1
      BY <1>2
    <3>2. AmountsFit(jobs[k], rows) /\ jobs[k].box \in 0 .. n
      BY <1>1, <1>6, <3>1 DEF AmountsRest, JobsFit, JobFits
    <3>3. jobs[k].box # Job.box
      BY <1>1, <1>2, <3>1, BoxesDiffer
    <3>4. BytesUpTo(rows', jobs[k].box)[n + 1] = BytesUpTo(rows, jobs[k].box)[n]
      BY <1>8, <3>3
    <3>5. QED
      BY <1>4, <1>7, <2>1, <3>2, <3>4 DEF AmountsFit
  <2>2. CASE WroteIt(jobs'[i], row)
    <3>1. /\ jobs'[i].box = Job.box /\ jobs'[i].size = Job.size + row.rec.size
          /\ jobs'[i].depth = Job.depth
          /\ jobs'[i].hit \/ ~(opt.bytes > 0 /\ jobs'[i].size > opt.bytes)
      BY <2>2 DEF WroteIt, Overflows
    <3>2. BytesUpTo(rows', Job.box)[n + 1] = BytesUpTo(rows, Job.box)[n] + row.rec.size
      BY <1>8
    <3>3. /\ Job.size = BytesUpTo(rows, Job.box)[n]
          /\ Job.depth = NestingOf(rows)[Job.box] + 1 /\ Job.depth <= opt.nest
      BY <1>3 DEF AmountsFit
    <3>4. NestingOf(rows')[Job.box] = NestingOf(rows)[Job.box]
      BY <1>6, <1>7
    <3>5. Job.size \in Nat /\ Job.size + row.rec.size \in Nat
      BY <1>8, <1>10, <3>3
    <3>6. QED
      BY <1>4, <1>9, <3>1, <3>2, <3>3, <3>4, <3>5 DEF AmountsFit
  <2>3. CASE StartedIt(jobs'[i])
    <3>1. /\ jobs'[i].box = n + 1 /\ jobs'[i].size = 0
          /\ jobs'[i].depth = Job.depth + 1 /\ Job.depth < opt.nest
      BY <2>3 DEF StartedIt
    <3>2. \A j \in 1 .. n + 1 : rows'[j].box # n + 1
      <4>1. \A j \in 1 .. n : rows'[j].box < j
        BY <1>4, <1>5
      <4>2. \A j \in 1 .. n : rows'[j].box \in Nat
        BY <1>1, <1>4, ElementOfSeq, SizeTyped
      <4>3. rows'[n + 1].box # n + 1
        BY <1>1, <1>4, <1>6
      <4>4. QED
        BY <1>4, <4>1, <4>2, <4>3
    <3>3. BytesUpTo(rows', n + 1)[n + 1] = 0
      BY <1>4, <3>2, NothingInNewBox
    <3>4. Job.depth = NestingOf(rows)[Job.box] + 1
      BY <1>3 DEF AmountsFit
    <3>5. NestingOf(rows')[n + 1] + 1 = Job.depth + 1
      BY <1>7, <3>4
    <3>6. Job.depth \in Nat
      BY <1>1, TopTyped DEF JobType
    <3>7. Job.depth + 1 <= opt.nest
      BY <1>9, <3>1, <3>6
    <3>8. QED
      BY <1>4, <1>9, <3>1, <3>3, <3>5, <3>7 DEF AmountsFit
  <2>4. QED
    BY <2>1, <2>2, <2>3 DEF Writes
<1>12. SizeLimitHolds'
  <2> SUFFICES ASSUME opt.bytes > 0, NEW i \in 1 .. n + 1
               PROVE  BytesUpTo(rows', rows'[i].box)[i - 1] <= opt.bytes
    BY <1>4 DEF SizeLimitHolds, Ids
  <2>1. CASE i \in 1 .. n
    <3>1. i - 1 \in 0 .. n
      BY <1>4, <2>1
    <3>2. BytesUpTo(rows, rows[i].box)[i - 1] <= opt.bytes
      BY <2>1 DEF AmountsRest, SizeLimitHolds, Ids
    <3>3. QED
      BY <1>4, <1>8, <2>1, <3>1, <3>2
  <2>2. CASE i = n + 1
    <3>1. i - 1 = n /\ n \in 0 .. n /\ rows'[i].box = Job.box
      BY <1>1, <1>4, <2>2
    <3>2. BytesUpTo(rows', Job.box)[n] = BytesUpTo(rows, Job.box)[n]
      BY <1>8, <3>1
    <3>3. Job.size = BytesUpTo(rows, Job.box)[n] /\ Job.size <= opt.bytes
      BY <1>1, <1>3 DEF AmountsFit
    <3>4. QED
      BY <3>1, <3>2, <3>3
  <2>3. QED
    BY <1>4, <2>1, <2>2
<1>13. NestingLimitHolds'
  <2> SUFFICES ASSUME NEW i \in 1 .. n + 1
               PROVE  NestingOf(rows')[i] <= opt.nest
    BY <1>4 DEF NestingLimitHolds, Ids
  <2>1. CASE i \in 1 .. n
    BY <1>4, <1>7, <2>1 DEF AmountsRest, NestingLimitHolds, Ids
  <2>2. CASE i = n + 1
    BY <1>3, <1>7, <2>2 DEF AmountsFit
  <2>3. QED
    BY <1>4, <2>1, <2>2
<1>14. QED
  BY <1>11, <1>12, <1>13 DEF AmountsRest

(* An error is counted only when there is no tree to walk.                 *)
ErrorsRest == errors => ChosenTree(opt.image) = {} \/ "lookup" \in opt.faults

LEMMA NextErrors ==
  ASSUME ErrorsRest, [Next]_vars
  PROVE  ErrorsRest'
<1>1. opt' = opt
  BY DEF Next, WalkStep, Overlook, Discover, StopAtLimit, SkipRecord, WriteLast,
         WriteDirectory, WriteFile, WriteImage, LeaveDirectory, LeaveImage, TimePasses,
         Rest, vars
<1>2. errors' = errors \/ ChosenTree(opt.image) = {} \/ "lookup" \in opt.faults
  BY DEF Next, WalkStep, Overlook, Discover, StopAtLimit, SkipRecord, WriteLast,
         WriteDirectory, WriteFile, WriteImage, LeaveDirectory, LeaveImage, TimePasses,
         Rest, vars
<1>3. QED
  BY <1>1, <1>2 DEF ErrorsRest

(* The expansion also keeps the account of sizes and depths.               *)
THEOREM AmountsAreKept == Spec => []AmountsInv
<1>1. AmountsInv <=> IInv /\ AmountsRest /\ ErrorsRest
  BY DEF AmountsInv, AmountsRest, ErrorsRest
<1>2. Init => AmountsInv
  <2> SUFFICES ASSUME Init PROVE AmountsInv
    OBVIOUS
  <2>1. IInv /\ ErrorsRest
    BY InitIInv DEF Init, ErrorsRest
  <2>2. AmountsRest
    BY DEF Init, AmountsRest, SizeLimitHolds, NestingLimitHolds, Ids
  <2>3. QED
    BY <1>1, <2>1, <2>2
<1>3. AmountsInv /\ [Next]_vars => AmountsInv'
  <2> SUFFICES ASSUME AmountsInv, [Next]_vars PROVE AmountsInv'
    OBVIOUS
  <2>1. IInv' /\ ErrorsRest'
    BY <1>1, NextKeeps, NextErrors
  <2>2. AmountsRest'
    BY <1>1, StepAmounts, KeepsAmounts, BeginsAmounts, WritesAmounts
  <2>3. IInv' /\ AmountsRest' /\ ErrorsRest' => AmountsInv'
    BY DEF AmountsInv, AmountsRest, ErrorsRest
  <2>4. QED
    BY <2>1, <2>2, <2>3
<1>4. QED
  BY <1>2, <1>3, PTL DEF Spec

(* Without its last entry an image never has more than max_virtual_size,   *)
(* whatever nests in it and however often.                                 *)
THEOREM SizeLimitIsKept == Spec => []SizeLimitHolds
<1>1. AmountsInv => SizeLimitHolds
  BY DEF AmountsInv
<1>2. QED
  BY <1>1, AmountsAreKept, PTL

(* No entry lies in more images than max_container_depth, also of images   *)
(* that contain themselves.                                                *)
THEOREM NestingLimitIsKept == Spec => []NestingLimitHolds
<1>1. AmountsInv => NestingLimitHolds
  BY DEF AmountsInv
<1>2. QED
  BY <1>1, AmountsAreKept, PTL

(* A hybrid disc whose ISO 9660 tree can be read is never given up because *)
(* of what its UDF volume looks like (IsoProvider::scan).                  *)
THEOREM HybridDiscsAreRead == Spec => []ReadableIsoIsWalked
<1>1. AmountsInv => ReadableIsoIsWalked
  <2>1. ASSUME Volume[opt.image]["iso"] = "readable", Volume[opt.image]["joliet"] = "absent"
        PROVE  ChosenTree(opt.image) # {}
    <3>1. Opens(opt.image, "iso") /\ ~Opens(opt.image, "joliet")
      BY <2>1 DEF Opens
    <3>2. CASE Volume[opt.image]["udf"] = "readable"
      BY <3>2 DEF ChosenTree
    <3>3. CASE Volume[opt.image]["udf"] # "readable"
      <4>1. "iso" \in ChosenTree(opt.image)
        BY <2>1, <3>1, <3>3 DEF ChosenTree
      <4>2. QED
        BY <4>1
    <3>4. QED
      BY <3>2, <3>3
  <2>2. QED
    BY <2>1 DEF AmountsInv, ReadableIsoIsWalked
<1>2. QED
  BY <1>1, AmountsAreKept, PTL

(* Rows, activations and counters keep their types.                        *)
THEOREM WalkTypes == Spec => []TypeOK
<1>1. IInv => TypeOK
  BY DEF IInv
<1>2. QED
  BY <1>1, ExpansionIsSound, PTL

-----------------------------------------------------------------------------
(* Levels, extents and children when a row is written                      *)

LevelRow(rs) ==
  [i \in 1 .. Len(rs) |-> IF rs[i].parent = rs[i].box THEN 0 ELSE rs[i].parent]

LEMMA ParentTyped ==
  ASSUME NEW rs \in Seq(RowType), NEW i \in 1 .. Len(rs)
  PROVE  rs[i] \in RowType /\ rs[i].parent \in Nat
<1>1. rs[i] \in RowType
  BY ElementOfSeq
<1>2. QED
  BY <1>1 DEF RowType

LEMMA LevelsAreChains ==
  ASSUME NEW rs \in Seq(RowType), \A i \in 1 .. Len(rs) : rs[i].parent < i
  PROVE  IsChain(LevelRow(rs), Ones(rs), Len(rs))
<1>1. Len(rs) \in Nat /\ \A i \in 1 .. Len(rs) : rs[i].parent \in Nat
  BY LenProperties, ParentTyped
<1>2. QED
  BY <1>1 DEF IsChain, LevelRow, Ones

LEMMA LevelsAddUp ==
  ASSUME NEW rs \in Seq(RowType), \A i \in 1 .. Len(rs) : rs[i].parent < i
  PROVE  AddsUp(LevelsOf(rs), LevelRow(rs), Ones(rs), Len(rs))
<1> DEFINE Sum(f) == f = [i \in 0 .. Len(rs) |->
                            IF i = 0 THEN 0
                            ELSE f[IF rs[i].parent = rs[i].box THEN 0 ELSE rs[i].parent] + 1]
<1>1. PICK f : AddsUp(f, LevelRow(rs), Ones(rs), Len(rs))
  BY LevelsAreChains, ChainsAddUp
<1>2. ASSUME NEW f1
      PROVE  Sum(f1) <=> AddsUp(f1, LevelRow(rs), Ones(rs), Len(rs))
  <2>1. \A i \in 0 .. Len(rs) : i # 0 =>
          /\ LevelRow(rs)[i] = IF rs[i].parent = rs[i].box THEN 0 ELSE rs[i].parent
          /\ Ones(rs)[i] = 1
    BY LenProperties DEF LevelRow, Ones
  <2>2. QED
    BY <2>1 DEF AddsUp
<1>3. Sum(f)
  BY <1>1, <1>2
<1>4. LevelsOf(rs) = CHOOSE g : Sum(g)
  BY DEF LevelsOf
<1> HIDE DEF Sum
<1>5. Sum(LevelsOf(rs))
  BY <1>3, <1>4
<1>6. QED
  BY <1>2, <1>5

LEMMA LevelsAppended ==
  ASSUME NEW rs \in Seq(RowType), \A i \in 1 .. Len(rs) : rs[i].parent < i,
         NEW row \in RowType, row.parent <= Len(rs)
  PROVE  LET rt == Append(rs, row)
             up == IF row.parent = row.box THEN 0 ELSE row.parent IN
         /\ \A i \in 0 .. Len(rs) : LevelsOf(rs)[i] \in Nat
         /\ \A i \in 0 .. Len(rs) : LevelsOf(rt)[i] = LevelsOf(rs)[i]
         /\ LevelsOf(rs)[0] = 0
         /\ LevelsOf(rt)[Len(rs) + 1] = LevelsOf(rs)[up] + 1
<1> DEFINE rt == Append(rs, row)
           n == Len(rs)
           up == IF row.parent = row.box THEN 0 ELSE row.parent
<1>1. /\ rt \in Seq(RowType) /\ Len(rt) = n + 1 /\ n \in Nat
      /\ \A i \in 1 .. n : rt[i] = rs[i]
      /\ rt[n + 1] = row
  BY RowAppended
<1>2. IsChain(LevelRow(rs), Ones(rs), n)
  BY LevelsAreChains
<1>3. AddsUp(LevelsOf(rs), LevelRow(rs), Ones(rs), n)
  BY LevelsAddUp
<1>4. row.parent \in Nat
  BY DEF RowType
<1> HIDE DEF rt
<1>5. \A i \in 1 .. Len(rt) : rt[i].parent < i
  <2>1. \A i \in 1 .. n : rt[i].parent < i
    BY <1>1
  <2>2. rt[n + 1].parent < n + 1
    BY <1>1, <1>4
  <2>3. QED
    BY <1>1, <2>1, <2>2
<1>6. AddsUp(LevelsOf(rt), LevelRow(rt), Ones(rt), n + 1)
  BY <1>1, <1>5, LevelsAddUp
<1>7. \A i \in 1 .. n : LevelRow(rt)[i] = LevelRow(rs)[i] /\ Ones(rt)[i] = Ones(rs)[i]
  BY <1>1 DEF LevelRow, Ones
<1>8. n + 1 \in Nat /\ n <= n + 1
  BY <1>1
<1>9. \A i \in 0 .. n : LevelsOf(rt)[i] = LevelsOf(rs)[i]
  BY <1>1, <1>2, <1>3, <1>6, <1>7, <1>8, SumsAgree
<1>10. \A i \in 0 .. n : LevelsOf(rs)[i] \in Nat
  <2>1. PICK f \in [0 .. n -> Nat] : AddsUp(f, LevelRow(rs), Ones(rs), n)
    BY <1>2, ChainsAddUp
  <2>2. n <= n
    BY <1>1
  <2>3. \A i \in 0 .. n : f[i] = LevelsOf(rs)[i]
    BY <1>1, <1>2, <1>3, <2>1, <2>2, SumsAgree
  <2>4. QED
    BY <2>1, <2>3
<1>11. LevelsOf(rt)[n + 1] = LevelsOf(rt)[up] + 1
  <2>1. n + 1 \in 0 .. n + 1 /\ n + 1 # 0 /\ n + 1 \in 1 .. Len(rt)
    BY <1>1
  <2>2. LevelRow(rt)[n + 1] = up /\ Ones(rt)[n + 1] = 1
    BY <1>1, <2>1 DEF LevelRow, Ones
  <2>3. QED
    BY <1>6, <2>1, <2>2 DEF AddsUp
<1>12. up \in 0 .. n
  BY <1>1, <1>4
<1>13. 0 \in 0 .. n /\ LevelsOf(rs)[0] = 0
  BY <1>1, <1>3 DEF AddsUp
<1>14. QED
  BY <1>9, <1>10, <1>11, <1>12, <1>13 DEF rt

(* A row in another image.                                                 *)
LEMMA RowElsewhere ==
  ASSUME NEW rs \in Seq(RowType), NEW row \in RowType, NEW box, row.box # box
  PROVE  /\ FoldersOf(Append(rs, row), box) = FoldersOf(rs, box)
         /\ \A i : ChildrenOf(Append(rs, row), i, box) = ChildrenOf(rs, i, box)
<1> DEFINE rt == Append(rs, row)
<1>1. RowsOf(rt, box) = RowsOf(rs, box)
  BY RowAppended
<1>2. \A k \in RowsOf(rs, box) : rt[k] = rs[k]
  BY RowAppended DEF RowsOf
<1> HIDE DEF rt
<1>3. FoldersOf(rt, box) = FoldersOf(rs, box)
  BY <1>1, <1>2 DEF FoldersOf
<1>4. ASSUME NEW i
      PROVE  ChildrenOf(rt, i, box) = ChildrenOf(rs, i, box)
  BY <1>1, <1>2 DEF ChildrenOf
<1>5. QED
  BY <1>3, <1>4 DEF rt

(* A row in this image.                                                    *)
LEMMA RowHere ==
  ASSUME NEW rs \in Seq(RowType), NEW row \in RowType
  PROVE  LET rt == Append(rs, row) IN
         /\ \A i \in FoldersOf(rt, row.box) :
              i \in FoldersOf(rs, row.box) \/ (i = Len(rs) + 1 /\ Folder(row.rec))
         /\ Folder(row.rec) => Len(rs) + 1 \in FoldersOf(rt, row.box)
         /\ ChildrenOf(rt, row.parent, row.box) =
              ChildrenOf(rs, row.parent, row.box) \cup {row.rec}
         /\ \A i : i # row.parent =>
              ChildrenOf(rt, i, row.box) = ChildrenOf(rs, i, row.box)
<1> DEFINE rt == Append(rs, row)
           n == Len(rs)
           box == row.box
<1>1. /\ n \in Nat /\ rt[n + 1] = row
      /\ RowsOf(rt, box) = RowsOf(rs, box) \cup {n + 1}
  BY RowAppended
<1>2. \A k \in RowsOf(rs, box) : rt[k] = rs[k]
  BY RowAppended DEF RowsOf
<1> HIDE DEF rt
<1>3. /\ \A i \in FoldersOf(rt, box) :
           i \in FoldersOf(rs, box) \/ (i = n + 1 /\ Folder(row.rec))
      /\ Folder(row.rec) => n + 1 \in FoldersOf(rt, box)
  BY <1>1, <1>2 DEF FoldersOf, Folder
<1>4. ChildrenOf(rt, row.parent, box) = ChildrenOf(rs, row.parent, box) \cup {row.rec}
  BY <1>1, <1>2 DEF ChildrenOf
<1>5. ASSUME NEW i, i # row.parent
      PROVE  ChildrenOf(rt, i, box) = ChildrenOf(rs, i, box)
  BY <1>1, <1>2, <1>5 DEF ChildrenOf
<1>6. QED
  BY <1>3, <1>4, <1>5 DEF rt

(* What is known of a directory does not change.                           *)
LEMMA FolderKept ==
  ASSUME NEW rs \in Seq(RowType), NEW containers, HangTogether(rs, containers),
         NEW row \in RowType, row.parent <= Len(rs),
         NEW job, job.box \in containers, NEW i \in FoldersOf(rs, job.box)
  PROVE  LET rt == Append(rs, row) IN
         /\ i \in 0 .. Len(rs) /\ i # Len(rs) + 1
         /\ LevelIn(rs, job, i) \in Nat
         /\ LevelIn(rt, job, i) = LevelIn(rs, job, i)
         /\ Reached(rt, job, i) <=> Reached(rs, job, i)
         /\ Contents(rt, job, i) = Contents(rs, job, i)
<1> DEFINE rt == Append(rs, row)
           n == Len(rs)
<1>1. /\ n \in Nat /\ \A k \in 1 .. n : rt[k] = rs[k]
  BY RowAppended
<1>2. job.box \in 0 .. n /\ \A k \in 1 .. n : rs[k].parent < k
  BY DEF HangTogether
<1>3. i \in 0 .. n /\ (i # job.box => i \in 1 .. n)
  BY <1>1, <1>2 DEF FoldersOf, RowsOf
<1>4. LevelsOf(rs)[i] \in Nat /\ LevelsOf(rt)[i] = LevelsOf(rs)[i]
  BY <1>2, <1>3, LevelsAppended
<1> HIDE DEF rt
<1>5. LevelIn(rs, job, i) \in Nat /\ LevelIn(rt, job, i) = LevelIn(rs, job, i)
  BY <1>4 DEF LevelIn
<1>6. Reached(rt, job, i) <=> Reached(rs, job, i)
  BY <1>5 DEF Reached
<1>7. ImageOf(rt, job.box) = ImageOf(rs, job.box)
  BY <1>1, <1>2 DEF ImageOf
<1>8. ExtentIn(rt, job, i) = ExtentIn(rs, job, i)
  BY <1>1, <1>3, <1>7 DEF ExtentIn
<1>9. QED
  BY <1>1, <1>3, <1>5, <1>6, <1>8 DEF Contents, rt

-----------------------------------------------------------------------------
(* The records a frame has yet to look at                                  *)

ValidOf(r, moved) == {s \in Resolved(r, moved) : ValidName(s)}

LEMMA TodoSplit ==
  ASSUME NEW todo \in Seq(Records), NEW moved
  PROVE  /\ todo = << >> => WritableOf(todo, moved) = {}
         /\ todo # << >> =>
              WritableOf(todo, moved) =
                ValidOf(Head(todo), moved) \cup WritableOf(Tail(todo), moved)
<1>1. ASSUME NEW s
      PROVE  s \in WritableOf(todo, moved) <=>
               \E k \in 1 .. Len(todo) : s \in ValidOf(todo[k], moved)
  BY DEF WritableOf, ValidOf
<1>2. todo = << >> => 1 .. Len(todo) = {}
  BY EmptySeq
<1>3. ASSUME todo # << >>, NEW s
      PROVE  s \in WritableOf(todo, moved) <=>
               s \in ValidOf(Head(todo), moved) \cup WritableOf(Tail(todo), moved)
  <2> DEFINE rest == Tail(todo)
  <2>1. /\ Len(todo) \in Nat /\ 1 <= Len(todo) /\ Head(todo) = todo[1]
        /\ Len(rest) = Len(todo) - 1
        /\ \A i \in 1 .. Len(todo) - 1 : rest[i] = todo[i + 1]
    BY <1>3, Nonempty
  <2> HIDE DEF rest
  <2>2. s \in WritableOf(rest, moved) <=>
          \E k \in 1 .. Len(rest) : s \in ValidOf(rest[k], moved)
    BY DEF WritableOf, ValidOf
  <2>3. ASSUME NEW k \in 1 .. Len(todo), s \in ValidOf(todo[k], moved), k # 1
        PROVE  \E j \in 1 .. Len(rest) : s \in ValidOf(rest[j], moved)
    <3>1. k - 1 \in 1 .. Len(todo) - 1 /\ (k - 1) + 1 = k
      BY <2>1, <2>3
    <3>2. rest[k - 1] = todo[k] /\ k - 1 \in 1 .. Len(rest)
      BY <2>1, <3>1
    <3>3. QED
      BY <2>3, <3>2
  <2>4. ASSUME NEW j \in 1 .. Len(rest), s \in ValidOf(rest[j], moved)
        PROVE  \E k \in 1 .. Len(todo) : s \in ValidOf(todo[k], moved)
    <3>1. j + 1 \in 1 .. Len(todo) /\ rest[j] = todo[j + 1]
      BY <2>1
    <3>2. QED
      BY <2>4, <3>1
  <2>5. 1 \in 1 .. Len(todo)
    BY <2>1
  <2>6. QED
    BY <1>1, <2>1, <2>2, <2>3, <2>4, <2>5 DEF rest
<1>4. QED
  BY <1>1, <1>2, <1>3

LEMMA OneResolved ==
  ASSUME NEW r, NEW moved \in Seq(Records),
         NEW a \in Resolved(r, moved), NEW b \in Resolved(r, moved)
  PROVE  a = b
<1>1. DOMAIN moved \subseteq Nat
  BY LenProperties
<1>2. ASSUME NEW S \in SUBSET Nat, NEW i \in Earliest(S), NEW j \in Earliest(S)
      PROVE  i = j
  BY DEF Earliest
<1> DEFINE named == {k \in DOMAIN moved : moved[k].name = r.name}
<1>3. CASE r.kind # "stub"
  BY <1>3 DEF Resolved
<1>4. CASE r.kind = "stub" /\ Earliest(named) # {}
  <2>1. Resolved(r, moved) = {moved[k] : k \in Earliest(named)}
    BY <1>4 DEF Resolved
  <2>2. named \in SUBSET Nat
    BY <1>1
  <2> HIDE DEF named
  <2>3. QED
    BY <1>2, <2>1, <2>2
<1>5. CASE r.kind = "stub" /\ Earliest(named) = {}
  <2>1. Resolved(r, moved) = {moved[k] : k \in {r.pos} \cap DOMAIN moved}
    BY <1>5 DEF Resolved
  <2>2. QED
    BY <2>1
<1>6. QED
  BY <1>3, <1>4, <1>5

-----------------------------------------------------------------------------
(* What a step does to a walk that is whole so far                         *)

SameWalk(x, job) == x.box = job.box /\ x.tree = job.tree /\ x.moved = job.moved

LEMMA SameWalkSame ==
  ASSUME NEW x, NEW job, SameWalk(x, job), NEW rs, NEW i
  PROVE  /\ LevelIn(rs, x, i) = LevelIn(rs, job, i)
         /\ Reached(rs, x, i) <=> Reached(rs, job, i)
         /\ Contents(rs, x, i) = Contents(rs, job, i)
         /\ HasItsContents(rs, x, i) <=> HasItsContents(rs, job, i)
<1>1. x.box = job.box /\ x.tree = job.tree /\ x.moved = job.moved
  BY DEF SameWalk
<1>2. LevelIn(rs, x, i) = LevelIn(rs, job, i)
  BY <1>1 DEF LevelIn
<1>3. Reached(rs, x, i) <=> Reached(rs, job, i)
  BY <1>1, <1>2 DEF Reached
<1>4. ExtentIn(rs, x, i) = ExtentIn(rs, job, i)
  BY <1>1 DEF ExtentIn
<1>5. Contents(rs, x, i) = Contents(rs, job, i)
  BY <1>1, <1>4 DEF Contents
<1>6. QED
  BY <1>1, <1>2, <1>3, <1>5 DEF HasItsContents

OpensFolders(job, rs) == \A k \in 1 .. Len(job.dirs) : job.dirs[k].id \in FoldersOf(rs, job.box)

(* A row of another image.                                                 *)
LEMMA WholeElsewhere ==
  ASSUME NEW rs \in Seq(RowType), NEW containers, HangTogether(rs, containers),
         NEW row \in RowType, row.parent <= Len(rs),
         NEW job, job.box \in containers, row.box # job.box,
         OpensFolders(job, rs), WholeSoFar(job, rs)
  PROVE  WholeSoFar(job, Append(rs, row))
<1> DEFINE rt == Append(rs, row)
<1>1. /\ FoldersOf(rt, job.box) = FoldersOf(rs, job.box)
      /\ \A i : ChildrenOf(rt, i, job.box) = ChildrenOf(rs, i, job.box)
  BY RowElsewhere
<1>2. ASSUME NEW i \in FoldersOf(rs, job.box)
      PROVE  /\ LevelIn(rt, job, i) = LevelIn(rs, job, i)
             /\ Reached(rt, job, i) <=> Reached(rs, job, i)
             /\ Contents(rt, job, i) = Contents(rs, job, i)
  BY FolderKept
<1> HIDE DEF rt
<1>3. ASSUME NEW k \in 1 .. Len(job.dirs)
      PROVE  OpenFits(job, rt, k)
  <2>1. OpenFits(job, rs, k) /\ job.dirs[k].id \in FoldersOf(rs, job.box)
    BY DEF WholeSoFar, OpensFolders
  <2>2. QED
    BY <1>1, <1>2, <2>1 DEF OpenFits
<1>4. ASSUME NEW i \in FoldersOf(rt, job.box) \ OpenIn(job)
      PROVE  HasItsContents(rt, job, i)
  <2>1. HasItsContents(rs, job, i) /\ i \in FoldersOf(rs, job.box)
    BY <1>1 DEF WholeSoFar
  <2>2. QED
    BY <1>1, <1>2, <2>1 DEF HasItsContents
<1>5. QED
  BY <1>3, <1>4 DEF WholeSoFar, rt

(* The walk with the innermost frame past its next record.                 *)
PastRecord(x, job) ==
  /\ SameWalk(x, job)
  /\ Len(x.dirs) = Len(job.dirs) /\ Len(job.dirs) \in Nat /\ 1 <= Len(job.dirs)
  /\ x.dirs[1].id = job.dirs[1].id
  /\ x.dirs[1].todo = Tail(job.dirs[1].todo)
  /\ \A k \in 1 .. Len(job.dirs) : k # 1 => x.dirs[k] = job.dirs[k]

AtSomeRecord(job) ==
  /\ Len(job.dirs) \in Nat /\ 1 <= Len(job.dirs)
  /\ job.dirs[1].todo \in Seq(Records) /\ job.dirs[1].todo # << >>

LEMMA SameOpen ==
  ASSUME NEW x, NEW job, PastRecord(x, job)
  PROVE  /\ \A k \in 1 .. Len(job.dirs) : x.dirs[k].id = job.dirs[k].id
         /\ OpenIn(x) = OpenIn(job)
<1>1. \A k \in 1 .. Len(job.dirs) : x.dirs[k].id = job.dirs[k].id
  BY DEF PastRecord
<1>2. QED
  BY <1>1 DEF OpenIn, PastRecord

(* A record that stands for nothing that can be written.                   *)
LEMMA WholeSkipped ==
  ASSUME NEW rs, NEW job, NEW x, PastRecord(x, job), AtSomeRecord(job),
         WholeSoFar(job, rs), ValidOf(Head(job.dirs[1].todo), job.moved) = {}
  PROVE  WholeSoFar(x, rs)
<1>1. /\ \A k \in 1 .. Len(job.dirs) : x.dirs[k].id = job.dirs[k].id
      /\ OpenIn(x) = OpenIn(job) /\ SameWalk(x, job)
      /\ x.box = job.box /\ x.moved = job.moved /\ Len(x.dirs) = Len(job.dirs)
  BY SameOpen DEF PastRecord, SameWalk
<1>2. ASSUME NEW k \in 1 .. Len(job.dirs)
      PROVE  WritableOf(x.dirs[k].todo, x.moved) = WritableOf(job.dirs[k].todo, job.moved)
  <2>1. CASE k = 1
    <3>1. x.dirs[1].todo = Tail(job.dirs[1].todo)
      BY DEF PastRecord
    <3>2. WritableOf(job.dirs[1].todo, job.moved) =
            ValidOf(Head(job.dirs[1].todo), job.moved) \cup
            WritableOf(Tail(job.dirs[1].todo), job.moved)
      BY TodoSplit DEF AtSomeRecord
    <3>3. QED
      BY <1>1, <2>1, <3>1, <3>2
  <2>2. CASE k # 1
    BY <1>1, <2>2 DEF PastRecord
  <2>3. QED
    BY <2>1, <2>2
<1>3. ASSUME NEW k \in 1 .. Len(x.dirs)
      PROVE  OpenFits(x, rs, k)
  <2>1. OpenFits(job, rs, k)
    BY <1>1 DEF WholeSoFar
  <2>2. QED
    BY <1>1, <1>2, <2>1, SameWalkSame DEF OpenFits
<1>4. ASSUME NEW i \in FoldersOf(rs, x.box) \ OpenIn(x)
      PROVE  HasItsContents(rs, x, i)
  BY <1>1, SameWalkSame DEF WholeSoFar
<1>5. QED
  BY <1>3, <1>4 DEF WholeSoFar

(* The entry of the record is written in the innermost directory.          *)
WritesHere(rs, containers, job, row, x) ==
  /\ rs \in Seq(RowType) /\ HangTogether(rs, containers)
  /\ row \in RowType /\ row.parent <= Len(rs)
  /\ job.box \in containers /\ row.box = job.box /\ row.parent = job.dirs[1].id
  /\ OpensFolders(job, rs) /\ WholeSoFar(job, rs)
  /\ AtSomeRecord(job) /\ ValidOf(Head(job.dirs[1].todo), job.moved) = {row.rec}
  /\ PastRecord(x, job)

LEMMA NewRowLevel ==
  ASSUME NEW rs, NEW containers, NEW job, NEW row, NEW x,
         WritesHere(rs, containers, job, row, x)
  PROVE  LET rt == Append(rs, row)
             new == Len(rs) + 1 IN
         /\ new # job.box /\ row.parent # new
         /\ LevelIn(rt, x, new) = Len(job.dirs)
         /\ ExtentIn(rt, x, new) = row.rec.to
         /\ ChildrenOf(rt, new, job.box) = {}
<1> DEFINE rt == Append(rs, row)
           n == Len(rs)
<1>1. /\ rs \in Seq(RowType) /\ HangTogether(rs, containers) /\ row \in RowType
      /\ row.parent <= n /\ job.box \in containers /\ row.box = job.box
      /\ row.parent = job.dirs[1].id /\ OpensFolders(job, rs) /\ WholeSoFar(job, rs)
      /\ Len(job.dirs) \in Nat /\ 1 <= Len(job.dirs)
      /\ x.box = job.box
  BY DEF WritesHere, AtSomeRecord, PastRecord, SameWalk
<1>2. n \in Nat /\ rt[n + 1] = row
  BY <1>1, RowAppended
<1>3. job.box \in 0 .. n /\ \A k \in 1 .. n : rs[k].parent < k
  BY <1>1 DEF HangTogether
<1>4. n + 1 # job.box /\ row.parent # n + 1
  BY <1>1, <1>2, <1>3 DEF RowType
<1>5. LevelIn(rs, job, row.parent) = Len(job.dirs) - 1
  <2>1. OpenFits(job, rs, 1)
    BY <1>1 DEF WholeSoFar
  <2>2. QED
    BY <1>1, <2>1 DEF OpenFits
<1>6. /\ LevelsOf(rs)[0] = 0
      /\ LevelsOf(rt)[n + 1] = LevelsOf(rs)[IF row.parent = row.box THEN 0 ELSE row.parent] + 1
  BY <1>1, <1>3, LevelsAppended
<1>7. LevelsOf(rt)[n + 1] = LevelIn(rs, job, row.parent) + 1
  BY <1>1, <1>6 DEF LevelIn
<1> HIDE DEF rt
<1>8. LevelIn(rt, x, n + 1) = Len(job.dirs)
  BY <1>1, <1>4, <1>5, <1>7 DEF LevelIn
<1>9. ExtentIn(rt, x, n + 1) = row.rec.to
  BY <1>1, <1>2, <1>4 DEF ExtentIn
<1>10. ChildrenOf(rt, n + 1, job.box) = {}
  <2>1. ChildrenOf(rt, n + 1, job.box) = ChildrenOf(rs, n + 1, job.box)
    BY <1>1, <1>4, RowHere DEF rt
  <2>2. \A k \in 1 .. n : rs[k].parent # n + 1
    <3>1. \A k \in 1 .. n : rs[k].parent \in Nat /\ rs[k].parent < k
      BY <1>1, <1>3, ParentTyped
    <3>2. QED
      BY <1>2, <3>1
  <2>3. ChildrenOf(rs, n + 1, job.box) = {}
    BY <2>2 DEF ChildrenOf, RowsOf
  <2>4. QED
    BY <2>1, <2>3
<1>11. QED
  BY <1>4, <1>8, <1>9, <1>10 DEF rt

(* What was open or finished before stays so.                              *)
LEMMA OthersStayWhole ==
  ASSUME NEW rs, NEW containers, NEW job, NEW row, NEW x,
         WritesHere(rs, containers, job, row, x)
  PROVE  /\ \A k \in 1 .. Len(x.dirs) : OpenFits(x, Append(rs, row), k)
         /\ \A i \in FoldersOf(rs, job.box) \ OpenIn(job) :
              HasItsContents(Append(rs, row), x, i)
<1> DEFINE rt == Append(rs, row)
           n == Len(rs)
<1>1. /\ rs \in Seq(RowType) /\ HangTogether(rs, containers) /\ row \in RowType
      /\ row.parent <= n /\ job.box \in containers /\ row.box = job.box
      /\ row.parent = job.dirs[1].id /\ OpensFolders(job, rs) /\ WholeSoFar(job, rs)
      /\ Len(job.dirs) \in Nat /\ 1 <= Len(job.dirs) /\ AtSomeRecord(job)
      /\ ValidOf(Head(job.dirs[1].todo), job.moved) = {row.rec}
      /\ PastRecord(x, job) /\ SameWalk(x, job)
      /\ x.box = job.box /\ x.moved = job.moved /\ Len(x.dirs) = Len(job.dirs)
  BY DEF WritesHere, AtSomeRecord, PastRecord, SameWalk
<1>2. /\ \A k \in 1 .. Len(job.dirs) : x.dirs[k].id = job.dirs[k].id
      /\ OpenIn(x) = OpenIn(job)
  BY <1>1, SameOpen
<1>3. /\ ChildrenOf(rt, row.parent, job.box) =
           ChildrenOf(rs, row.parent, job.box) \cup {row.rec}
      /\ \A i : i # row.parent => ChildrenOf(rt, i, job.box) = ChildrenOf(rs, i, job.box)
  BY <1>1, RowHere
<1>4. ASSUME NEW i \in FoldersOf(rs, job.box)
      PROVE  /\ LevelIn(rt, x, i) = LevelIn(rs, job, i)
             /\ Reached(rt, x, i) <=> Reached(rs, job, i)
             /\ Contents(rt, x, i) = Contents(rs, job, i)
  <2>1. /\ LevelIn(rt, job, i) = LevelIn(rs, job, i)
        /\ Reached(rt, job, i) <=> Reached(rs, job, i)
        /\ Contents(rt, job, i) = Contents(rs, job, i)
    BY <1>1, FolderKept
  <2>2. /\ LevelIn(rt, x, i) = LevelIn(rt, job, i)
        /\ Reached(rt, x, i) <=> Reached(rt, job, i)
        /\ Contents(rt, x, i) = Contents(rt, job, i)
    BY <1>1, SameWalkSame
  <2>3. QED
    BY <2>1, <2>2
<1> HIDE DEF rt
<1>5. ASSUME NEW k \in 1 .. Len(job.dirs)
      PROVE  OpenFits(x, rt, k)
  <2>1. /\ LevelIn(rs, job, job.dirs[k].id) = Len(job.dirs) - k
        /\ Reached(rs, job, job.dirs[k].id)
        /\ ChildrenOf(rs, job.dirs[k].id, job.box) \cup
             WritableOf(job.dirs[k].todo, job.moved) = Contents(rs, job, job.dirs[k].id)
    BY <1>1 DEF WholeSoFar, OpenFits
  <2>2. job.dirs[k].id \in FoldersOf(rs, job.box) /\ x.dirs[k].id = job.dirs[k].id
    BY <1>1, <1>2 DEF OpensFolders
  <2>3. ChildrenOf(rt, job.dirs[k].id, job.box) \cup WritableOf(x.dirs[k].todo, job.moved) =
          Contents(rs, job, job.dirs[k].id)
    <3>1. CASE k = 1
      <4>1. x.dirs[1].todo = Tail(job.dirs[1].todo)
        BY <1>1 DEF PastRecord
      <4>2. WritableOf(job.dirs[1].todo, job.moved) =
              {row.rec} \cup WritableOf(Tail(job.dirs[1].todo), job.moved)
        BY <1>1, TodoSplit DEF AtSomeRecord
      <4>3. QED
        BY <1>1, <1>3, <2>1, <3>1, <4>1, <4>2
    <3>2. CASE k # 1
      <4>1. LevelIn(rs, job, job.dirs[1].id) = Len(job.dirs) - 1
        <5>1. OpenFits(job, rs, 1)
          BY <1>1 DEF WholeSoFar
        <5>2. QED
          BY <5>1 DEF OpenFits
      <4>2. job.dirs[k].id # row.parent
        BY <1>1, <2>1, <3>2, <4>1
      <4>3. x.dirs[k] = job.dirs[k]
        BY <1>1, <3>2 DEF PastRecord
      <4>4. QED
        BY <1>3, <2>1, <4>2, <4>3
    <3>3. QED
      BY <3>1, <3>2
  <2>4. QED
    BY <1>1, <1>4, <2>1, <2>2, <2>3 DEF OpenFits
<1>6. ASSUME NEW i \in FoldersOf(rs, job.box) \ OpenIn(job)
      PROVE  HasItsContents(rt, x, i)
  <2>1. HasItsContents(rs, job, i)
    BY <1>1 DEF WholeSoFar
  <2>2. i # row.parent
    <3>1. 1 \in 1 .. Len(job.dirs)
      BY <1>1
    <3>2. QED
      BY <1>1, <3>1 DEF OpenIn
  <2>3. QED
    BY <1>1, <1>3, <1>4, <2>1, <2>2 DEF HasItsContents
<1>7. QED
  BY <1>1, <1>5, <1>6 DEF rt

(* An entry that is not, or need not be, entered.                          *)
LEMMA WholeWithLeaf ==
  ASSUME NEW rs, NEW containers, NEW job, NEW row, NEW x,
         WritesHere(rs, containers, job, row, x),
         Folder(row.rec) => ~Reached(Append(rs, row), x, Len(rs) + 1)
  PROVE  WholeSoFar(x, Append(rs, row))
<1> DEFINE rt == Append(rs, row)
           n == Len(rs)
<1>1. /\ rs \in Seq(RowType) /\ row \in RowType /\ row.box = job.box /\ x.box = job.box
      /\ OpenIn(x) = OpenIn(job)
  BY SameOpen DEF WritesHere, PastRecord, SameWalk
<1>2. \A i \in FoldersOf(rt, job.box) :
        i \in FoldersOf(rs, job.box) \/ (i = n + 1 /\ Folder(row.rec))
  BY <1>1, RowHere
<1>3. ChildrenOf(rt, n + 1, job.box) = {}
  BY NewRowLevel
<1>4. /\ \A k \in 1 .. Len(x.dirs) : OpenFits(x, rt, k)
      /\ \A i \in FoldersOf(rs, job.box) \ OpenIn(job) : HasItsContents(rt, x, i)
  BY OthersStayWhole
<1>5. Folder(row.rec) => ~Reached(rt, x, n + 1)
  OBVIOUS
<1> HIDE DEF rt
<1>6. Folder(row.rec) => HasItsContents(rt, x, n + 1)
  BY <1>1, <1>3, <1>5 DEF HasItsContents
<1>7. QED
  BY <1>1, <1>2, <1>4, <1>6 DEF WholeSoFar, rt

(* A directory that is entered.                                            *)
Enters(y, x, id, todo) ==
  /\ SameWalk(y, x)
  /\ Len(y.dirs) = Len(x.dirs) + 1
  /\ y.dirs[1].id = id /\ y.dirs[1].todo = todo
  /\ \A k \in 1 .. Len(x.dirs) : y.dirs[k + 1] = x.dirs[k]

LEMMA WholeWithFolder ==
  ASSUME NEW rs, NEW containers, NEW job, NEW row, NEW x,
         WritesHere(rs, containers, job, row, x),
         Reached(Append(rs, row), x, Len(rs) + 1),
         NEW y, Enters(y, x, Len(rs) + 1, Listing[row.rec.to])
  PROVE  WholeSoFar(y, Append(rs, row))
<1> DEFINE rt == Append(rs, row)
           n == Len(rs)
<1>1. /\ rs \in Seq(RowType) /\ row \in RowType /\ row.box = job.box /\ x.box = job.box
      /\ OpenIn(x) = OpenIn(job) /\ Len(x.dirs) = Len(job.dirs) /\ Len(job.dirs) \in Nat
  BY SameOpen DEF WritesHere, PastRecord, SameWalk
<1>2. \A i \in FoldersOf(rt, job.box) :
        i \in FoldersOf(rs, job.box) \/ (i = n + 1 /\ Folder(row.rec))
  BY <1>1, RowHere
<1>3. /\ LevelIn(rt, x, n + 1) = Len(job.dirs)
      /\ ExtentIn(rt, x, n + 1) = row.rec.to
      /\ ChildrenOf(rt, n + 1, job.box) = {}
  <2>1. LevelIn(rt, x, n + 1) = Len(job.dirs)
    BY NewRowLevel
  <2>2. ExtentIn(rt, x, n + 1) = row.rec.to
    BY NewRowLevel
  <2>3. ChildrenOf(rt, n + 1, job.box) = {}
    BY NewRowLevel
  <2>4. QED
    BY <2>1, <2>2, <2>3
<1>4. /\ \A k \in 1 .. Len(x.dirs) : OpenFits(x, rt, k)
      /\ \A i \in FoldersOf(rs, job.box) \ OpenIn(job) : HasItsContents(rt, x, i)
  BY OthersStayWhole
<1>5. Reached(rt, x, n + 1)
  OBVIOUS
<1> HIDE DEF rt
<1>6. /\ SameWalk(y, x) /\ y.box = job.box /\ y.moved = x.moved
      /\ Len(y.dirs) = Len(x.dirs) + 1
      /\ y.dirs[1].id = n + 1 /\ y.dirs[1].todo = Listing[row.rec.to]
      /\ \A k \in 1 .. Len(x.dirs) : y.dirs[k + 1] = x.dirs[k]
  BY <1>1 DEF Enters, SameWalk
<1>7. /\ Contents(rt, x, n + 1) = WritableOf(Listing[row.rec.to], x.moved)
      /\ \A i : /\ LevelIn(rt, y, i) = LevelIn(rt, x, i)
                /\ Reached(rt, y, i) <=> Reached(rt, x, i)
                /\ Contents(rt, y, i) = Contents(rt, x, i)
                /\ HasItsContents(rt, y, i) <=> HasItsContents(rt, x, i)
  BY <1>3, <1>6, SameWalkSame DEF Contents
<1>8. OpenFits(y, rt, 1)
  BY <1>1, <1>3, <1>5, <1>6, <1>7 DEF OpenFits
<1>9. ASSUME NEW k \in 1 .. Len(x.dirs)
      PROVE  OpenFits(y, rt, k + 1)
  <2>1. OpenFits(x, rt, k)
    BY <1>4
  <2>2. Len(y.dirs) - (k + 1) = Len(x.dirs) - k
    BY <1>1, <1>6
  <2>3. QED
    BY <1>1, <1>6, <1>7, <2>1, <2>2 DEF OpenFits
<1>10. \A k \in 1 .. Len(y.dirs) : k = 1 \/ \E j \in 1 .. Len(x.dirs) : k = j + 1
  <2>1. ASSUME NEW k \in 1 .. Len(y.dirs), k # 1
        PROVE  \E j \in 1 .. Len(x.dirs) : k = j + 1
    <3>1. k - 1 \in 1 .. Len(x.dirs) /\ k = (k - 1) + 1
      BY <1>1, <1>6, <2>1
    <3>2. QED
      BY <3>1
  <2>2. QED
    BY <2>1
<1>11. \A k \in 1 .. Len(y.dirs) : OpenFits(y, rt, k)
  BY <1>8, <1>9, <1>10
<1>12. n + 1 \in OpenIn(y) /\ OpenIn(x) \subseteq OpenIn(y)
  <2>1. 1 \in 1 .. Len(y.dirs) /\ \A k \in 1 .. Len(x.dirs) : k + 1 \in 1 .. Len(y.dirs)
    BY <1>1, <1>6
  <2>2. QED
    BY <1>6, <2>1 DEF OpenIn
<1>13. ASSUME NEW i \in FoldersOf(rt, y.box) \ OpenIn(y)
       PROVE  HasItsContents(rt, y, i)
  BY <1>1, <1>2, <1>4, <1>6, <1>7, <1>12
<1>14. QED
  BY <1>11, <1>13 DEF WholeSoFar, rt

(* A directory is left, or nothing remains to be.                          *)
Leaves(x, job) ==
  /\ SameWalk(x, job)
  /\ Len(job.dirs) \in Nat /\ 1 <= Len(job.dirs) /\ Len(x.dirs) = Len(job.dirs) - 1
  /\ \A k \in 1 .. Len(job.dirs) - 1 : x.dirs[k] = job.dirs[k + 1]

LEMMA WholeLeft ==
  ASSUME NEW rs, NEW job, NEW x, Leaves(x, job),
         job.dirs[1].todo = << >>, WholeSoFar(job, rs)
  PROVE  WholeSoFar(x, rs)
<1>1. /\ SameWalk(x, job) /\ x.box = job.box /\ x.moved = job.moved
      /\ Len(job.dirs) \in Nat /\ 1 <= Len(job.dirs) /\ Len(x.dirs) = Len(job.dirs) - 1
      /\ \A k \in 1 .. Len(job.dirs) - 1 : x.dirs[k] = job.dirs[k + 1]
  BY DEF Leaves, SameWalk
<1>2. /\ Reached(rs, job, job.dirs[1].id)
      /\ ChildrenOf(rs, job.dirs[1].id, job.box) \cup WritableOf(<< >>, job.moved) =
           Contents(rs, job, job.dirs[1].id)
  <2>1. 1 \in 1 .. Len(job.dirs)
    BY <1>1
  <2>2. OpenFits(job, rs, 1)
    BY <2>1 DEF WholeSoFar
  <2>3. QED
    BY <2>2 DEF OpenFits
<1>3. WritableOf(<< >>, job.moved) = {}
  BY DEF WritableOf
<1>4. HasItsContents(rs, job, job.dirs[1].id)
  BY <1>2, <1>3 DEF HasItsContents
<1>5. ASSUME NEW k \in 1 .. Len(x.dirs)
      PROVE  OpenFits(x, rs, k)
  <2>1. k + 1 \in 1 .. Len(job.dirs) /\ x.dirs[k] = job.dirs[k + 1]
        /\ Len(job.dirs) - (k + 1) = Len(x.dirs) - k
    BY <1>1
  <2>2. OpenFits(job, rs, k + 1)
    BY <2>1 DEF WholeSoFar
  <2>3. QED
    BY <1>1, <2>1, <2>2, SameWalkSame DEF OpenFits
<1>6. ASSUME NEW i \in OpenIn(job), i \notin OpenIn(x)
      PROVE  i = job.dirs[1].id
  <2>1. PICK k \in 1 .. Len(job.dirs) : i = job.dirs[k].id
    BY <1>6 DEF OpenIn
  <2>2. CASE k # 1
    <3>1. k - 1 \in 1 .. Len(x.dirs) /\ x.dirs[k - 1] = job.dirs[(k - 1) + 1] /\ (k - 1) + 1 = k
      BY <1>1, <2>2
    <3>2. QED
      BY <1>6, <2>1, <3>1 DEF OpenIn
  <2>3. QED
    BY <2>1, <2>2
<1>7. ASSUME NEW i \in FoldersOf(rs, x.box) \ OpenIn(x)
      PROVE  HasItsContents(rs, x, i)
  <2>1. HasItsContents(rs, job, i)
    BY <1>1, <1>4, <1>6 DEF WholeSoFar
  <2>2. QED
    BY <1>1, <2>1, SameWalkSame
<1>8. QED
  BY <1>5, <1>7 DEF WholeSoFar

(* An activation that begins.                                              *)
LEMMA WholeBegun ==
  ASSUME NEW rs \in Seq(RowType), NEW box \in Nat, \A k \in 1 .. Len(rs) : rs[k].box # box,
         NEW image \in Images, ImageOf(rs, box) = image, NEW tree \in FileSystems,
         NEW moved \in Seq(Records), NEW depth \in Nat
  PROVE  WholeSoFar(NewJob(box, image, tree, moved, depth), rs)
<1> DEFINE job == NewJob(box, image, tree, moved, depth)
<1>1. /\ job.box = box /\ Len(job.dirs) = 1 /\ job.dirs[1].id = box
  BY DEF NewJob
<1>2. job.tree = tree /\ job.dirs[1].todo = Listing[Root[image][tree]]
  BY DEF NewJob
<1> HIDE DEF job
<1>3. RowsOf(rs, box) = {}
  BY DEF RowsOf
<1>4. FoldersOf(rs, box) = {box} /\ ChildrenOf(rs, box, box) = {}
  BY <1>3 DEF FoldersOf, ChildrenOf
<1>5. OpenIn(job) = {box}
  BY <1>1 DEF OpenIn
<1>6. Contents(rs, job, box) = WritableOf(Listing[Root[image][tree]], job.moved)
  BY <1>1, <1>2 DEF Contents, ExtentIn
<1>7. OpenFits(job, rs, 1)
  BY <1>1, <1>2, <1>4, <1>6 DEF OpenFits, LevelIn, Reached
<1>8. QED
  BY <1>1, <1>4, <1>5, <1>7 DEF WholeSoFar, job

-----------------------------------------------------------------------------
(* The activations of a state                                              *)

LEMMA WholePrimed ==
  ASSUME opt' = opt, NEW i
  PROVE  WholeSoFar(jobs[i], rows)' <=> WholeSoFar(jobs'[i], rows')
BY DEF WholeSoFar, OpenFits, HasItsContents, Contents, Reached, ExtentIn, ImageOf

WholeRest ==
  opt.faults = {} => \A i \in 1 .. Len(jobs) : ~jobs[i].hit => WholeSoFar(jobs[i], rows)

(* A row for the innermost image, if any is written.                       *)
RowForTop ==
  \E row \in RowType : rows' = Append(rows, row) /\ row.box = Job.box /\ row.parent <= Len(rows)

LEMMA JobStaysWhole ==
  ASSUME IInv, WholeRest, opt.faults = {}, NEW k \in 1 .. Len(jobs), ~jobs[k].hit,
         rows' = rows \/ (k # 1 /\ RowForTop)
  PROVE  WholeSoFar(jobs[k], rows')
<1>1. /\ jobs \in Seq(JobType) /\ rows \in Seq(RowType) /\ HangTogether(rows, boxes)
      /\ JobsFit(jobs, rows, boxes)
  BY DEF IInv, TypeOK, EntriesHangTogether
<1>2. WholeSoFar(jobs[k], rows)
  BY DEF WholeRest
<1>3. CASE rows' = rows
  BY <1>2, <1>3
<1>4. CASE k # 1 /\ RowForTop
  <2>1. PICK row \in RowType :
          rows' = Append(rows, row) /\ row.box = Job.box /\ row.parent <= Len(rows)
    BY <1>4 DEF RowForTop
  <2>2. Job = jobs[1]
    <3>1. jobs # << >>
      BY <1>1, EmptySeq
    <3>2. QED
      BY <1>1, <3>1, Nonempty DEF Job
  <2>3. jobs[k].box # row.box
    BY <1>1, <1>4, <2>1, <2>2, BoxesDiffer
  <2>4. jobs[k].box \in boxes /\ OpensFolders(jobs[k], rows)
    BY <1>1 DEF JobsFit, JobFits, OpensFolders
  <2>5. QED
    BY <1>1, <1>2, <2>1, <2>3, <2>4, WholeElsewhere
<1>5. QED
  BY <1>3, <1>4

LEMMA JobsStayWhole ==
  ASSUME IInv, WholeRest, opt' = opt,
         \A i \in 1 .. Len(jobs') :
           \/ jobs'[i].hit
           \/ opt.faults = {} => WholeSoFar(jobs'[i], rows')
           \/ \E k \in 1 .. Len(jobs) :
                jobs'[i] = jobs[k] /\ (rows' = rows \/ (k # 1 /\ RowForTop))
  PROVE  WholeRest'
<1> SUFFICES ASSUME opt.faults = {}, NEW i \in 1 .. Len(jobs'), ~jobs'[i].hit
             PROVE  WholeSoFar(jobs'[i], rows')
  BY WholePrimed DEF WholeRest
<1>1. CASE \E k \in 1 .. Len(jobs) :
             jobs'[i] = jobs[k] /\ (rows' = rows \/ (k # 1 /\ RowForTop))
  BY <1>1, JobStaysWhole
<1>2. QED
  BY <1>1

(* The innermost activation is replaced, and an image in it may be begun.  *)
LEMMA TopStaysWhole ==
  ASSUME IInv, Walking, WholeRest, opt' = opt, rows' = rows \/ RowForTop,
         NEW x \in JobType, x.hit \/ (opt.faults = {} => WholeSoFar(x, rows'))
  PROVE  /\ jobs' = InPlaceOfJob(<<x>>) => WholeRest'
         /\ \A job \in JobType :
              /\ jobs' = <<job>> \o InPlaceOfJob(<<x>>)
              /\ opt.faults = {} => WholeSoFar(job, rows')
              => WholeRest'
<1> DEFINE js == InPlaceOfJob(<<x>>)
           Fine(job) == \/ job.hit
                        \/ opt.faults = {} => WholeSoFar(job, rows')
                        \/ \E k \in 1 .. Len(jobs) :
                             job = jobs[k] /\ (rows' = rows \/ (k # 1 /\ RowForTop))
<1>1. jobs \in Seq(JobType) /\ jobs # << >> /\ Len(jobs) \in Nat
  BY TopTyped DEF IInv, TypeOK, Walking
<1>2. /\ js \in Seq(JobType) /\ Len(js) = Len(jobs) /\ js[1] = x
      /\ \A i \in 1 .. Len(jobs) : i # 1 => js[i] = jobs[i]
  BY <1>1, TopReplaced DEF InPlaceOfJob
<1> HIDE DEF js
<1>3. ASSUME NEW i \in 1 .. Len(js)
      PROVE  Fine(js[i])
  <2>1. CASE i = 1
    BY <1>2, <2>1
  <2>2. CASE i # 1
    BY <1>1, <1>2, <2>2
  <2>3. QED
    BY <2>1, <2>2
<1>4. ASSUME jobs' = js
      PROVE  WholeRest'
  BY <1>3, <1>4, JobsStayWhole
<1>5. ASSUME NEW job \in JobType, jobs' = <<job>> \o js,
             opt.faults = {} => WholeSoFar(job, rows')
      PROVE  WholeRest'
  <2>1. /\ Len(jobs') = Len(js) + 1 /\ Len(js) \in Nat /\ jobs'[1] = job
        /\ \A i \in 1 .. Len(js) : jobs'[i + 1] = js[i]
    BY <1>1, <1>2, <1>5, Pushed
  <2>2. ASSUME NEW i \in 1 .. Len(jobs')
        PROVE  Fine(jobs'[i])
    <3>1. CASE i = 1
      BY <1>5, <2>1, <3>1
    <3>2. CASE i # 1
      <4>1. i - 1 \in 1 .. Len(js) /\ (i - 1) + 1 = i
        BY <2>1, <3>2
      <4>2. jobs'[i] = js[i - 1]
        BY <2>1, <4>1
      <4>3. QED
        BY <1>3, <4>1, <4>2
    <3>3. QED
      BY <3>1, <3>2
  <2>3. QED
    BY <2>2, JobsStayWhole
<1>6. QED
  BY <1>4, <1>5 DEF js

-----------------------------------------------------------------------------
(* The frames of the innermost activation                                  *)

LEMMA PassedIsPast ==
  ASSUME TypeOK, AtRecord
  PROVE  /\ AtSomeRecord(Job)
         /\ PastRecord(Passed(Job), Job)
         /\ Passed(Job).hit = Job.hit
         /\ \A r \in Records : PastRecord(After(r), Job) /\ After(r).hit = Job.hit
<1> DEFINE frame == [Frame EXCEPT !.todo = Tail(Frame.todo)]
           dirs == <<frame>> \o Tail(Job.dirs)
<1>1. /\ frame \in FrameType /\ frame.id = Frame.id /\ frame.todo = Tail(Frame.todo)
      /\ Frame = Job.dirs[1]
  BY FrameTyped DEF FrameType
<1>2. Job \in JobType /\ Job.dirs \in Seq(FrameType) /\ Job.dirs # << >>
  BY TopTyped DEF AtRecord
<1>3. Len(Job.dirs) \in Nat /\ 1 <= Len(Job.dirs)
  BY <1>2, Nonempty
<1> HIDE DEF frame
<1>4. /\ dirs \in Seq(FrameType) /\ Len(dirs) = Len(Job.dirs) /\ dirs[1] = frame
      /\ \A k \in 1 .. Len(Job.dirs) : k # 1 => dirs[k] = Job.dirs[k]
  BY <1>1, <1>2, TopReplaced
<1>5. Passed(Job) = [Job EXCEPT !.dirs = dirs]
  BY DEF Passed, frame
<1> HIDE DEF dirs
<1>6. /\ Passed(Job) \in JobType /\ Passed(Job).dirs = dirs /\ Passed(Job).hit = Job.hit
      /\ SameWalk(Passed(Job), Job)
  BY <1>2, <1>4, <1>5 DEF JobType, SameWalk
<1>7. PastRecord(Passed(Job), Job)
  BY <1>1, <1>3, <1>4, <1>6 DEF PastRecord
<1>8. AtSomeRecord(Job)
  BY <1>1, <1>3, FrameTyped DEF AtSomeRecord, AtRecord, FrameType
<1>9. ASSUME NEW r \in Records
      PROVE  PastRecord(After(r), Job) /\ After(r).hit = Job.hit
  <2>1. /\ After(r).dirs = Passed(Job).dirs /\ After(r).hit = Passed(Job).hit
        /\ SameWalk(After(r), Passed(Job))
    BY <1>6 DEF After, Counted, JobType, SameWalk
  <2>2. SameWalk(After(r), Job)
    BY <1>6, <2>1 DEF SameWalk
  <2>3. QED
    BY <1>6, <1>7, <2>1, <2>2 DEF PastRecord
<1>10. QED
  BY <1>6, <1>7, <1>8, <1>9

LEMMA EnteredEnters ==
  ASSUME TypeOK, AtRecord, NEW r \in Records, r.kind = "dir"
  PROVE  /\ Enters(Entered(After(r), r), After(r), Len(rows) + 1, Listing[r.to])
         /\ Entered(After(r), r) \in JobType
<1> DEFINE job == After(r)
           frame == [id |-> Len(rows) + 1, todo |-> Listing[r.to]]
           dirs == <<frame>> \o job.dirs
<1>1. job \in JobType /\ Entered(job, r) \in JobType
  BY AfterTyped, EnteredTyped
<1>2. Entered(job, r) = [job EXCEPT !.dirs = dirs]
  BY DEF Entered
<1> HIDE DEF job
<1>3. Listing[r.to] \in Seq(Records) /\ Len(rows) \in Nat
  BY WalkAssumption, LenProperties DEF TypeOK
<1>4. frame \in FrameType /\ frame.id = Len(rows) + 1 /\ frame.todo = Listing[r.to]
  BY <1>3 DEF FrameType
<1> HIDE DEF frame
<1>5. job.dirs \in Seq(FrameType)
  BY <1>1 DEF JobType
<1>6. /\ Len(dirs) = Len(job.dirs) + 1 /\ dirs[1] = frame
      /\ \A k \in 1 .. Len(job.dirs) : dirs[k + 1] = job.dirs[k]
  BY <1>4, <1>5, Pushed
<1> HIDE DEF dirs
<1>7. Entered(job, r).dirs = dirs /\ SameWalk(Entered(job, r), job)
  BY <1>1, <1>2 DEF JobType, SameWalk
<1>8. QED
  BY <1>1, <1>4, <1>6, <1>7 DEF Enters, job

(* The row a write adds, and what the record that is written stands for.   *)
LEMMA WrittenHere ==
  ASSUME IInv, WholeRest, opt.faults = {}, AtRecord, MayGoOn,
         NEW r \in Writable, AddEntry(r)
  PROVE  \E row \in RowType :
           /\ rows' = Append(rows, row) /\ row.rec = r
           /\ WritesHere(rows, boxes, Job, row, After(r))
<1>1. /\ TypeOK /\ rows \in Seq(RowType) /\ HangTogether(rows, boxes)
      /\ JobsFit(jobs, rows, boxes) /\ Walking
  BY DEF IInv, TypeOK, EntriesHangTogether, AtRecord
<1>2. r \in Records
  BY <1>1, WritableTyped
<1>3. PICK row \in RowType :
        /\ rows' = Append(rows, row)
        /\ row.box = Job.box /\ row.rec = r /\ row.parent = Frame.id
  BY <1>2, RowWritten
<1>4. Job = jobs[1] /\ 1 \in 1 .. Len(jobs) /\ Job.moved \in Seq(Records)
  BY <1>1, TopTyped DEF JobType
<1>5. Job.box \in boxes /\ OpensFolders(Job, rows) /\ WholeSoFar(Job, rows)
  BY <1>1, <1>4 DEF JobsFit, JobFits, OpensFolders, WholeRest, MayGoOn
<1>6. AtSomeRecord(Job) /\ PastRecord(After(r), Job)
  BY <1>1, <1>2, PassedIsPast
<1>7. Frame = Job.dirs[1]
  BY <1>1, FrameTyped
<1>8. row.parent = Job.dirs[1].id /\ row.parent <= Len(rows)
  <2>1. 1 \in 1 .. Len(Job.dirs)
    BY <1>6 DEF AtSomeRecord
  <2>2. Job.dirs[1].id \in FoldersOf(rows, Job.box)
    BY <1>5, <2>1 DEF OpensFolders
  <2>3. Job.box \in 0 .. Len(rows) /\ Len(rows) \in Nat
    BY <1>1, <1>5, LenProperties DEF HangTogether
  <2>4. QED
    BY <1>3, <1>7, <2>2, <2>3 DEF FoldersOf, RowsOf
<1>9. ValidOf(Head(Job.dirs[1].todo), Job.moved) = {row.rec}
  <2>1. ValidOf(Head(Job.dirs[1].todo), Job.moved) = Writable
    BY <1>7 DEF ValidOf, Writable
  <2>2. \A a, b \in Writable : a = b
    BY <1>4, OneResolved DEF Writable
  <2>3. QED
    BY <1>3, <2>1, <2>2
<1>10. WritesHere(rows, boxes, Job, row, After(r))
  BY <1>1, <1>3, <1>5, <1>6, <1>8, <1>9 DEF WritesHere
<1>11. QED
  BY <1>3, <1>10

-----------------------------------------------------------------------------
(* Each action keeps the walks whole                                       *)

Flawless == IInv /\ WholeRest /\ opt' = opt /\ opt.faults = {}

LEMMA FlawlessTop ==
  ASSUME Flawless
  PROVE  /\ TypeOK /\ jobs \in Seq(JobType) /\ rows \in Seq(RowType)
         /\ Walking => Job \in JobType
         /\ Walking /\ ~Job.hit => WholeSoFar(Job, rows)
<1>1. TypeOK /\ jobs \in Seq(JobType) /\ rows \in Seq(RowType)
  BY DEF Flawless, IInv, TypeOK
<1>2. ASSUME Walking
      PROVE  Job \in JobType /\ (~Job.hit => WholeSoFar(Job, rows))
  <2>1. Job \in JobType /\ Job = jobs[1] /\ 1 \in 1 .. Len(jobs)
    BY <1>1, <1>2, TopTyped
  <2>2. QED
    BY <2>1 DEF Flawless, WholeRest
<1>3. QED
  BY <1>1, <1>2

LEMMA StopStaysWhole == ASSUME Flawless, StopAtLimit PROVE WholeRest'
<1>1. /\ TypeOK /\ Walking /\ Job \in JobType /\ Job.dirs # << >>
      /\ jobs' = InPlaceOfJob(<<Stopped(Job)>>) /\ rows' = rows
  BY FlawlessTop DEF StopAtLimit, AtRecord
<1>2. Stopped(Job) \in JobType /\ Stopped(Job).hit
  <2>1. Stopped(Job) \in JobType
    BY <1>1, StoppedTyped
  <2>2. Stopped(Job).hit
    BY <1>1 DEF Stopped, JobType
  <2>3. QED
    BY <2>1, <2>2
<1>3. QED
  BY <1>1, <1>2, TopStaysWhole DEF Flawless

LEMMA SkipStaysWhole == ASSUME Flawless, SkipRecord PROVE WholeRest'
<1>1. /\ TypeOK /\ Walking /\ AtRecord /\ ~Job.hit /\ Writable = {}
      /\ jobs' = InPlaceOfJob(<<Passed(Job)>>) /\ rows' = rows
  BY FlawlessTop DEF Flawless, SkipRecord, AtRecord, MayGoOn
<1>2. Passed(Job) \in JobType /\ PastRecord(Passed(Job), Job) /\ AtSomeRecord(Job)
  BY <1>1, PassedTyped, PassedIsPast
<1>3. ValidOf(Head(Job.dirs[1].todo), Job.moved) = {}
  BY <1>1, FrameTyped DEF Writable, ValidOf
<1>4. WholeSoFar(Job, rows)
  BY <1>1, FlawlessTop
<1>5. WholeSoFar(Passed(Job), rows)
  BY <1>2, <1>3, <1>4, WholeSkipped
<1>6. QED
  BY <1>1, <1>2, <1>5, TopStaysWhole DEF Flawless

LEMMA LeaveStaysWhole == ASSUME Flawless, LeaveDirectory PROVE WholeRest'
<1> DEFINE x == [Job EXCEPT !.dirs = Tail(Job.dirs)]
<1>1. /\ TypeOK /\ Walking /\ Job \in JobType /\ Job.dirs # << >> /\ Frame.todo = << >>
      /\ jobs' = InPlaceOfJob(<<x>>) /\ rows' = rows
  BY FlawlessTop DEF LeaveDirectory
<1>2. Job.dirs \in Seq(FrameType)
  BY <1>1 DEF JobType
<1>3. /\ Len(Job.dirs) \in Nat /\ 1 <= Len(Job.dirs) /\ Frame = Job.dirs[1]
      /\ Tail(Job.dirs) \in Seq(FrameType) /\ Len(Tail(Job.dirs)) = Len(Job.dirs) - 1
      /\ \A k \in 1 .. Len(Job.dirs) - 1 : Tail(Job.dirs)[k] = Job.dirs[k + 1]
  BY <1>1, <1>2, Nonempty DEF Frame
<1>4. /\ x \in JobType /\ x.dirs = Tail(Job.dirs) /\ x.hit = Job.hit
      /\ SameWalk(x, Job)
  BY <1>1, <1>3 DEF JobType, SameWalk
<1> HIDE DEF x
<1>5. Leaves(x, Job)
  BY <1>3, <1>4 DEF Leaves
<1>6. ~Job.hit => WholeSoFar(x, rows)
  BY <1>1, <1>3, <1>5, FlawlessTop, WholeLeft
<1>7. QED
  BY <1>1, <1>4, <1>6, TopStaysWhole DEF Flawless

LEMMA QuietStaysWhole ==
  ASSUME Flawless, rows' = rows, jobs' = jobs \/ LeaveImage
  PROVE  WholeRest'
<1>1. jobs \in Seq(JobType)
  BY FlawlessTop
<1>2. CASE jobs' = jobs
  BY <1>2, JobsStayWhole DEF Flawless
<1>3. CASE LeaveImage
  <2>1. jobs # << >> /\ jobs' = Tail(jobs)
    BY <1>3 DEF LeaveImage, Walking
  <2>2. /\ Len(jobs) \in Nat /\ Len(jobs') = Len(jobs) - 1
        /\ \A i \in 1 .. Len(jobs) - 1 : jobs'[i] = jobs[i + 1]
    BY <1>1, <2>1, Nonempty
  <2>3. \A i \in 1 .. Len(jobs') : i + 1 \in 1 .. Len(jobs) /\ jobs'[i] = jobs[i + 1]
    BY <2>2
  <2>4. QED
    BY <2>3, JobsStayWhole DEF Flawless
<1>4. QED
  BY <1>2, <1>3

LEMMA DiscoverBeginsWhole == ASSUME Flawless, Discover PROVE WholeRest'
<1>1. rows = << >> /\ jobs = << >> /\ rows' = << >> /\ rows' \in Seq(RowType)
      /\ Len(rows') = 0 /\ opt.image \in Images
  BY OptTyped DEF Flawless, IInv, NothingYet, Discover, TypeOK
<1>2. CASE jobs' = << >>
  BY <1>1, <1>2, QuietStaysWhole
<1>3. CASE \E tree \in FileSystems, moved \in Seq(Records) :
             jobs' = <<NewJob(0, opt.image, tree, moved, 1)>>
  <2>1. PICK tree \in FileSystems, moved \in Seq(Records) :
          jobs' = <<NewJob(0, opt.image, tree, moved, 1)>>
    BY <1>3
  <2>2. ImageOf(rows', 0) = opt.image
    BY DEF ImageOf
  <2> DEFINE job == NewJob(0, opt.image, tree, moved, 1)
  <2>3. \A k \in 1 .. Len(rows') : rows'[k].box # 0
    BY <1>1
  <2>4. WholeSoFar(job, rows')
    BY <1>1, <2>2, <2>3, WholeBegun
  <2>5. jobs' = <<job>>
    BY <2>1
  <2> HIDE DEF job
  <2>6. Len(jobs') = 1 /\ jobs'[1] = job
    BY <2>5
  <2>7. \A i \in 1 .. Len(jobs') : jobs'[i] = job
    BY <2>6
  <2>8. QED
    BY <2>4, <2>7, JobsStayWhole DEF Flawless
<1>4. QED
  BY <1>1, <1>2, <1>3, ChosenIsOne, ReadOfImage DEF Discover

-----------------------------------------------------------------------------
(* The actions that write                                                  *)

LEMMA WrittenFlawless ==
  ASSUME Flawless, AtRecord, MayGoOn, NEW r \in Writable, AddEntry(r)
  PROVE  /\ RowForTop /\ r \in Records /\ After(r) \in JobType /\ r.kind # "stub"
         /\ \E row : /\ rows' = Append(rows, row) /\ row.rec = r
                     /\ WritesHere(rows, boxes, Job, row, After(r))
<1>1. PICK row \in RowType :
        /\ rows' = Append(rows, row) /\ row.rec = r
        /\ WritesHere(rows, boxes, Job, row, After(r))
  BY WrittenHere DEF Flawless
<1>2. RowForTop
  BY <1>1 DEF WritesHere, RowForTop
<1>3. r \in Records /\ After(r) \in JobType
  BY FlawlessTop, WritableTyped, AfterTyped
<1>4. r.kind # "stub"
  BY DEF Writable, ValidName
<1>5. QED
  BY <1>1, <1>2, <1>3, <1>4

LEMMA WriteLastStaysWhole == ASSUME Flawless, WriteLast PROVE WholeRest'
<1>1. AtRecord /\ Walking /\ MayGoOn
  BY DEF WriteLast, AtRecord
<1>2. PICK r \in Writable : AddEntry(r) /\ jobs' = InPlaceOfJob(<<Stopped(After(r))>>)
  BY DEF WriteLast
<1> DEFINE x == After(r)
<1>3. RowForTop /\ r \in Records /\ x \in JobType
  BY <1>1, <1>2, WrittenFlawless
<1>4. x.dirs # << >>
  <2>1. PastRecord(x, Job)
    BY <1>1, <1>3, FlawlessTop, PassedIsPast
  <2>2. Len(x.dirs) # 0
    BY <2>1 DEF PastRecord
  <2>3. QED
    BY <2>2
<1>5. jobs' = InPlaceOfJob(<<Stopped(x)>>)
  BY <1>2
<1> HIDE DEF x
<1>6. Stopped(x) \in JobType
  BY <1>3, <1>4, StoppedTyped
<1>7. Stopped(x).hit
  BY <1>3 DEF Stopped, JobType
<1>8. QED
  BY <1>1, <1>3, <1>5, <1>6, <1>7, TopStaysWhole DEF Flawless

LEMMA LeafStaysWhole ==
  ASSUME Flawless, AtRecord, MayGoOn, NEW r \in Writable, AddEntry(r), r.kind # "dir"
  PROVE  WholeSoFar(After(r), rows')
<1>1. PICK row : /\ rows' = Append(rows, row) /\ row.rec = r
                 /\ WritesHere(rows, boxes, Job, row, After(r))
  BY WrittenFlawless
<1>2. ~Folder(row.rec)
  BY <1>1 DEF Folder
<1>3. QED
  BY <1>1, <1>2, WholeWithLeaf

LEMMA WriteFileStaysWhole == ASSUME Flawless, WriteFile PROVE WholeRest'
<1>1. AtRecord /\ Walking /\ MayGoOn
  BY DEF WriteFile, AtRecord
<1>2. PICK r \in Writable :
        /\ r.kind \in {"file", "link", "image"} /\ AddEntry(r)
        /\ jobs' = InPlaceOfJob(<<After(r)>>)
  BY DEF WriteFile
<1>3. RowForTop /\ After(r) \in JobType
  BY <1>1, <1>2, WrittenFlawless
<1>4. WholeSoFar(After(r), rows')
  BY <1>1, <1>2, LeafStaysWhole
<1>5. QED
  BY <1>1, <1>2, <1>3, <1>4, TopStaysWhole DEF Flawless

LEMMA WriteImageStaysWhole == ASSUME Flawless, WriteImage PROVE WholeRest'
<1> DEFINE n == Len(rows)
           new(r, tree, moved) == NewJob(n + 1, r.to, tree, moved, Job.depth + 1)
<1>1. AtRecord /\ Walking /\ MayGoOn
  BY DEF WriteImage, AtRecord
<1>2. PICK r \in Writable :
        /\ r.kind = "image" /\ AddEntry(r)
        /\ \/ \E tree \in FileSystems : \E moved \in Reads(Relocated(r.to, tree)) :
                jobs' = <<new(r, tree, moved)>> \o InPlaceOfJob(<<After(r)>>)
           \/ jobs' = InPlaceOfJob(<<After(r)>>)
  BY ChosenIsOne DEF WriteImage, MayNest
<1>3. RowForTop /\ After(r) \in JobType /\ r \in Records
  BY <1>1, <1>2, WrittenFlawless
<1>4. WholeSoFar(After(r), rows')
  BY <1>1, <1>2, LeafStaysWhole
<1>5. r.to \in Images
  <2>1. r \in RecordType /\ (r.kind \in {"dir", "stub"} <=> r.to \in Dirs)
    BY <1>3, WalkAssumption
  <2>2. QED
    BY <1>2, <2>1 DEF RecordType
<1>6. PICK row : /\ rows' = Append(rows, row) /\ row.rec = r
                 /\ WritesHere(rows, boxes, Job, row, After(r))
  BY <1>1, <1>2, WrittenFlawless
<1>7. /\ n \in Nat /\ rows \in Seq(RowType) /\ row \in RowType /\ HangTogether(rows, boxes)
      /\ row.box \in boxes /\ Job.depth + 1 \in Nat
  <2>1. Job \in JobType /\ rows \in Seq(RowType)
    BY <1>1, FlawlessTop
  <2>2. QED
    BY <1>6, <2>1, LenProperties DEF WritesHere, JobType
<1>8. /\ rows' \in Seq(RowType) /\ Len(rows') = n + 1 /\ rows'[n + 1] = row
      /\ \A k \in 1 .. n : rows'[k] = rows[k]
  BY <1>6, <1>7, RowAppended
<1>9. \A k \in 1 .. Len(rows') : rows'[k].box # n + 1
  <2>1. ASSUME NEW k \in 1 .. n
        PROVE  rows'[k].box # n + 1
    <3>1. rows[k].box < k /\ rows[k] \in RowType
      BY <1>7, ElementOfSeq DEF HangTogether
    <3>2. rows[k].box \in Nat
      BY <3>1 DEF RowType
    <3>3. QED
      BY <1>7, <1>8, <3>1, <3>2
  <2>2. row.box # n + 1
    BY <1>7 DEF HangTogether
  <2>3. QED
    BY <1>7, <1>8, <2>1, <2>2
<1>10. ImageOf(rows', n + 1) = r.to
  BY <1>6, <1>7, <1>8 DEF ImageOf
<1>11. ASSUME NEW tree \in FileSystems, NEW moved \in Reads(Relocated(r.to, tree))
       PROVE  new(r, tree, moved) \in JobType /\ WholeSoFar(new(r, tree, moved), rows')
  <2>1. n + 1 \in Nat /\ moved \in Seq(Records)
    BY <1>5, <1>7, ReadOfImage
  <2>2. new(r, tree, moved) \in JobType
    BY <1>5, <1>7, <2>1, NewJobTyped
  <2>3. WholeSoFar(new(r, tree, moved), rows')
    BY <1>5, <1>7, <1>8, <1>9, <1>10, <2>1, WholeBegun
  <2>4. QED
    BY <2>2, <2>3
<1> HIDE DEF new
<1>12. QED
  BY <1>1, <1>2, <1>3, <1>4, <1>11, TopStaysWhole DEF Flawless

LEMMA WriteDirectoryStaysWhole == ASSUME Flawless, WriteDirectory PROVE WholeRest'
<1> DEFINE n == Len(rows)
<1>1. AtRecord /\ Walking /\ MayGoOn /\ TypeOK
  BY FlawlessTop DEF WriteDirectory, AtRecord
<1>2. PICK r \in Writable :
        /\ r.kind = "dir" /\ AddEntry(r)
        /\ \/ /\ CanEnter /\ CanRead
              /\ jobs' = InPlaceOfJob(<<Entered(After(r), r)>>)
           \/ /\ ~CanEnter \/ ~CanRead
              /\ jobs' = InPlaceOfJob(<<After(r)>>)
  BY DEF WriteDirectory, Flawless
<1>3. RowForTop /\ After(r) \in JobType /\ r \in Records
  BY <1>1, <1>2, WrittenFlawless
<1>4. PICK row : /\ rows' = Append(rows, row) /\ row.rec = r
                 /\ WritesHere(rows, boxes, Job, row, After(r))
  BY <1>1, <1>2, WrittenFlawless
<1>5. Reached(Append(rows, row), After(r), n + 1) <=> CanEnter /\ CanRead
  <2>1. n + 1 # Job.box /\ LevelIn(Append(rows, row), After(r), n + 1) = Len(Job.dirs)
    BY <1>4, NewRowLevel
  <2>2. After(r).box = Job.box /\ After(r).tree = Job.tree
    BY <1>4 DEF WritesHere, PastRecord, SameWalk
  <2>3. QED
    BY <2>1, <2>2 DEF Reached, CanEnter, CanRead
<1>6. CASE CanEnter /\ CanRead /\ jobs' = InPlaceOfJob(<<Entered(After(r), r)>>)
  <2>1. /\ Enters(Entered(After(r), r), After(r), n + 1, Listing[row.rec.to])
        /\ Entered(After(r), r) \in JobType
    BY <1>1, <1>2, <1>3, <1>4, EnteredEnters
  <2>2. WholeSoFar(Entered(After(r), r), rows')
    BY <1>4, <1>5, <1>6, <2>1, WholeWithFolder
  <2>3. QED
    BY <1>1, <1>3, <1>6, <2>1, <2>2, TopStaysWhole DEF Flawless
<1>7. CASE (~CanEnter \/ ~CanRead) /\ jobs' = InPlaceOfJob(<<After(r)>>)
  <2>1. WholeSoFar(After(r), rows')
    BY <1>4, <1>5, <1>7, WholeWithLeaf
  <2>2. QED
    BY <1>1, <1>3, <1>7, <2>1, TopStaysWhole DEF Flawless
<1>8. QED
  BY <1>2, <1>6, <1>7

LEMMA NextStaysWhole ==
  ASSUME IInv, WholeRest, [Next]_vars
  PROVE  WholeRest'
<1>1. opt' = opt
  BY DEF Next, WalkStep, Overlook, Discover, StopAtLimit, SkipRecord, WriteLast,
         WriteDirectory, WriteFile, WriteImage, LeaveDirectory, LeaveImage, TimePasses,
         Rest, vars
<1>2. CASE opt.faults # {}
  BY <1>1, <1>2 DEF WholeRest
<1>3. CASE opt.faults = {}
  <2>1. Flawless
    BY <1>1, <1>3 DEF Flawless
  <2>2. CASE Overlook \/ TimePasses \/ Rest \/ UNCHANGED vars
    BY <2>1, <2>2, QuietStaysWhole DEF Overlook, TimePasses, Rest, vars
  <2>3. CASE LeaveImage
    BY <2>1, <2>3, QuietStaysWhole DEF LeaveImage
  <2>4. QED
    BY <2>1, <2>2, <2>3, DiscoverBeginsWhole, StopStaysWhole, SkipStaysWhole,
       WriteLastStaysWhole, WriteDirectoryStaysWhole, WriteFileStaysWhole,
       WriteImageStaysWhole, LeaveStaysWhole
    DEF Next, WalkStep
<1>4. QED
  BY <1>2, <1>3

(* What every open walk has listed and what it has yet to list make up the *)
(* contents of its directories, on every image.                            *)
THEOREM WalksAreWhole == Spec => []WholeInv
<1>1. WholeInv <=> IInv /\ WholeRest
  BY DEF WholeInv, WholeRest
<1>2. Init => WholeInv
  <2>1. Init => WholeRest
    BY DEF Init, WholeRest
  <2>2. QED
    BY <1>1, <2>1, InitIInv
<1>3. WholeInv /\ [Next]_vars => WholeInv'
  <2> SUFFICES ASSUME WholeInv, [Next]_vars PROVE WholeInv'
    OBVIOUS
  <2>1. IInv' /\ WholeRest'
    BY <1>1, NextKeeps, NextStaysWhole
  <2>2. IInv' /\ WholeRest' => WholeInv'
    BY DEF WholeInv, WholeRest
  <2>3. QED
    BY <2>1, <2>2
<1>4. QED
  BY <1>2, <1>3, PTL DEF Spec

(* A walk that no limit cut short and nothing went wrong in leaves every   *)
(* directory complete ("directories are always fully expanded",            *)
(* walk_iso_directory and walk_udf_directory), for all discs and depths.   *)
THEOREM UncutWalksAreComplete == Spec => WholeUnlessCut
<1> DEFINE Complete == LeaveImage /\ ~Job.hit /\ opt.faults = {} =>
                         \A i \in FoldersOf(rows, Job.box) : HasItsContents(rows, Job, i)
<1>1. WholeInv => [Complete]_vars
  <2> SUFFICES ASSUME WholeInv, LeaveImage, ~Job.hit, opt.faults = {},
                      NEW i \in FoldersOf(rows, Job.box)
               PROVE  HasItsContents(rows, Job, i)
    OBVIOUS
  <2>1. TypeOK /\ Walking /\ Job.dirs = << >>
    BY DEF WholeInv, IInv, LeaveImage
  <2>2. Job = jobs[1] /\ 1 \in 1 .. Len(jobs)
    BY <2>1, TopTyped
  <2>3. WholeSoFar(Job, rows)
    BY <2>2 DEF WholeInv
  <2>4. OpenIn(Job) = {}
    <3>1. 1 .. Len(Job.dirs) = {}
      BY <2>1, EmptySeq
    <3>2. QED
      BY <3>1 DEF OpenIn
  <2>5. QED
    BY <2>3, <2>4 DEF WholeSoFar
<1>2. QED
  BY <1>1, WalksAreWhole, PTL DEF WholeUnlessCut

=============================================================================
