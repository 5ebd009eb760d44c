----------------------------- MODULE UdfParser -----------------------------
(***************************************************************************)
(* How UdfParser finds the root directory of a UDF volume: an anchor, the  *)
(* volume descriptor sequence it points at, the file set descriptor, the   *)
(* root; and, for the images of genisoimage whose pointers are wrong, a    *)
(* search of the sectors behind the anchor.                                *)
(*                                                                         *)
(* A disc is a function from its readable sectors to what they hold.  The  *)
(* partition table and the file set pointer are members of the parser and  *)
(* outlive the sequence they were read from.                               *)
(***************************************************************************)
EXTENDS Naturals, Sequences, FiniteSets

CONSTANTS
  Discs,          \* the discs that may be opened
  Anchors,        \* the sectors an anchor is looked for in (256, 512, 1024, 2048, 4096)
  MaxSequence,    \* descriptors of one sequence that are looked at (512)
  HeadScan,       \* sectors that are searched for the file set and for the root (512)
  MaxHeads,       \* directories looked at as the root before giving up (8)
  MaxDirSectors,  \* sectors of one directory (8192)
  SectorSize,     \* 2048 bytes
  HeaderSize,     \* the fixed part of a file identifier descriptor (38 bytes)
  Alignment       \* of the descriptors in a directory (4 bytes)

(* A block number relative to a partition.  Block 0 stands for no pointer. *)
RefType == [part : Nat, loc : Nat]

(* A file identifier.  One that is not live (the parent, deleted, without  *)
(* a name) is passed over; the names of stubs hold control characters.     *)
FidType == [size : {n \in Nat : n >= HeaderSize}, live : BOOLEAN, dir : BOOLEAN,
            stub : BOOLEAN, to : RefType]

(* "data" is the first sector of a directory, "rest" another, "zero" is    *)
(* padding.  An anchor's len is in bytes, an entry's also.                 *)
DescriptorType ==
  [tag : {"avdp"}, vds : Nat, len : Nat] \cup [tag : {"pd"}, start : Nat] \cup
  [tag : {"lvd"}, fsd : RefType] \cup [tag : {"td", "pvd", "rest", "zero"}] \cup
  [tag : {"fsd"}, root : RefType] \cup [tag : {"fe"}, dir : BOOLEAN, at : Nat, len : Nat] \cup
  [tag : {"data"}, fids : Seq(FidType)]

ASSUME UdfAssumption ==
  /\ \A d \in Discs : DOMAIN d \subseteq Nat /\ \A s \in DOMAIN d : d[s] \in DescriptorType
  /\ Anchors \in Seq(Nat) /\ Anchors # << >>
  /\ {MaxSequence, HeadScan, MaxHeads, MaxDirSectors} \subseteq Nat \ {0}
  /\ {SectorSize, HeaderSize, Alignment} \subseteq Nat \ {0}
  /\ HeaderSize <= SectorSize

VARIABLES
  pc,       \* "anchor", "sequence", "root", "head", "heads", and how it ended:
            \* "unopened", "mounted", "adopted" or "rootless"
  disc,
  anchor,   \* the candidate that is tried
  at,       \* the sector that is read next
  left,     \* and how many more may be read
  pds,      \* partition descriptors met in this sequence (pd_index)
  starts,   \* partition_starts_
  fsd,      \* fsd_partition_ and fsd_location_
  tried,    \* directories looked at as the root
  root      \* what the root directory holds; among the heads, the largest so far

udf == <<pc, disc, anchor, at, left, pds, starts, fsd, tried, root>>

Outcomes == {"unopened", "mounted", "adopted", "rootless"}
Nowhere == [part |-> 0, loc |-> 0]

UdfTypeOK ==
  /\ pc \in {"anchor", "sequence", "root", "head", "heads"} \cup Outcomes
  /\ disc \in Discs
  /\ anchor \in 1 .. Len(Anchors) + 1
  /\ at \in Nat
  /\ left \in 0 .. MaxSequence + HeadScan
  /\ pds \in 0 .. MaxSequence
  /\ starts \in Seq(Nat)
  /\ fsd \in RefType
  /\ tried \in 0 .. MaxHeads
  /\ root \in Seq(FidType)

UdfInit ==
  /\ pc = "anchor"
  /\ disc \in Discs
  /\ anchor = 1
  /\ at = 0
  /\ left = 0
  /\ pds = 0
  /\ starts = << >>
  /\ fsd = Nowhere
  /\ tried = 0
  /\ root = << >>

-----------------------------------------------------------------------------
(* Reading a directory                                                     *)

Holds(s, tag) == s \in DOMAIN disc /\ disc[s].tag = tag

(* An unknown partition is taken for the first one.                        *)
Absolute(ref) ==
  {starts[i] + ref.loc :
     i \in {k \in {IF ref.part < Len(starts) THEN ref.part + 1 ELSE 1} : k <= Len(starts)}}

Aligned(size) == ((size + Alignment - 1) \div Alignment) * Alignment

(* Where the i-th file identifier of a stream begins.                      *)
Offset(fids) ==
  LET o[i \in 1 .. Len(fids) + 1] == IF i = 1 THEN 0 ELSE o[i - 1] + Aligned(fids[i - 1].size)
  IN  o

(* Mutant: the data ends where the file entry says.                        *)
NeverExtends(first, n) == FALSE

(* May the directory be taken to have one sector more than n?              *)
Extends(first, n) ==
  n < MaxDirSectors /\ first + n \in DOMAIN disc /\ ~Holds(first + n, "zero")

Live(fid) == IF fid.live THEN <<fid>> ELSE << >>

(* The stream of a directory that begins at a sector and is said to have   *)
(* n sectors: it ends at padding, at what is not a file identifier, and    *)
(* where the next header runs past the data read so far.  read is what     *)
(* comes from a descriptor on when a number of sectors has been read.      *)
Stream(first, n) ==
  LET fids == IF Holds(first, "data") THEN disc[first].fids ELSE << >>
      begins == Offset(fids)
      Written(i) == begins[i] < SectorSize \/ Holds(first + begins[i] \div SectorSize, "rest")
      Fits(i, size, m) == begins[i] + size <= m * SectorSize
      read[x \in (1 .. Len(fids) + 1) \X (n .. MaxDirSectors)] ==
        LET i == x[1]
            m == x[2]
        IN  IF i > Len(fids) \/ ~Fits(i, HeaderSize, m) \/ ~Written(i) THEN << >>
            ELSE IF Fits(i, fids[i].size, m) THEN Live(fids[i]) \o read[<<i + 1, m>>]
            ELSE IF Extends(first, m) THEN read[<<i, m + 1>>] ELSE << >>
  IN  read[<<1, n>>]

SectorsOf(len) ==
  LET n == (len + SectorSize - 1) \div SectorSize IN IF n = 0 THEN 1 ELSE n

(* read_directory reads a file entry, which must be that of a directory,   *)
FileEntries(ref) == {s \in Absolute(ref) : Holds(s, "fe") /\ disc[s].dir}

(* and its data, of which all the sectors it claims must be readable.      *)
DataOf(ref, s) ==
  {t \in Absolute([ref EXCEPT !.loc = disc[s].at]) :
     /\ SectorsOf(disc[s].len) <= MaxDirSectors
     /\ t .. t + SectorsOf(disc[s].len) - 1 \subseteq DOMAIN disc}

(* The entries of a directory, if it can be read.                          *)
Directory(ref) ==
  UNION {{Stream(t, SectorsOf(disc[s].len)) : t \in DataOf(ref, s)} : s \in FileEntries(ref)}

-----------------------------------------------------------------------------
(* parse_anchor and parse_vds                                              *)

SequenceLength(len) ==
  IF len \div SectorSize \in 1 .. MaxSequence THEN len \div SectorSize ELSE MaxSequence

(* Mutant: the partitions are counted on from the candidate before.        *)
CountedOn == pds

CountedFrom == 0

TryAnchor ==
  /\ pc = "anchor"
  /\ anchor <= Len(Anchors)
  /\ LET s == Anchors[anchor] IN
     \/ /\ Holds(s, "avdp") /\ disc[s].len > 0
        /\ pc' = "sequence"
        /\ at' = disc[s].vds
        /\ left' = SequenceLength(disc[s].len)
        /\ pds' = CountedFrom
        /\ UNCHANGED anchor
     \/ /\ ~(Holds(s, "avdp") /\ disc[s].len > 0)
        /\ anchor' = anchor + 1
        /\ UNCHANGED <<pc, at, left, pds>>
  /\ UNCHANGED <<disc, starts, fsd, tried, root>>

NoAnchor ==
  /\ pc = "anchor"
  /\ anchor > Len(Anchors)
  /\ pc' = "unopened"
  /\ UNCHANGED <<disc, anchor, at, left, pds, starts, fsd, tried, root>>

(* parse_pd fills the table up to the index.                               *)
Recorded(start) ==
  [i \in 1 .. (IF pds < Len(starts) THEN Len(starts) ELSE pds + 1) |->
     IF i = pds + 1 THEN start ELSE starts[i]]

ReadDescriptor ==
  /\ pc = "sequence"
  /\ left > 0
  /\ at \in DOMAIN disc
  /\ ~Holds(at, "td")
  /\ at' = at + 1
  /\ left' = left - 1
  /\ IF Holds(at, "pd") THEN starts' = Recorded(disc[at].start) /\ pds' = pds + 1
                        ELSE UNCHANGED <<starts, pds>>
  /\ fsd' = IF Holds(at, "lvd") THEN disc[at].fsd ELSE fsd
  /\ UNCHANGED <<pc, disc, anchor, tried, root>>

EndOfSequence ==
  /\ pc = "sequence"
  /\ left > 0
  /\ Holds(at, "td")
  /\ pc' = "root"
  /\ UNCHANGED <<disc, anchor, at, left, pds, starts, fsd, tried, root>>

GiveUpSequence ==
  /\ pc = "sequence"
  /\ left = 0 \/ at \notin DOMAIN disc
  /\ pc' = "anchor"
  /\ anchor' = anchor + 1
  /\ UNCHANGED <<disc, at, left, pds, starts, fsd, tried, root>>

-----------------------------------------------------------------------------
(* read_root_directory and locate_root_in_head                             *)

(* What the file set descriptor names as the root directory.               *)
StandardRefs ==
  {disc[s].root :
     s \in {t \in Absolute(fsd) : fsd.loc # 0 /\ Holds(t, "fsd") /\ disc[t].root.loc # 0}}

StandardRoot == UNION {Directory(ref) : ref \in StandardRefs}

ReadRoot ==
  /\ pc = "root"
  /\ \/ /\ root' \in StandardRoot
        /\ pc' = "mounted"
     \/ /\ StandardRoot = {}
        /\ pc' = "head"
        /\ UNCHANGED root
  /\ UNCHANGED <<disc, anchor, at, left, pds, starts, fsd, tried>>

FileSets == {s \in Anchors[1] + 1 .. Anchors[1] + HeadScan - 1 : Holds(s, "fsd")}
Rebased(s) == IF starts = << >> THEN <<s>> ELSE [starts EXCEPT ![1] = s]

FindFileSet ==
  /\ pc = "head"
  /\ \/ /\ FileSets = {}
        /\ pc' = "rootless"
        /\ UNCHANGED <<at, left, starts>>
     \/ \E s \in FileSets :
          /\ \A t \in FileSets : s <= t
          /\ starts' = Rebased(s)
          /\ pc' = "heads"
          /\ at' = s + 1
          /\ left' = HeadScan - 1
  /\ UNCHANGED <<disc, anchor, pds, fsd, tried, root>>

IsDirectory(ref) == FileEntries(ref) # {}

(* Mutant: a file in the place of a child directory is not noticed.        *)
ResolvesToEntries(fids) ==
  \A i \in 1 .. Len(fids) :
    fids[i].dir => ~fids[i].stub /\ \E s \in Absolute(fids[i].to) : Holds(s, "fe")

(* child_dirs_resolve                                                      *)
Resolves(fids) ==
  \A i \in 1 .. Len(fids) : fids[i].dir => ~fids[i].stub /\ IsDirectory(fids[i].to)

(* Blocks are counted from the file set, that is from starts[1].           *)
HeadAt(s) == Directory([part |-> 0, loc |-> s - starts[1]])

(* Mutant: a sector without a readable directory is read again.            *)
NextAfterHead == IF HeadAt(at) = {} THEN at ELSE at + 1

NextHead == at + 1

SkipHead ==
  /\ pc = "heads"
  /\ left > 0
  /\ HeadAt(at) = {}
  /\ at' = NextHead
  /\ left' = left - (at' - at)
  /\ UNCHANGED <<pc, disc, anchor, pds, starts, fsd, tried, root>>

(* Mutant: there is no end to the candidates.                              *)
HeadsLeftAll == left - 1

HeadsLeft == IF tried + 1 >= MaxHeads THEN 0 ELSE left - 1

TryHead ==
  /\ pc = "heads"
  /\ left > 0
  /\ \E fids \in HeadAt(at) :
       IF fids # << >> /\ Resolves(fids)
       THEN /\ root' = fids
            /\ pc' = "adopted"
            /\ UNCHANGED <<at, left, tried>>
       ELSE /\ root' = IF Len(fids) > Len(root) THEN fids ELSE root
            /\ tried' = tried + 1
            /\ at' = at + 1
            /\ left' = HeadsLeft
            /\ UNCHANGED pc
  /\ UNCHANGED <<disc, anchor, pds, starts, fsd>>

NoMoreHeads ==
  /\ pc = "heads"
  /\ left = 0
  /\ pc' = IF root = << >> THEN "rootless" ELSE "adopted"
  /\ UNCHANGED <<disc, anchor, at, left, pds, starts, fsd, tried, root>>

UdfNext ==
  \/ TryAnchor \/ NoAnchor \/ ReadDescriptor \/ EndOfSequence \/ GiveUpSequence
  \/ ReadRoot \/ FindFileSet \/ SkipHead \/ TryHead \/ NoMoreHeads

UdfSpec == UdfInit /\ [][UdfNext]_udf /\ WF_udf(UdfNext)

-----------------------------------------------------------------------------
(* Properties                                                              *)

(* The sequence an anchor points at, if it is complete.                    *)
SequenceOf(i) ==
  LET s == Anchors[i]
      Complete(n) ==
        /\ \A k \in 0 .. n : disc[s].vds + k \in DOMAIN disc
        /\ \A k \in 0 .. n : Holds(disc[s].vds + k, "td") <=> k = n
  IN  IF Holds(s, "avdp") /\ disc[s].len > 0
      THEN {[k \in 1 .. n |-> disc[disc[s].vds + k - 1]] :
              n \in {m \in 0 .. SequenceLength(disc[s].len) - 1 : Complete(m)}}
      ELSE {}

Tagged(sequence, tag) == {k \in DOMAIN sequence : sequence[k].tag = tag}

(* Are the partitions and the file set those of the sequence?              *)
Obeyed(sequence) ==
  LET parts == Tagged(sequence, "pd")
      lvds == Tagged(sequence, "lvd")
  IN  /\ \A k \in parts : starts[Cardinality({j \in parts : j <= k})] = sequence[k].start
      /\ \A k \in lvds : (\A j \in lvds : j <= k) => fsd = sequence[k].fsd

(* The volume is opened with the first anchor that has a complete          *)
(* sequence, and what that sequence says of partitions and of the file set *)
(* is not overridden by what an anchor that failed left behind.            *)
AcceptedSequenceWins ==
  /\ pc = "unopened" => \A i \in 1 .. Len(Anchors) : SequenceOf(i) = {}
  /\ pc = "root" =>
       /\ \A i \in 1 .. anchor - 1 : SequenceOf(i) = {}
       /\ \E sequence \in SequenceOf(anchor) : Obeyed(sequence)

LiveFids(first) ==
  LET fids == disc[first].fids
      live[i \in 1 .. Len(fids) + 1] ==
        IF i > Len(fids) THEN << >> ELSE Live(fids[i]) \o live[i + 1]
  IN  live[1]

(* The sectors the descriptors of a directory reach into, as far as any    *)
(* directory may.                                                          *)
Reaches(first) ==
  LET fids == disc[first].fids
  IN  {k \in 1 .. MaxDirSectors :
         \E i \in 1 .. Len(fids) : Offset(fids)[i] + fids[i].size > k * SectorSize}

(* Does every header lie in the sectors the descriptor before it reaches?  *)
HeadersFollow(first) ==
  LET fids == disc[first].fids
      end(i) == (((Offset(fids)[i] + fids[i].size - 1) \div SectorSize) + 1) * SectorSize
  IN  \A i \in 2 .. Len(fids) : Offset(fids)[i] + HeaderSize <= end(i - 1)

IsOnDisc(first) ==
  /\ Holds(first, "data")
  /\ \A k \in Reaches(first) : Holds(first + k, "rest")
  /\ Cardinality(Reaches(first)) < MaxDirSectors

RootData == UNION {UNION {DataOf(ref, s) : s \in FileEntries(ref)} : ref \in StandardRefs}

(* A root directory is read whole however few sectors its file entry       *)
(* claims (udf_parser.cpp 424: "may under-report the directory size"),     *)
(* unless a header is cut by the end of a sector or begins there.          *)
SizesMayBeTooSmall ==
  pc = "mounted" =>
    \A s \in RootData : IsOnDisc(s) /\ HeadersFollow(s) => root = LiveFids(s)

(* The same without the exception ("The FID (header or name) runs past the *)
(* end of the data read so far: pull in the next sector and retry.",       *)
(* udf_parser.cpp 457; "extend only when a FID header is incomplete",      *)
(* docs/compatibility.md 177).                                             *)
HeadersMayCrossSectors ==
  pc = "mounted" => \A s \in RootData : IsOnDisc(s) => root = LiveFids(s)

(* The directories behind the file set descriptor that are looked at.      *)
Heads ==
  LET all == {s \in starts[1] + 1 .. starts[1] + HeadScan - 1 : HeadAt(s) # {}}
  IN  {s \in all : Cardinality({t \in all : t < s}) < MaxHeads}

Genuine(s) ==
  \E fids \in HeadAt(s) :
    LET children == {fids[i] : i \in {k \in DOMAIN fids : fids[k].dir}}
    IN  fids # << >> /\ \A child \in children : IsDirectory(child.to) /\ ~child.stub

(* The root found behind the anchor is the first directory that is not     *)
(* empty and whose child directories are directories; only if there is     *)
(* none, it is one of the others, and the largest ("fall back to the       *)
(* largest candidate only when none resolve", docs/compatibility.md 175).  *)
RootIsFirstThatResolves ==
  pc = "adopted" =>
    \E s \in Heads :
      /\ root \in HeadAt(s)
      /\ \/ Genuine(s) /\ \A t \in Heads : t < s => ~Genuine(t)
         \/ /\ \A t \in Heads : ~Genuine(t)
            /\ \A t \in Heads : \A fids \in HeadAt(t) : Len(fids) <= Len(root)

(* Reading a volume ends, whatever the disc holds.                         *)
MountEnds == <>(pc \in Outcomes)

-----------------------------------------------------------------------------
(* The inductive invariant                                                 *)

(* The first n descriptors of the sequence of the anchor that is tried.    *)
Heard(n) == [k \in 1 .. n |-> disc[disc[Anchors[anchor]].vds + k - 1]]

(* In a sequence, what it has said so far holds, and it has not ended.     *)
SequenceInv ==
  LET s == Anchors[anchor]
      n == SequenceLength(disc[s].len) - left
  IN  pc = "sequence" =>
        /\ anchor <= Len(Anchors)
        /\ Holds(s, "avdp") /\ disc[s].len > 0
        /\ left <= SequenceLength(disc[s].len)
        /\ at = disc[s].vds + n
        /\ \A k \in 0 .. n - 1 :
             disc[s].vds + k \in DOMAIN disc /\ ~Holds(disc[s].vds + k, "td")
        /\ pds = Cardinality(Tagged(Heard(n), "pd")) /\ pds <= Len(starts)
        /\ Obeyed(Heard(n))

(* The anchors before have no complete sequence, the accepted one has.     *)
AnchorInv ==
  /\ pc \in {"anchor", "sequence", "root", "unopened"} =>
       \A i \in 1 .. anchor - 1 : SequenceOf(i) = {}
  /\ pc = "unopened" => anchor = Len(Anchors) + 1
  /\ pc = "root" => \E sequence \in SequenceOf(anchor) : Obeyed(sequence)

(* The directories behind the file set that have been passed.              *)
Passed == {s \in starts[1] + 1 .. at - 1 : HeadAt(s) # {}}

(* None of them is the root; the largest is remembered.                    *)
PassedInv ==
  pc = "heads" =>
    /\ starts # << >> /\ starts[1] < at /\ at <= starts[1] + HeadScan
    /\ tried = Cardinality(Passed)
    /\ left = 0 => at = starts[1] + HeadScan \/ tried = MaxHeads
    /\ left > 0 => at + left = starts[1] + HeadScan /\ tried < MaxHeads
    /\ \A s \in Passed : ~Genuine(s) /\ \A fids \in HeadAt(s) : Len(fids) <= Len(root)
    /\ root # << >> => \E s \in Passed : root \in HeadAt(s)

RootInv ==
  /\ pc \in {"anchor", "sequence", "root", "head"} => tried = 0 /\ root = << >>
  /\ pc = "mounted" => root \in StandardRoot

UdfInv ==
  /\ UdfTypeOK /\ SequenceInv /\ AnchorInv /\ PassedInv /\ RootInv
  /\ RootIsFirstThatResolves

=============================================================================
