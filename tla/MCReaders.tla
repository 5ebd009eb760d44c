----------------------------- MODULE MCReaders -----------------------------
(* What is done with the content of one file, for TLC: hashing it, and     *)
(* opening it as a UDF volume.  The two share nothing, so a behaviour has  *)
(* one of them and the other rests in its first state.                     *)
(*                                                                         *)
(* Sectors have 8 bytes, headers 3.  The anchors are in sectors 4 and 30,  *)
(* the sequences in 20 and 31, a standard volume has its partition in 40,  *)
(* the volumes of genisoimage have theirs in 5 to 13.                      *)
EXTENDS Digest, UdfParser, TLC

VARIABLE task   \* "hash" or "mount"

vars == <<task, digest, udf>>

MCAnchors == <<4, 30>>
MCFiles == {[i \in 1 .. n |-> i] : n \in 0 .. 10}

-----------------------------------------------------------------------------
Plain(tag) == [tag |-> tag]
Ref(part, loc) == [part |-> part, loc |-> loc]
Avdp(vds, len) == [tag |-> "avdp", vds |-> vds, len |-> len]
Pd(start) == [tag |-> "pd", start |-> start]
Lvd(part, loc) == [tag |-> "lvd", fsd |-> Ref(part, loc)]
Fsd(loc) == [tag |-> "fsd", root |-> Ref(0, loc)]
Fe(dir, block, len) == [tag |-> "fe", dir |-> dir, at |-> block, len |-> len]
Data(fids) == [tag |-> "data", fids |-> fids]
Fid(size, live, dir, stub, loc) ==
  [size |-> size, live |-> live, dir |-> dir, stub |-> stub, to |-> Ref(0, loc)]

Parent == Fid(3, FALSE, TRUE, FALSE, 0)
File(size) == Fid(size, TRUE, FALSE, FALSE, 0)
Dir(loc) == Fid(4, TRUE, TRUE, FALSE, loc)
Stub(loc) == Fid(4, TRUE, TRUE, TRUE, loc)

(* A sequence of descriptors from a sector on.                             *)
From(first, seq) == [s \in first .. first + Len(seq) - 1 |-> seq[s - first + 1]]

Td == Plain("td")

(* Sequences, complete and not, with one partition or two or none, with    *)
(* and without the pointer to the file set.                                *)
First == {<<Pd(90), Pd(40), Lvd(1, 1)>>, <<Pd(90), Lvd(0, 7), Td>>, <<Pd(40), Lvd(0, 1), Td>>,
          <<Plain("pvd"), Lvd(0, 0), Td>>, << >>}
Second == {<<Pd(40), Lvd(0, 1), Td>>, <<Pd(40), Td>>, <<Pd(80), Pd(40), Lvd(1, 1), Lvd(0, 0), Td>>,
           <<Pd(40), Lvd(0, 1), Pd(50)>>}

AnchorDiscs ==
  {(30 :> Avdp(31, len)) @@ (4 :> Avdp(20, 24)) @@ From(20, one) @@ From(31, two) @@
   (41 :> Fsd(2)) @@ (42 :> Fe(TRUE, 3, 8)) @@ (43 :> Data(<<Parent, File(4)>>)) :
     one \in First, two \in Second, len \in {0, 4, 24}}

(* Directories: descriptors that fit, that reach into the next sector,     *)
(* whose header does or begins there, and what follows on the disc.        *)
Streams == {<<Parent, File(4)>>, <<File(7), File(4)>>, <<File(11), File(4)>>,
            <<File(6), File(4)>>, <<File(4), File(12), File(9)>>}
Rests == {<<Plain("rest"), Plain("rest"), Plain("rest")>>, <<Plain("rest"), Plain("zero")>>,
          <<Plain("td")>>, << >>}

DirectoryDiscs ==
  {(4 :> Avdp(20, 24)) @@ From(20, <<Pd(40), Lvd(0, 1), Td>>) @@ (41 :> Fsd(2)) @@
   (42 :> Fe(TRUE, 3, len)) @@ (43 :> Data(fids)) @@ From(44, rest) :
     len \in {0, 3, 16, 200}, fids \in Streams, rest \in Rests}

(* Behind the anchor: the file set, three directories (stubs, the root, a  *)
(* child) in either order, a file.                                         *)
Small == {<<Stub(7), File(4)>>, <<File(4), File(4), File(4)>>, <<Dir(8), File(4)>>, << >>}
Large == {<<Parent, Dir(7)>>, <<Dir(7), Dir(5)>>, <<Dir(3)>>}

HeadDiscs ==
  {(4 :> Avdp(20, 24)) @@ From(20, <<Plain("pvd"), Lvd(0, 0), Td>>) @@
   From(5, <<Fsd(1), Fe(TRUE, a, 8), Data(small), Fe(TRUE, b, 8), Data(large), Fe(FALSE, 6, 8),
             Plain("rest"), Fe(TRUE, 8, 8), Data(child)>>) :
     a \in {2, 90}, small \in Small, b \in {2, 4}, large \in Large,
     child \in {<<File(4)>>, <<Parent>>}} \cup
  {(4 :> Avdp(20, 24)) @@ From(20, <<Pd(40), Lvd(0, 1), Td>>) @@ (41 :> Fsd(loc)) @@
   From(5, <<head, Fe(FALSE, 2, 8)>>) : loc \in {0, 2}, head \in {Fsd(1), Plain("rest")}}

MCDiscs == AnchorDiscs \cup DirectoryDiscs \cup HeadDiscs

-----------------------------------------------------------------------------
Init ==
  /\ task \in {"hash", "mount"}
  /\ DigestInit /\ (task = "mount" => content = << >>)
  /\ UdfInit /\ (task = "hash" => disc = CHOOSE d \in MCDiscs : TRUE)

Hash == task = "hash" /\ DigestNext /\ UNCHANGED <<task, udf>>
Mount == task = "mount" /\ UdfNext /\ UNCHANGED <<task, digest>>
Rest == (step \in Settled \/ pc \in Outcomes) /\ UNCHANGED vars

Next == Hash \/ Mount \/ Rest

Spec == Init /\ [][Next]_vars /\ WF_vars(Hash) /\ WF_vars(Mount)

(* HashingEnds (Digest) for the behaviours that hash a file.               *)
HashingEndsHere == task = "hash" => HashingEnds

(* MountEnds (UdfParser) for the behaviours that open a volume.            *)
MountEndsHere == task = "mount" => MountEnds
=============================================================================
