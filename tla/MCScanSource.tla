---------------------------- MODULE MCScanSource ----------------------------
(* Small instances of ScanSource for TLC.                                  *)
EXTENDS ScanSourceInv, TLC

CONSTANTS disc, note,   \* the places: a directory tree and a single file
          d, e, a, b,   \* below disc: folder d holds file a and folder e, e holds b
          n             \* the item of the single file

BothUnder == (d :> disc) @@ (e :> d) @@ (a :> d) @@ (b :> e) @@ (n :> note)
BothHome == (d :> disc) @@ (e :> disc) @@ (a :> disc) @@ (b :> disc) @@ (n :> note)

(* Folder d with one file, for runs of many scans.                         *)
SmallUnder == (d :> disc) @@ (a :> d)
SmallHome == (d :> disc) @@ (a :> disc)

(* The same beside the single file.                                        *)
BesideUnder == SmallUnder @@ (n :> note)
BesideHome == SmallHome @@ (n :> note)

(* The process may be killed anywhere but between its first two INSERTs.   *)
AllPoints == Labels \ {"idle"}
MostPoints == AllPoints \ {"newscan"}
=============================================================================
