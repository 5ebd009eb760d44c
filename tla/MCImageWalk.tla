---------------------------- MODULE MCImageWalk ----------------------------
(* Two disc images for TLC.  disc is a hybrid: its UDF volume is damaged,  *)
(* its plain ISO 9660 tree has a relocation directory, a directory that    *)
(* contains itself, and an image file.  That image, nested, is a UDF       *)
(* volume with a directory and the image itself in it; lost has no file    *)
(* system that can be read.                                                *)
EXTENDS ImageWalk, TLC

CONSTANTS disc, nested, lost,          \* images
          top, kept, loop, deep, u, v \* directories

Rec(name, kind, to, size, pos) ==
  [name |-> name, kind |-> kind, to |-> to, size |-> size, pos |-> pos]
F(name, size) == Rec(name, "file", disc, size, 0)
D(name, to) == Rec(name, "dir", to, 0, 0)

MCListing ==
  (top :> <<F("", 1), D("rr_moved", kept), F("f", 2), D("loop", loop),
            Rec("img", "image", nested, 1, 0)>>) @@
  (kept :> <<D("3", deep), F("g", 1)>>) @@
  (loop :> <<Rec("3", "stub", loop, 0, 2), Rec("2", "stub", loop, 0, 1),
             Rec("9", "stub", loop, 0, 8), D("again", loop)>>) @@
  (deep :> <<Rec("l", "link", disc, 1, 0)>>) @@
  (u :> <<D("v", v), Rec("self", "image", nested, 2, 0), Rec("no", "image", lost, 1, 0)>>) @@
  (v :> <<F("h", 1), D("v", v)>>)

MCRecords == UNION {{MCListing[dir][i] : i \in 1 .. Len(MCListing[dir])} : dir \in Dirs}

Vol(udf, joliet, iso) == ("udf" :> udf) @@ ("joliet" :> joliet) @@ ("iso" :> iso)
MCVolume ==
  (disc :> Vol("broken", "absent", "readable")) @@
  (nested :> Vol("readable", "absent", "absent")) @@
  (lost :> Vol("absent", "broken", "readable"))

MCRoot == (disc :> [fs \in FileSystems |-> top]) @@
          (nested :> [fs \in FileSystems |-> u]) @@
          (lost :> [fs \in FileSystems |-> u])

(* Every combination of limits; what can go wrong is let go wrong in the   *)
(* smaller image, failing INSERTs also with a limit on the entries.        *)
Opts(image, byname, probe, nest, entries, bytes, timed, faults) ==
  [image : image, byname : byname, probe : probe, nest : nest, entries : entries,
   bytes : bytes, timed : timed, faults : faults]

MCOptions ==
  Opts({disc}, {TRUE}, {FALSE}, 0 .. 3, {0, 1, 4, 7}, {0, 2, 3, 6}, BOOLEAN, {{}}) \cup
  Opts({nested, disc}, {TRUE}, {FALSE}, {2}, {0, 3}, {0, 4}, BOOLEAN,
       {{"unreadable", "extract"}, {"register", "lookup"}}) \cup
  Opts({nested}, {TRUE}, {FALSE}, {1, 2}, {2, 3}, {0, 4}, {FALSE}, {{"insert", "index"}}) \cup
  Opts(Images, {FALSE}, BOOLEAN, {1}, {0}, {0}, {FALSE}, {{}})
=============================================================================
