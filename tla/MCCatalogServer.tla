-------------------------- MODULE MCCatalogServer --------------------------
(* Small instances of CatalogServer for TLC: place p holds a folder with a *)
(* file in it, place q is an image file with one entry in it.              *)
EXTENDS CatalogServer, TLC

CONSTANTS p, q, d, a, b, c, h1, h2

MCWalk == (p :> <<d, a>>) @@ (q :> <<b, c>>)
MCUp == (d :> 0) @@ (a :> 1) @@ (b :> 0) @@ (c :> 1)

Ask(api, id, source) == [api |-> api, id |-> id, source |-> source]

(* One thread looks single entries up, the other one lists; both search.   *)
MCRequests ==
  (h1 :> {Ask("search", 0, 0), Ask("entry", 2, 0)}) @@
  (h2 :> {Ask("search", 0, 0), Ask("page", 0, 0), Ask("stats", 0, 0), Ask("sources", 0, 0),
          Ask("tree", 0, 1)})

MCBefore == {[place |-> p, index |-> "contentless"]}

(* Killed with a half or a whole tree written; killed anywhere.            *)
SafePoints == {"walk", "switch"}
AllPoints == WriterPoints \ {"none"}
=============================================================================
