--------------------------- MODULE AtomicCatalog ---------------------------
(***************************************************************************)
(* What scanning promises to someone who reads the catalogue: a place has  *)
(* no tree or one tree; a scan that runs to its end puts the complete tree *)
(* there in one step; a first scan that is cancelled may leave a part of   *)
(* it, one that always hangs together; and nothing else ever changes what  *)
(* is shown, be it a crash, a failure or a cancelled replacement.          *)
(***************************************************************************)
CONSTANTS Places, Items, Under, Home

VARIABLE shown   \* place -> NoTree or what the catalogue shows of the place

NoTree == [status |-> "none", items |-> {}]

Below(place) == {i \in Items : Home[i] = place}

(* A part hangs together when it has the folder of each of its items.      *)
Rooted(part) == \A i \in part : Under[i] \in Items => Under[i] \in part

Complete(place) ==
  {[status |-> st, items |-> Below(place)] : st \in {"Completed", "Cancelled"}}

Partial(place) ==
  {[status |-> "Cancelled", items |-> part] :
     part \in {p \in SUBSET Below(place) : Rooted(p)}}

Init == shown = [place \in Places |-> NoTree]

Publish(place) ==
  \E tree \in Complete(place) : shown' = [shown EXCEPT ![place] = tree]

KeepPart(place) ==
  /\ shown[place] = NoTree
  /\ \E tree \in Partial(place) : shown' = [shown EXCEPT ![place] = tree]

Next == \E place \in Places : Publish(place) \/ KeepPart(place)

Spec == Init /\ [][Next]_shown
=============================================================================
