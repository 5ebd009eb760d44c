----------------------------- MODULE TreeProofs -----------------------------
(***************************************************************************)
(* The trees of the catalogue: that the walk writes every tree in one      *)
(* piece (TreeInv), that a finished tree can be searched (IndexInv), that  *)
(* a completed one misses nothing that was not counted (CompleteInv), and  *)
(* that the scans implement AtomicCatalog.                                 *)
(***************************************************************************)
EXTENDS RowsProofs

-----------------------------------------------------------------------------
(* Outside the walk entries come and go by whole trees.                    *)

Whole(db, new) ==
  /\ new.entry \subseteq db.entry
  /\ \A e, f \in db.entry : e.source = f.source /\ e \in new.entry => f \in new.entry

LEMMA WholeSame == ASSUME NEW db, NEW new, new.entry = db.entry PROVE Whole(db, new)
BY DEF Whole

LEMMA InsertsKeepEntries ==
  ASSUME NEW db \in CatalogType, NEW id, NEW p, NEW s, NEW status
  PROVE  /\ InsertSource(db, id, p).entry = db.entry
         /\ InsertScan(db, id, s).entry = db.entry
         /\ FinishScan(db, id, status).entry = db.entry
BY DEF CatalogType, InsertSource, InsertScan, FinishScan

LEMMA RemoveSourcesWhole ==
  ASSUME NEW db \in CatalogType, NEW done, NEW new, new = RemoveSources(db, done)
  PROVE  Whole(db, new)
<1> DEFINE Passed(s) == s \in DOMAIN done /\ done[s] >= 3
<1>1. new.entry = {e \in db.entry : ~Passed(e.source)}
  BY DEF RemoveSources
<1> HIDE DEF Passed
<1>2. QED
  BY <1>1 DEF Whole

LEMMA RemoveTreeWhole ==
  ASSUME NEW db \in CatalogType, NEW s, NEW new, new = RemoveTree(db, s)
  PROVE  Whole(db, new)
BY RemoveSourcesWhole DEF RemoveTree

LEMMA ReturnWhole ==
  ASSUME NEW code, NEW content, Return(code, content), Whole(disk, content)
  PROVE  Whole(disk, disk') /\ Whole(disk, work')
BY DEF Return, Whole

(* What a step outside the walk leaves comes from the file or from the     *)
(* open transaction, tree by tree.                                         *)
FromWhole(new) == Whole(disk, new) \/ Whole(work, new)

LEMMA OtherEntries ==
  ASSUME RowsInv, [Next]_vars, ~WalkAction
  PROVE  FromWhole(disk') /\ FromWhole(work')
<1> USE DEF FromWhole
<1>1. /\ IInv /\ disk \in CatalogType /\ work \in CatalogType
      /\ ~intxn => work = disk
  BY DEF RowsInv, IInv, TypeOK, ConnectionOK
<1>2. CASE disk' = disk /\ work' \in {work, disk}
  BY <1>2, WholeSame
<1>3. ASSUME NEW content, Run(content), content.entry = work.entry
      PROVE  FromWhole(disk') /\ FromWhole(work')
  BY <1>3, WholeSame DEF Run
<1>4. ASSUME NEW code, NEW content, Return(code, content), Whole(disk, content)
      PROVE  FromWhole(disk') /\ FromWhole(work')
  BY <1>4, ReturnWhole
<1>5. CASE StartScan \/ Interrupt \/ Rest \/ UNCHANGED vars
  BY <1>2, <1>5 DEF StartScan, Interrupt, Rest, vars, dbVars
<1>6. CASE Recover
  <2>1. PICK done : Run(RemoveSources(work, done))
    BY <1>6 DEF Recover
  <2>2. PICK new : new = RemoveSources(work, done)
    OBVIOUS
  <2>3. Whole(work, new)
    BY <1>1, <2>2, RemoveSourcesWhole
  <2>4. work' = new /\ disk' \in {disk, new}
    BY <2>1, <2>2 DEF Run
  <2>5. Whole(disk, disk)
    BY WholeSame
  <2>6. QED
    BY <2>3, <2>4, <2>5
<1>7. CASE LookUp \/ CreateSource \/ CreateScan \/ Finish \/ Crash
  <2>1. CASE UNCHANGED dbVars
    BY <1>2, <2>1 DEF dbVars
  <2>2. CASE \E code : Return(code, disk)
    BY <1>4, <2>2, WholeSame
  <2>3. CASE \E id : Run(InsertSource(work, id, path)) \/ Run(InsertScan(work, id, sid))
    BY <1>1, <1>3, <2>3, InsertsKeepEntries
  <2>4. QED
    BY <1>7, <2>1, <2>2, <2>3 DEF LookUp, CreateSource, CreateScan, Finish, Crash
<1>8. CASE CancelFirstScan
  BY <1>1, <1>4, <1>8, WholeSame, InsertsKeepEntries DEF CancelFirstScan
<1>9. CASE CancelReplacement \/ FailScan \/ DropAfterSwitch
  <2>1. PICK code, content : Return(code, content) /\ content \in {disk, RemoveTree(disk, sid)}
    BY <1>9 DEF CancelReplacement, FailScan, DropAfterSwitch, DropShadow
  <2>2. Whole(disk, content)
    BY <1>1, <2>1, WholeSame, RemoveTreeWhole
  <2>3. QED
    BY <1>4, <2>1, <2>2
<1>10. CASE RemoveOld
  <2>1. disk' = disk /\ work' \in {work, disk, RemoveTree(work, old)}
    BY <1>10 DEF RemoveOld, dbVars
  <2>2. CASE work' = RemoveTree(work, old)
    BY <1>1, <2>1, <2>2, RemoveTreeWhole, WholeSame
  <2>3. QED
    BY <1>2, <2>1, <2>2
<1>11. CASE CloseScan
  <2>1. CASE Fails("finish")
    BY <1>2, <2>1 DEF Fails, RolledBack, dbVars
  <2>2. CASE \E status : Run(FinishScan(work, scid, status))
    BY <1>1, <1>3, <2>2, InsertsKeepEntries
  <2>3. QED
    BY <1>11, <2>1, <2>2 DEF CloseScan
<1>12. CASE CommitSwitch
  <2>1. CASE Commits
    BY <2>1, WholeSame DEF Commits
  <2>2. CASE disk' = disk /\ work' \in {work, disk}
    BY <1>2, <2>2
  <2>3. QED
    BY <1>12, <2>1, <2>2 DEF CommitSwitch, dbVars
<1>13. QED
  BY <1>5, <1>6, <1>7, <1>8, <1>9, <1>10, <1>11, <1>12 DEF Next, ScannerStep, WalkAction

-----------------------------------------------------------------------------
(* The start of the walk                                                   *)

LEMMA InitRowsInv == Init => RowsInv
BY InitIInv, InitRows, RowsParts

LEMMA NextRowsInv == RowsInv /\ [Next]_vars => RowsInv'
<1>1. RowsInv /\ [Next]_vars => IInv'
  BY NextIInv, RowsParts
<1>2. IInv' /\ RowsRest' => RowsInv'
  BY RowsParts DEF RowsInv, RowsRest, CursorOK
<1>3. QED
  BY <1>1, <1>2, NextRows

StartRest ==
  /\ pc \in {"recover", "lookup", "newsource"} => sid = NoId
  /\ pc \in StartPoints => cur = AtRoot
  /\ pc \in StartPoints \cup {"idle"} => stack = << >>
  /\ pc \in {"newscan", "begin", "file"} => EntriesOf(work, sid) = {}
  /\ pc = "file" => path.place \in FilePlaces

LEMMA StartParts == StartInv <=> RowsInv /\ StartRest
BY DEF StartInv, StartRest

LEMMA ReturnStart ==
  ASSUME NEW code, NEW content, Return(code, content)
  PROVE  StartRest'
BY DEF Return, StartRest, StartPoints

LEMMA NextStart ==
  ASSUME StartInv, [Next]_vars
  PROVE  StartRest'
<1> USE DEF StartPoints
<1>1. RowsInv /\ StartRest /\ IInv /\ work \in CatalogType /\ EntriesOK(work)
  BY StartParts DEF RowsInv, IInv, TypeOK
<1>2. CASE StartScan
  BY <1>1, <1>2 DEF StartScan, StartRest, AtRoot
<1>3. CASE Recover
  BY <1>1, <1>3 DEF Recover, StartRest, AtRoot, jobVars, walkVars
<1>4. CASE LookUp
  <2>1. CASE Return("error", disk)
    BY <2>1, ReturnStart
  <2>2. CASE pc' = "newsource" /\ UNCHANGED <<path, sid, walkVars>>
    BY <1>1, <1>4, <2>2 DEF LookUp, StartRest, AtRoot, walkVars
  <2>3. QED
    BY <1>4, <2>1, <2>2 DEF LookUp
<1>5. CASE CreateSource
  <2>1. CASE Return("error", disk)
    BY <2>1, ReturnStart
  <2>2. ASSUME NEW id \in NewRowids(work.source), Run(InsertSource(work, id, path)), sid' = id,
               pc' = "newscan", UNCHANGED <<path, walkVars>>
        PROVE  StartRest'
    <3>1. sid' \notin IdsOf(work.source)
      BY <1>1, <2>2, SourceRowid
    <3>2. work'.entry = work.entry
      BY <1>1, <2>2, InsertsKeepEntries DEF Run
    <3>3. EntriesOf(work', sid') = {}
      BY <1>1, <3>1, <3>2 DEF EntriesOK, EntriesOf
    <3>4. pc = "newsource"
      BY <1>5 DEF CreateSource
    <3>5. QED
      BY <1>1, <2>2, <3>3, <3>4 DEF StartRest, AtRoot, walkVars
  <2>3. QED
    BY <1>5, <2>1, <2>2 DEF CreateSource
<1>6. CASE CreateScan
  <2>1. CASE Return("error", disk)
    BY <2>1, ReturnStart
  <2>2. ASSUME NEW id, Run(InsertScan(work, id, sid)), pc' = "begin",
               UNCHANGED <<path, sid, walkVars>>
        PROVE  StartRest'
    <3>1. work'.entry = work.entry
      BY <1>1, <2>2, InsertsKeepEntries DEF Run
    <3>2. pc = "newscan"
      BY <1>6 DEF CreateScan
    <3>3. QED
      BY <1>1, <2>2, <3>1, <3>2 DEF StartRest, AtRoot, walkVars, EntriesOf
  <2>3. QED
    BY <1>6, <2>1, <2>2 DEF CreateScan
<1>7. CASE BeginScan
  BY <1>1, <1>7 DEF BeginScan, StartRest, jobVars
<1>8. CASE Interrupt \/ Rest \/ UNCHANGED vars
  <2>1. UNCHANGED <<work, pc, path, sid, stack, cur>>
    BY <1>8 DEF Interrupt, Rest, vars, dbVars, jobVars, walkVars
  <2>2. QED
    BY <1>1, <2>1 DEF StartRest, AtRoot, EntriesOf
<1>9. CASE Crash \/ Finish \/ CancelFirstScan \/ CancelReplacement \/ FailScan \/ DropAfterSwitch
  BY <1>9, ReturnStart
     DEF Crash, Finish, CancelFirstScan, CancelReplacement, FailScan, DropAfterSwitch
<1>10. CASE pc' \notin StartPoints \cup {"idle", "file"}
  BY <1>10 DEF StartRest
<1>11. CASE \/ OpenDirectory \/ LoseListing \/ VisitEntry \/ IndexEntry \/ CommitBatch
            \/ FinishEntry \/ LeaveDirectory \/ LeaveOnError \/ StopWalk \/ ScanFile
            \/ CommitScan \/ RemoveOld \/ CloseScan \/ CommitSwitch
  BY <1>10, <1>11
     DEF OpenDirectory, LoseListing, VisitEntry, IndexEntry, CommitBatch, FinishEntry,
         LeaveDirectory, LeaveOnError, StopWalk, ScanFile, CommitScan, RemoveOld, CloseScan,
         CommitSwitch, AfterReturn, AfterSwitchError
<1>12. QED
  BY <1>2, <1>3, <1>4, <1>5, <1>6, <1>7, <1>8, <1>9, <1>11 DEF Next, ScannerStep

LEMMA InitStart == Init => StartInv
BY InitRowsInv, StartParts DEF Init, StartRest, StartPoints, AtRoot

LEMMA NextStartInv == StartInv /\ [Next]_vars => StartInv'
<1>1. RowsInv' /\ StartRest' => StartInv'
  BY DEF StartInv, StartRest
<1>2. QED
  BY <1>1, NextRowsInv, NextStart, StartParts

-----------------------------------------------------------------------------
(* The stack of activations, position by position                          *)

LEMMA Pushed ==
  ASSUME NEW s \in Seq(Frames), NEW f \in Frames, NEW t, t = <<f>> \o s
  PROVE  /\ Len(t) = Len(s) + 1 /\ t[1] = f
         /\ \A k \in 1 .. Len(t) : k = 1 \/ (k - 1 \in 1 .. Len(s) /\ t[k] = s[k - 1])
<1>1. <<f>> \in Seq(Frames) /\ Len(<<f>>) = 1 /\ <<f>>[1] = f
  OBVIOUS
<1>2. /\ Len(t) = Len(<<f>>) + Len(s)
      /\ \A k \in 1 .. Len(<<f>>) + Len(s) :
           t[k] = IF k <= Len(<<f>>) THEN <<f>>[k] ELSE s[k - Len(<<f>>)]
  BY <1>1
<1>3. Len(s) \in Nat
  OBVIOUS
<1>4. QED
  BY <1>1, <1>2, <1>3

LEMMA Popped ==
  ASSUME NEW s \in Seq(Frames), s # << >>
  PROVE  /\ Head(s) = s[1] /\ 1 \in 1 .. Len(s)
         /\ \A k \in 1 .. Len(Tail(s)) : k + 1 \in 1 .. Len(s) /\ Tail(s)[k] = s[k + 1]
         /\ Len(Tail(s)) = Len(s) - 1
OBVIOUS

LEMMA TopChanged ==
  ASSUME NEW s \in Seq(Frames), s # << >>, NEW f \in Frames, NEW t, t = <<f>> \o Tail(s)
  PROVE  /\ Len(t) = Len(s) /\ t[1] = f
         /\ \A k \in 1 .. Len(s) : k = 1 \/ t[k] = s[k]
<1>1. Tail(s) \in Seq(Frames)
  OBVIOUS
<1>2. /\ Len(t) = Len(Tail(s)) + 1 /\ t[1] = f
      /\ \A k \in 1 .. Len(t) : k = 1 \/ (k - 1 \in 1 .. Len(Tail(s)) /\ t[k] = Tail(s)[k - 1])
  BY <1>1, Pushed
<1>3. /\ Len(Tail(s)) = Len(s) - 1 /\ Len(s) \in Nat
      /\ \A k \in 1 .. Len(Tail(s)) : Tail(s)[k] = s[k + 1]
  BY Popped
<1>4. QED
  BY <1>2, <1>3

(* stack' is the stack, or what lies under its top, with fewer items to    *)
(* visit.                                                                  *)
Fewer(n) ==
  \A k \in 1 .. Len(stack') :
    /\ k + n \in 1 .. Len(stack)
    /\ stack'[k].id = stack[k + n].id
    /\ stack'[k].dir = stack[k + n].dir
    /\ stack'[k].todo \subseteq stack[k + n].todo

LEMMA FewerSame == ASSUME TypeOK, stack' = stack PROVE Fewer(0)
<1>1. Len(stack) \in Nat
  BY DEF TypeOK
<1>2. QED
  BY <1>1 DEF Fewer

LEMMA FewerTail == ASSUME TypeOK, stack # << >>, stack' = Tail(stack) PROVE Fewer(1)
<1>1. stack \in Seq(Frames)
  BY DEF TypeOK
<1>2. QED
  BY <1>1, Popped DEF Fewer

LEMMA FewerTop ==
  ASSUME TypeOK, stack # << >>, NEW todo \in SUBSET Innermost.todo,
         stack' = <<[Innermost EXCEPT !.todo = todo]>> \o Tail(stack)
  PROVE  /\ Fewer(0) /\ Len(stack') = Len(stack)
         /\ stack'[1].todo = todo
         /\ \A k \in 1 .. Len(stack) : k = 1 \/ stack'[k] = stack[k]
<1>1. stack \in Seq(Frames) /\ Innermost = stack[1] /\ Innermost \in Frames /\ Len(stack) \in Nat
  BY Popped, PopType DEF TypeOK, Innermost
<1>2. PICK f : f = [Innermost EXCEPT !.todo = todo]
  OBVIOUS
<1>3. f \in Frames /\ f.id = Innermost.id /\ f.dir = Innermost.dir /\ f.todo = todo
  BY <1>1, <1>2 DEF Frames
<1>4. /\ Len(stack') = Len(stack) /\ stack'[1] = f
      /\ \A k \in 1 .. Len(stack) : k = 1 \/ stack'[k] = stack[k]
  BY <1>1, <1>2, <1>3, TopChanged
<1>5. ASSUME NEW k \in 1 .. Len(stack')
      PROVE  /\ k + 0 \in 1 .. Len(stack)
             /\ stack'[k].id = stack[k + 0].id
             /\ stack'[k].dir = stack[k + 0].dir
             /\ stack'[k].todo \subseteq stack[k + 0].todo
  <2>1. k \in 1 .. Len(stack) /\ k + 0 = k
    BY <1>1, <1>4
  <2>2. CASE k = 1
    BY <1>1, <1>3, <1>4, <2>1, <2>2
  <2>3. CASE k # 1
    BY <1>4, <2>1, <2>3
  <2>4. QED
    BY <2>2, <2>3
<1>6. QED
  BY <1>3, <1>4, <1>5 DEF Fewer

(* Returning from activations and passing over items, while no entry is    *)
(* written, leaves the activations in order.                               *)
LEMMA ActivationsStay ==
  ASSUME ActivationsOK, TypeOK, NEW n \in {0, 1}, Fewer(n),
         work'.entry = work.entry, UNCHANGED <<path, sid>>,
         pc' \in BusyPoints => pc \in BusyPoints /\ cur' = cur
  PROVE  ActivationsOK'
<1> DEFINE Stands(id, dir) == StandsFor(EntriesOf(work, sid), path.place, id, dir)
<1>1. /\ Len(stack) \in Nat
      /\ EntriesOf(work', sid') = EntriesOf(work, sid)
  BY DEF TypeOK, EntriesOf
<1>2. \A id, dir : StandsFor(EntriesOf(work', sid'), path'.place, id, dir) <=> Stands(id, dir)
  BY <1>1
<1> HIDE DEF Stands
<1>3. ASSUME NEW k \in 1 .. Len(stack')
      PROVE  /\ StandsFor(EntriesOf(work', sid'), path'.place, stack'[k].id, stack'[k].dir)
             /\ stack'[k].todo \subseteq Children(stack'[k].dir)
             /\ \A e \in EntriesOf(work', sid') : e.item \notin stack'[k].todo
  <2>1. PICK j \in 1 .. Len(stack) :
          /\ stack'[k].id = stack[j].id
          /\ stack'[k].dir = stack[j].dir
          /\ stack'[k].todo \subseteq stack[j].todo
    BY DEF Fewer
  <2>2. /\ Stands(stack[j].id, stack[j].dir)
        /\ stack[j].todo \subseteq Children(stack[j].dir)
        /\ \A e \in EntriesOf(work, sid) : e.item \notin stack[j].todo
    BY DEF ActivationsOK, Stands
  <2>3. StandsFor(EntriesOf(work', sid'), path'.place, stack'[k].id, stack'[k].dir)
    BY <1>2, <2>1, <2>2
  <2>4. QED
    BY <1>1, <2>1, <2>2, <2>3
<1>4. ASSUME NEW j \in 1 .. Len(stack'), NEW k \in 1 .. Len(stack'), stack'[j].dir = stack'[k].dir
      PROVE  j = k
  <2>1. /\ j + n \in 1 .. Len(stack) /\ k + n \in 1 .. Len(stack)
        /\ stack[j + n].dir = stack[k + n].dir
    BY <1>4 DEF Fewer
  <2>2. j + n = k + n
    BY <2>1 DEF ActivationsOK
  <2>3. QED
    BY <2>2
<1>5. ASSUME pc' \in BusyPoints
      PROVE  /\ StandsFor(EntriesOf(work', sid'), path'.place, cur'.id, cur'.item)
             /\ \A k \in 1 .. Len(stack') : stack'[k].dir # cur'.item
             /\ \A e \in EntriesOf(work', sid') : Under[e.item] # cur'.item
  <2>1. /\ Stands(cur.id, cur.item)
        /\ \A k \in 1 .. Len(stack) : stack[k].dir # cur.item
        /\ \A e \in EntriesOf(work, sid) : Under[e.item] # cur.item
    BY <1>5 DEF ActivationsOK, Stands
  <2>2. StandsFor(EntriesOf(work', sid'), path'.place, cur'.id, cur'.item)
    BY <1>2, <1>5, <2>1
  <2>3. \A k \in 1 .. Len(stack') : stack'[k].dir # cur'.item
    BY <1>5, <2>1 DEF Fewer
  <2>4. QED
    BY <1>1, <1>5, <2>1, <2>2, <2>3
<1>6. QED
  BY <1>3, <1>4, <1>5 DEF ActivationsOK

-----------------------------------------------------------------------------
(* The walk writes its tree in one piece.                                  *)

TreeRest ==
  /\ Hangs(disk)
  /\ Hangs(work)
  /\ pc \in WalkPoints \cup {"file"} => intxn
  /\ pc \in WalkPoints => ActivationsOK

LEMMA TreeParts == TreeInv <=> StartInv /\ TreeRest
BY DEF TreeInv, TreeRest

LEMMA HangsWhole ==
  ASSUME NEW db, NEW new, Hangs(db), Whole(db, new)
  PROVE  Hangs(new)
<1>1. \A s : EntriesOf(new, s) \subseteq EntriesOf(db, s)
  BY DEF EntriesOf, Whole
<1>2. ASSUME NEW e \in new.entry, Under[e.item] \notin Places
      PROVE  \E f \in EntriesOf(new, e.source) : f.id = e.parent /\ f.item = Under[e.item]
  <2>1. PICK f \in EntriesOf(db, e.source) : f.id = e.parent /\ f.item = Under[e.item]
    BY <1>2 DEF Hangs, Whole
  <2>2. f \in EntriesOf(new, e.source)
    BY <2>1 DEF EntriesOf, Whole
  <2>3. QED
    BY <2>1, <2>2
<1>3. QED
  BY <1>2 DEF Hangs, Whole

LEMMA HangsSame == ASSUME NEW db, NEW new, new.entry = db.entry, Hangs(db) PROVE Hangs(new)
BY HangsWhole, WholeSame

(* An entry for an item that its tree does not have yet, below an entry of *)
(* that tree or at its root.                                               *)
LEMMA HangsMore ==
  ASSUME NEW db, Hangs(db), NEW id, NEW s, NEW parent, NEW item \in Items, NEW side,
         StandsFor(EntriesOf(db, s), path.place, parent, Under[item]), path.place \in Places,
         \A e \in EntriesOf(db, s) : e.item # item /\ e.item \in Items,
         NEW new, Written(db, new, id, s, parent, item, side)
  PROVE  Hangs(new)
<1> DEFINE row == [id |-> id, source |-> s, parent |-> parent, item |-> item]
<1>1. new.entry = db.entry \cup {row}
  BY DEF Written
<1>2. row.source = s /\ row.parent = parent /\ row.item = item
  OBVIOUS
<1> HIDE DEF row
<1>3. \A t : EntriesOf(db, t) \subseteq EntriesOf(new, t)
  BY <1>1 DEF EntriesOf
<1>4. ASSUME NEW e \in new.entry
      PROVE  IF Under[e.item] \in Places
             THEN e.parent = NoId
             ELSE \E f \in EntriesOf(new, e.source) : f.id = e.parent /\ f.item = Under[e.item]
  <2>1. CASE e \in db.entry
    BY <1>3, <2>1 DEF Hangs
  <2>2. CASE e = row
    <3>1. CASE parent = NoId /\ Under[item] = path.place
      BY <1>2, <2>2, <3>1
    <3>2. CASE \E f \in EntriesOf(db, s) : f.id = parent /\ f.item = Under[item]
      <4>1. Under[item] \notin Places
        BY <3>2, ScanAssumption
      <4>2. QED
        BY <1>2, <1>3, <2>2, <3>2, <4>1
    <3>3. QED
      BY <3>1, <3>2 DEF StandsFor
  <2>3. QED
    BY <1>1, <2>1, <2>2
<1>5. ASSUME NEW e \in new.entry, NEW f \in new.entry, e.source = f.source, e.item = f.item
      PROVE  e = f
  BY <1>1, <1>2, <1>5 DEF Hangs, EntriesOf
<1>6. QED
  BY <1>4, <1>5 DEF Hangs

(* The facts of TreeInv that the steps of the walk use.                    *)
LEMMA WalkTree ==
  ASSUME TreeInv, pc \in WalkPoints \cup {"file"}
  PROVE  /\ TypeOK /\ intxn /\ Hangs(disk) /\ Hangs(work)
         /\ work \in CatalogType /\ path.place \in Places
         /\ \A e \in EntriesOf(work, sid) : e.item \in Items
         /\ pc \in WalkPoints => ActivationsOK
         /\ pc \in WalkPoints \ {"open"} => stack # << >>
<1>1. TypeOK /\ TreeRest
  BY TreeParts, StartParts DEF RowsInv, IInv
<1>2. pc \in WalkPoints \ {"open"} => stack # << >>
  BY TreeParts, StartParts DEF RowsInv, IInv, WalkOK, WalkPoints
<1>3. work \in CatalogType /\ path.place \in Places
  BY <1>1 DEF TypeOK, Paths
<1>4. QED
  BY <1>1, <1>2, <1>3 DEF TreeRest, EntriesOf, CatalogType

(* A step of the walk that writes no entry.                                *)
LEMMA WalkOn ==
  ASSUME TreeInv, pc \in WalkPoints, NEW n \in {0, 1}, Fewer(n),
         work'.entry = work.entry, UNCHANGED <<path, sid>>,
         disk' \in {disk, work},
         pc' \in BusyPoints => pc \in BusyPoints /\ cur' = cur,
         pc' \in WalkPoints \cup {"file"} => intxn'
  PROVE  TreeRest'
<1>1. TypeOK /\ Hangs(disk) /\ Hangs(work) /\ ActivationsOK
  BY WalkTree
<1>2. Hangs(work') /\ Hangs(disk')
  BY <1>1, HangsSame
<1>3. ActivationsOK'
  BY <1>1, ActivationsStay
<1>4. QED
  BY <1>2, <1>3 DEF TreeRest, Hangs

(* Leaving the walk, whatever is rolled back.                              *)
LEMMA WalkOver ==
  ASSUME TreeInv, pc' \notin WalkPoints \cup {"file"}, FromWhole(disk'), FromWhole(work')
  PROVE  TreeRest'
<1>1. Hangs(disk) /\ Hangs(work)
  BY DEF TreeInv
<1>2. Hangs(disk') /\ Hangs(work')
  BY <1>1, HangsWhole DEF FromWhole
<1>3. QED
  BY <1>2 DEF TreeRest, Hangs

(* What the walk knows of an item that the innermost activation lists.     *)
LEMMA ItemIsNew ==
  ASSUME TreeInv, pc = "walk", NEW item \in Innermost.todo
  PROVE  /\ item \in Items /\ item \notin Places
         /\ Under[item] = Innermost.dir
         /\ StandsFor(EntriesOf(work, sid), path.place, Innermost.id, Innermost.dir)
         /\ \A e \in EntriesOf(work, sid) : e.item # item /\ Under[e.item] # item
         /\ Under[item] # item
         /\ \A k \in 1 .. Len(stack) :
              /\ stack[k].dir # item
              /\ item \in stack[k].todo => k = 1
<1>1. /\ TypeOK /\ Hangs(work) /\ path.place \in Places /\ ActivationsOK /\ stack # << >>
      /\ \A e \in EntriesOf(work, sid) : e.item \in Items
  BY WalkTree DEF WalkPoints
<1>2. Innermost = stack[1] /\ 1 \in 1 .. Len(stack)
  BY <1>1, Popped DEF TypeOK, Innermost
<1>3. \A k \in 1 .. Len(stack) :
        /\ StandsFor(EntriesOf(work, sid), path.place, stack[k].id, stack[k].dir)
        /\ stack[k].todo \subseteq Children(stack[k].dir)
        /\ \A e \in EntriesOf(work, sid) : e.item \notin stack[k].todo
  BY <1>1 DEF ActivationsOK
<1>4. \A j, k \in 1 .. Len(stack) : stack[j].dir = stack[k].dir => j = k
  BY <1>1 DEF ActivationsOK
<1>5. item \in Children(Innermost.dir) /\ \A e \in EntriesOf(work, sid) : e.item # item
  BY <1>2, <1>3
<1>6. item \in Items /\ item \notin Places /\ Under[item] = Innermost.dir
  BY <1>5, ScanAssumption DEF Children
<1>7. \A k \in 1 .. Len(stack) : stack[k].dir # item
  BY <1>1, <1>3, <1>5, <1>6 DEF StandsFor
<1>8. \A k \in 1 .. Len(stack) : item \in stack[k].todo => k = 1
  BY <1>2, <1>3, <1>4, <1>6 DEF Children
<1>9. ASSUME NEW e \in EntriesOf(work, sid) PROVE Under[e.item] # item
  <2>1. e \in work.entry /\ e.source = sid
    BY DEF EntriesOf
  <2>2. CASE Under[e.item] \in Places
    BY <1>6, <2>2
  <2>3. CASE \E f \in EntriesOf(work, e.source) : f.id = e.parent /\ f.item = Under[e.item]
    BY <1>5, <2>1, <2>3
  <2>4. QED
    BY <1>1, <2>1, <2>2, <2>3 DEF Hangs
<1>10. QED
  BY <1>2, <1>3, <1>5, <1>6, <1>7, <1>8, <1>9

LEMMA VisitTree ==
  ASSUME TreeInv, pc = "walk", NEW item \in Innermost.todo, NEW id, NEW side, NEW new,
         Written(work, new, id, sid, Innermost.id, item, side),
         work' = new, disk' = disk, intxn' = intxn, UNCHANGED <<path, sid>>,
         pc' = "index", cur' = [id |-> id, item |-> item],
         stack' = <<[Innermost EXCEPT !.todo = @ \ {item}]>> \o Tail(stack)
  PROVE  TreeRest'
<1>1. /\ TypeOK /\ intxn /\ Hangs(disk) /\ Hangs(work) /\ path.place \in Places
      /\ ActivationsOK /\ stack # << >>
      /\ \A e \in EntriesOf(work, sid) : e.item \in Items
  BY WalkTree DEF WalkPoints
<1>2. /\ item \in Items
      /\ Under[item] = Innermost.dir
      /\ StandsFor(EntriesOf(work, sid), path.place, Innermost.id, Innermost.dir)
      /\ \A e \in EntriesOf(work, sid) : e.item # item /\ Under[e.item] # item
      /\ Under[item] # item
      /\ \A k \in 1 .. Len(stack) : stack[k].dir # item /\ (item \in stack[k].todo => k = 1)
  BY ItemIsNew
<1>3. Hangs(new)
  BY <1>1, <1>2, HangsMore
<1>4. /\ Fewer(0) /\ Len(stack') = Len(stack)
      /\ stack'[1].todo = Innermost.todo \ {item}
      /\ \A k \in 1 .. Len(stack) : k = 1 \/ stack'[k] = stack[k]
  <2>1. Innermost \in Frames
    BY <1>1, PopType DEF TypeOK, Innermost
  <2>2. [Innermost EXCEPT !.todo = @ \ {item}]
            = [Innermost EXCEPT !.todo = Innermost.todo \ {item}]
    BY <2>1 DEF Frames
  <2>3. QED
    BY <1>1, <2>2, FewerTop
<1>5. \A k \in 1 .. Len(stack') :
        /\ k \in 1 .. Len(stack)
        /\ stack'[k].id = stack[k].id /\ stack'[k].dir = stack[k].dir
        /\ stack'[k].todo \subseteq stack[k].todo
  <2>1. SUFFICES ASSUME NEW k \in 1 .. Len(stack')
                 PROVE  /\ k \in 1 .. Len(stack)
                        /\ stack'[k].id = stack[k].id /\ stack'[k].dir = stack[k].dir
                        /\ stack'[k].todo \subseteq stack[k].todo
    OBVIOUS
  <2>2. k + 0 = k
    OBVIOUS
  <2>3. QED
    BY <1>4, <2>2 DEF Fewer
<1> DEFINE row == [id |-> id, source |-> sid, parent |-> Innermost.id, item |-> item]
<1>6. row.id = id /\ row.source = sid /\ row.item = item
  OBVIOUS
<1>7. EntriesOf(new, sid) = EntriesOf(work, sid) \cup {row}
  BY <1>6 DEF Written, EntriesOf
<1> HIDE DEF row
<1> DEFINE tree == EntriesOf(new, sid)
<1>8. ASSUME NEW k \in 1 .. Len(stack')
      PROVE  /\ StandsFor(tree, path.place, stack'[k].id, stack'[k].dir)
             /\ stack'[k].todo \subseteq Children(stack'[k].dir)
             /\ \A e \in tree : e.item \notin stack'[k].todo
  <2>1. /\ StandsFor(EntriesOf(work, sid), path.place, stack[k].id, stack[k].dir)
        /\ stack[k].todo \subseteq Children(stack[k].dir)
        /\ \A e \in EntriesOf(work, sid) : e.item \notin stack[k].todo
    BY <1>1, <1>5 DEF ActivationsOK
  <2>2. item \notin stack'[k].todo
    BY <1>2, <1>4, <1>5
  <2>3. StandsFor(tree, path.place, stack'[k].id, stack'[k].dir)
    BY <1>5, <1>7, <2>1 DEF StandsFor
  <2>4. stack'[k].todo \subseteq Children(stack'[k].dir)
    BY <1>5, <2>1
  <2>5. \A e \in tree : e.item \notin stack'[k].todo
    BY <1>5, <1>6, <1>7, <2>1, <2>2
  <2>6. QED
    BY <2>3, <2>4, <2>5
<1>9. \A j, k \in 1 .. Len(stack') : stack'[j].dir = stack'[k].dir => j = k
  <2>1. \A j, k \in 1 .. Len(stack) : stack[j].dir = stack[k].dir => j = k
    BY <1>1 DEF ActivationsOK
  <2>2. \A k \in 1 .. Len(stack') : k \in 1 .. Len(stack) /\ stack'[k].dir = stack[k].dir
    BY <1>5
  <2>3. QED
    BY <2>1, <2>2
<1>10. /\ StandsFor(tree, path.place, cur'.id, cur'.item)
       /\ \A k \in 1 .. Len(stack') : stack'[k].dir # cur'.item
       /\ \A e \in tree : Under[e.item] # cur'.item
  <2>1. cur'.id = id /\ cur'.item = item /\ row \in tree
    BY <1>7
  <2>2. StandsFor(tree, path.place, cur'.id, cur'.item)
    BY <1>6, <2>1 DEF StandsFor
  <2>3. \A k \in 1 .. Len(stack') : stack'[k].dir # cur'.item
    BY <1>2, <1>5, <2>1
  <2>4. \A e \in tree : Under[e.item] # cur'.item
    BY <1>2, <1>6, <1>7, <2>1
  <2>5. QED
    BY <2>2, <2>3, <2>4
<1>11. EntriesOf(work', sid') = tree /\ path' = path
  OBVIOUS
<1> HIDE DEF tree
<1>12. ActivationsOK'
  <2>1. \A k \in 1 .. Len(stack') :
          /\ StandsFor(EntriesOf(work', sid'), path'.place, stack'[k].id, stack'[k].dir)
          /\ stack'[k].todo \subseteq Children(stack'[k].dir)
          /\ \A e \in EntriesOf(work', sid') : e.item \notin stack'[k].todo
    BY <1>8, <1>11
  <2>2. /\ StandsFor(EntriesOf(work', sid'), path'.place, cur'.id, cur'.item)
        /\ \A k \in 1 .. Len(stack') : stack'[k].dir # cur'.item
        /\ \A e \in EntriesOf(work', sid') : Under[e.item] # cur'.item
    BY <1>10, <1>11
  <2>3. QED
    BY <1>9, <2>1, <2>2 DEF ActivationsOK
<1>13. QED
  BY <1>1, <1>3, <1>12 DEF TreeRest, Hangs

(* A statement of the walk whose failure aborts nothing.                   *)
LEMMA HarmlessFailure ==
  ASSUME NEW statement, statement \notin Aborting, intxn,
         Fails(statement) \/ CommitFails(statement) \/ UNCHANGED dbVars
  PROVE  UNCHANGED <<disk, work, intxn>>
BY DEF Fails, RolledBack, CommitFails, dbVars

LEMMA IndexKeepsEntries ==
  ASSUME NEW db \in CatalogType, NEW id
  PROVE  InsertFts(db, id).entry = db.entry /\ InsertSide(db, id).entry = db.entry
BY DEF CatalogType, InsertFts, InsertSide

LEMMA NextTree ==
  ASSUME Aborting \cap {"entry", "fts", "side", "batch"} = {}, TreeInv, [Next]_vars
  PROVE  TreeRest'
<1> USE DEF WalkPoints, BusyPoints
<1>1. /\ TypeOK /\ TreeRest /\ StartRest /\ RowsInv /\ StartInv
      /\ work \in CatalogType /\ path.place \in Places
  BY TreeParts, StartParts DEF RowsInv, IInv, TypeOK, Paths
<1>2. CASE BeginScan
  <2>1. /\ pc = "begin" /\ work' = work /\ disk' = disk /\ intxn'
        /\ pc' \in {"file", "open", "failed"} /\ UNCHANGED <<path, sid, stack, cur>>
    BY <1>2 DEF BeginScan, jobVars, walkVars
  <2>2. stack = << >> /\ cur = AtRoot /\ EntriesOf(work, sid) = {}
    BY <1>1, <2>1 DEF StartRest, StartPoints
  <2>3. StandsFor(EntriesOf(work', sid'), path'.place, cur'.id, cur'.item)
    BY <2>1, <2>2 DEF StandsFor, AtRoot
  <2>4. /\ \A k : k \notin 1 .. Len(stack')
        /\ EntriesOf(work', sid') = {}
    BY <2>1, <2>2
  <2>5. ActivationsOK'
    BY <2>3, <2>4 DEF ActivationsOK
  <2>6. QED
    BY <1>1, <2>1, <2>5 DEF TreeRest, Hangs
<1>3. CASE OpenDirectory
  <2>1. /\ pc = "open" /\ pc' = "walk" /\ UNCHANGED <<disk, work, intxn, path, sid>>
    BY <1>3 DEF OpenDirectory, dbVars, jobVars
  <2>2. PICK todo \in SUBSET Children(cur.item) :
          stack' = <<[id |-> cur.id, dir |-> cur.item, todo |-> todo]>> \o stack
    <3>1. PICK todo \in {Children(cur.item), {}} :
            stack' = <<[id |-> cur.id, dir |-> cur.item, todo |-> todo]>> \o stack
      BY <1>3 DEF OpenDirectory
    <3>2. QED
      BY <3>1
  <2>3. PICK f : f = [id |-> cur.id, dir |-> cur.item, todo |-> todo]
    OBVIOUS
  <2>4. f \in Frames /\ stack \in Seq(Frames) /\ f.id = cur.id /\ f.dir = cur.item /\ f.todo = todo
    BY <1>1, <2>3 DEF TypeOK, Cursor, Frames, Children
  <2>5. /\ stack'[1] = f
        /\ \A k \in 1 .. Len(stack') :
             k = 1 \/ (k - 1 \in 1 .. Len(stack) /\ stack'[k] = stack[k - 1])
    BY <2>2, <2>3, <2>4, Pushed
  <2>6. intxn /\ ActivationsOK
    BY <1>1, <2>1 DEF TreeRest
  <2>7. /\ StandsFor(EntriesOf(work, sid), path.place, f.id, f.dir)
        /\ f.todo \subseteq Children(f.dir)
        /\ \A e \in EntriesOf(work, sid) : e.item \notin f.todo
        /\ \A k \in 1 .. Len(stack) : stack[k].dir # f.dir
    BY <2>1, <2>4, <2>6 DEF ActivationsOK, Children
  <2>8. \A k \in 1 .. Len(stack') :
          /\ StandsFor(EntriesOf(work', sid'), path'.place, stack'[k].id, stack'[k].dir)
          /\ stack'[k].todo \subseteq Children(stack'[k].dir)
          /\ \A e \in EntriesOf(work', sid') : e.item \notin stack'[k].todo
    BY <2>1, <2>5, <2>6, <2>7 DEF ActivationsOK
  <2>9. ASSUME NEW j \in 1 .. Len(stack'), NEW k \in 1 .. Len(stack'),
               stack'[j].dir = stack'[k].dir
        PROVE  j = k
    <3>1. CASE j = 1 \/ k = 1
      BY <2>5, <2>7, <2>9, <3>1
    <3>2. CASE j # 1 /\ k # 1
      <4>1. j - 1 = k - 1
        BY <2>5, <2>6, <2>9, <3>2 DEF ActivationsOK
      <4>2. QED
        BY <4>1
    <3>3. QED
      BY <3>1, <3>2
  <2>10. ActivationsOK'
    BY <2>1, <2>8, <2>9 DEF ActivationsOK
  <2>11. QED
    BY <1>1, <2>1, <2>6, <2>10 DEF TreeRest, Hangs
<1>4. CASE LoseListing
  <2>1. /\ pc = "walk" /\ UNCHANGED <<disk, work, intxn, pc, path, sid>> /\ stack # << >> /\ intxn
        /\ stack' = <<[Innermost EXCEPT !.todo = {}]>> \o Tail(stack)
    BY <1>4, WalkTree DEF LoseListing, dbVars, jobVars
  <2>2. Fewer(0)
    BY <1>1, <2>1, FewerTop
  <2>3. QED
    BY <2>1, <2>2, WalkOn
<1>5. CASE VisitEntry
  <2>1. pc = "walk" /\ stack # << >> /\ intxn /\ UNCHANGED <<path, sid>>
    BY <1>5, WalkTree DEF VisitEntry, jobVars
  <2>2. PICK item \in Innermost.todo :
          /\ stack' = <<[Innermost EXCEPT !.todo = @ \ {item}]>> \o Tail(stack)
          /\ \/ \E id :
                  /\ Run(InsertEntry(work, id, sid, Innermost.id, item))
                  /\ cur' = [id |-> id, item |-> item]
                  /\ pc' = "index"
             \/ /\ UNCHANGED dbVars \/ Fails("entry")
                /\ UNCHANGED <<pc, cur>>
    BY <1>5 DEF VisitEntry
  <2>3. ASSUME NEW id, Run(InsertEntry(work, id, sid, Innermost.id, item)),
               cur' = [id |-> id, item |-> item], pc' = "index"
        PROVE  TreeRest'
    <3>1. PICK new : new = InsertEntry(work, id, sid, Innermost.id, item)
      OBVIOUS
    <3>2. Written(work, new, id, sid, Innermost.id, item, {})
      BY <1>1, <3>1, InsertEntryWrites
    <3>3. work' = new /\ disk' = disk /\ intxn' = intxn
      BY <2>1, <2>3, <3>1 DEF Run
    <3>4. QED
      BY <2>1, <2>2, <2>3, <3>2, <3>3, VisitTree
  <2>4. CASE (UNCHANGED dbVars \/ Fails("entry")) /\ UNCHANGED <<pc, cur>>
    <3>1. UNCHANGED <<disk, work, intxn>>
      BY <2>1, <2>4, HarmlessFailure
    <3>2. [Innermost EXCEPT !.todo = @ \ {item}]
            = [Innermost EXCEPT !.todo = Innermost.todo \ {item}]
      BY <1>1, <2>1, PopType DEF TypeOK, Innermost, Frames
    <3>3. Fewer(0)
      BY <1>1, <2>1, <2>2, <3>2, FewerTop
    <3>4. QED
      BY <2>1, <2>4, <3>1, <3>3, WalkOn
  <2>5. QED
    BY <2>2, <2>3, <2>4
<1>6. CASE IndexEntry
  <2>1. /\ pc = "index" /\ pc' \in {"batch", "entry"} /\ intxn
        /\ UNCHANGED <<path, sid, stack, cur>>
    BY <1>6, WalkTree DEF IndexEntry, jobVars
  <2>2. disk' = disk /\ intxn' = intxn /\ work'.entry = work.entry
    <3>1. CASE Run(InsertFts(work, cur.id))
      BY <1>1, <2>1, <3>1, IndexKeepsEntries DEF Run
    <3>2. CASE UNCHANGED dbVars \/ Fails("fts")
      BY <2>1, <3>2, HarmlessFailure
    <3>3. QED
      BY <1>6, <3>1, <3>2 DEF IndexEntry
  <2>3. QED
    BY <1>1, <2>1, <2>2, FewerSame, WalkOn
<1>7. CASE CommitBatch
  <2>1. /\ pc = "batch" /\ pc' \in {"entry", "unwind"} /\ intxn
        /\ UNCHANGED <<path, sid, stack, cur>>
    BY <1>7, WalkTree DEF CommitBatch, jobVars, walkVars
  <2>2. disk' \in {disk, work} /\ intxn' = intxn /\ work' = work
    BY <1>7, <2>1, HarmlessFailure DEF CommitBatch
  <2>3. QED
    BY <1>1, <2>1, <2>2, FewerSame, WalkOn
<1>8. CASE FinishEntry
  <2>1. /\ pc = "entry" /\ pc' \in {"open", "walk"} /\ UNCHANGED <<path, sid, stack, cur>> /\ intxn
    BY <1>8, WalkTree DEF FinishEntry, jobVars, walkVars
  <2>2. disk' = disk /\ intxn' = intxn /\ work'.entry = work.entry
    <3>1. CASE Run(InsertSide(work, cur.id))
      BY <1>1, <2>1, <3>1, IndexKeepsEntries DEF Run
    <3>2. CASE UNCHANGED dbVars \/ Fails("side")
      BY <2>1, <3>2, HarmlessFailure
    <3>3. QED
      BY <1>8, <3>1, <3>2 DEF FinishEntry
  <2>3. QED
    BY <1>1, <2>1, <2>2, FewerSame, WalkOn
<1>9. CASE LeaveDirectory \/ LeaveOnError
  <2>1. /\ pc \in {"walk", "unwind"} /\ pc' \in {"walk", "commit", "failed"} /\ stack # << >>
        /\ stack' = Tail(stack) /\ UNCHANGED <<disk, work, intxn, path, sid>> /\ intxn
    BY <1>9, WalkTree DEF LeaveDirectory, LeaveOnError, AfterReturn, Outer, dbVars, jobVars
  <2>2. Fewer(1)
    BY <1>1, <2>1, FewerTail
  <2>3. QED
    BY <2>1, <2>2, WalkOn
<1>10. CASE StopWalk
  <2>1. pc' = "cancelled" /\ disk' = disk /\ work' = work
    BY <1>10 DEF StopWalk, dbVars
  <2>2. QED
    BY <2>1, WalkOver, WholeSame DEF FromWhole
<1>11. CASE ScanFile
  <2>1. pc = "file" /\ pc' \in {"commit", "failed"} /\ intxn /\ EntriesOf(work, sid) = {}
    BY <1>1, <1>11, WalkTree DEF ScanFile, StartRest
  <2>2. ASSUME NEW id, NEW item \in Children(path.place), NEW side,
               Run([InsertEntry(work, id, sid, NoId, item) EXCEPT !.side = @ \cup side])
        PROVE  TreeRest'
    <3>1. PICK new : new = [InsertEntry(work, id, sid, NoId, item) EXCEPT !.side = @ \cup side]
      OBVIOUS
    <3>2. Written(work, new, id, sid, NoId, item, side)
      BY <1>1, <3>1, InsertEntryWrites
    <3>3. work' = new /\ disk' = disk
      BY <2>1, <2>2, <3>1 DEF Run
    <3>4. item \in Items /\ StandsFor(EntriesOf(work, sid), path.place, NoId, Under[item])
      BY DEF Children, StandsFor
    <3>5. Hangs(work)
      BY <1>1 DEF TreeRest
    <3>6. Hangs(new)
      BY <1>1, <2>1, <3>2, <3>4, <3>5, HangsMore
    <3>7. QED
      BY <1>1, <2>1, <3>3, <3>6 DEF TreeRest, Hangs
  <2>3. CASE Fails("entry") \/ Fails("side")
    <3>1. disk' = disk /\ work' = work
      BY <2>1, <2>3, HarmlessFailure
    <3>2. QED
      BY <2>1, <3>1, WalkOver, WholeSame DEF FromWhole
  <2>4. QED
    BY <1>11, <2>2, <2>3 DEF ScanFile, Fails
<1>12. CASE CommitScan
  <2>1. pc' = "switch" /\ disk' \in {disk, work} /\ work' \in {work, disk}
    BY <1>12 DEF CommitScan, Commits, CommitFails, Fails, RolledBack, dbVars
  <2>2. QED
    BY <2>1, WalkOver, WholeSame DEF FromWhole
<1>13. CASE ~WalkAction
  <2>1. FromWhole(disk') /\ FromWhole(work')
    BY <1>1, <1>13, OtherEntries
  <2>2. CASE pc' \notin WalkPoints \cup {"file"}
    BY <2>1, <2>2, WalkOver
  <2>3. CASE UNCHANGED <<disk, work, intxn, pc, path, sid, stack, cur>>
    <3>1. UNCHANGED ActivationsOK
      BY <2>3 DEF ActivationsOK
    <3>2. QED
      BY <1>1, <2>3, <3>1 DEF TreeRest, Hangs
  <2>4. CASE Interrupt \/ Rest \/ UNCHANGED vars
    BY <2>3, <2>4 DEF Interrupt, Rest, vars, dbVars, jobVars, walkVars
  <2>5. QED
    BY <1>13, <2>2, <2>4
       DEF Next, ScannerStep, WalkAction, StartScan, Recover, LookUp, CreateSource, CreateScan,
           CancelFirstScan, CancelReplacement, FailScan, RemoveOld, CloseScan, CommitSwitch,
           DropAfterSwitch, Finish, Crash, Return, AfterSwitchError
<1>14. QED
  BY <1>2, <1>3, <1>4, <1>5, <1>6, <1>7, <1>8, <1>9, <1>10, <1>11, <1>12, <1>13 DEF WalkAction

(* Every tree in the file hangs together at every moment, the one a scan   *)
(* has cut off at a batch boundary included: each entry's parent is the    *)
(* entry of its folder, and no item is there twice.  The premise is the    *)
(* code's blind spot: a statement of the walk whose failure makes SQLite   *)
(* roll the transaction back takes the folders away under the walk.        *)
THEOREM TreesAreWhole ==
  ASSUME Aborting \cap {"entry", "fts", "side", "batch"} = {}
  PROVE  Spec => []TreesHangTogether
<1>1. Init => TreeInv
  BY InitStart, TreeParts
     DEF Init, TreeRest, Hangs, EmptyCatalog, WalkPoints
<1>2. TreeInv /\ [Next]_vars => TreeInv'
  <2>1. StartInv' /\ TreeRest' => TreeInv'
    BY DEF TreeInv, TreeRest
  <2>2. QED
    BY <2>1, NextStartInv, NextTree, TreeParts
<1>3. TreeInv => TreesHangTogether
  BY DEF TreeInv, Hangs, TreesHangTogether
<1>4. QED
  BY <1>1, <1>2, <1>3, PTL DEF Spec

-----------------------------------------------------------------------------
(* A tree that is finished after a step was finished before, or it is the  *)
(* shadow tree of the scan that has just switched or was cancelled.        *)
Shows == Switches \/ CancelFirstScan

LEMMA NewlySettled ==
  ASSUME IInv, [Next]_vars, NEW place, NEW r \in Settled(disk', place)
  PROVE  \/ r \in Settled(disk, place)
         \/ Shows /\ r = [id |-> sid, path |-> path] /\ place = path.place
<1>1. KeysOK(disk) /\ disk \in CatalogType
  BY DEF IInv, TypeOK
<1>2. PICK y \in disk'.scan : y.source = r.id /\ y.status # "InProgress"
  BY SettledRows
<1>3. r \in disk'.source /\ r.path.place = place
  BY SettledRows
<1>4. CASE r \in disk.source /\ y \in disk.scan
  BY <1>2, <1>3, <1>4, SettledRows
<1>5. CASE disk'.source = disk.source /\ disk'.scan = disk.scan
  BY <1>3, <1>4, <1>5
<1>6. CASE StartScan \/ LookUp \/ Finish \/ Crash \/ MovesOn \/ Pauses
  BY <1>5, <1>6 DEF StartScan, LookUp, Finish, Crash, MovesOn, Pauses, Return, SameRecords, dbVars
<1>7. CASE Recover
  <2>1. work = disk /\ ~intxn
    BY <1>7 DEF Recover, IInv, ConnectionOK, BeforeRecords
  <2>2. PICK done : disk' = RemoveSources(disk, done)
    BY <1>7, <2>1 DEF Recover, Run
  <2>3. disk'.source \subseteq disk.source /\ disk'.scan \subseteq disk.scan
    BY <1>1, <2>2, RemoveSourcesType
  <2>4. QED
    BY <1>3, <1>4, <2>3
<1>8. CASE CreateSource
  <2>1. CASE Return("error", disk)
    BY <1>5, <2>1 DEF Return
  <2>2. CASE pc' = "newscan"
    <3>1. /\ sid' \notin IdsOf(disk.source)
          /\ disk'.source = disk.source \cup {[id |-> sid', path |-> path]}
          /\ disk'.scan = disk.scan
      BY <1>8, <2>2, CreateSourceRecords DEF Return
    <3>2. r.id # sid'
      BY <1>1, <1>2, <3>1 DEF KeysOK
    <3>3. QED
      BY <1>3, <1>4, <3>1, <3>2
  <2>3. QED
    BY <1>8, <2>1, <2>2, CreateSourceRecords
<1>9. CASE CreateScan
  <2>1. CASE Return("error", disk)
    BY <1>5, <2>1 DEF Return
  <2>2. CASE pc' = "begin"
    <3>1. /\ disk'.source = disk.source
          /\ disk'.scan = disk.scan \cup {[id |-> scid', source |-> sid, status |-> "InProgress"]}
      BY <1>9, <2>2, CreateScanRecords DEF Return
    <3>2. QED
      BY <1>2, <1>3, <1>4, <3>1
  <2>3. QED
    BY <1>9, <2>1, <2>2, CreateScanRecords
<1>10. CASE Drops
  <2>1. PICK content \in {disk, RemoveTree(disk, sid)} : disk' = content
    BY <1>10 DEF Drops, Return
  <2>2. disk'.source \subseteq disk.source /\ disk'.scan \subseteq disk.scan
    BY <2>1, DropRecords
  <2>3. QED
    BY <1>3, <1>4, <2>2
<1>11. CASE Switches
  <2>1. /\ disk'.source \subseteq disk.source
        /\ [id |-> sid, path |-> path] \in disk.source
        /\ \A x \in disk'.scan : x.source # sid => x \in disk.scan
    BY <1>11, SwitchRecords DEF Switches
  <2>2. CASE r.id = sid
    BY <1>1, <1>3, <1>11, <2>1, <2>2 DEF KeysOK, Shows
  <2>3. CASE r.id # sid
    BY <1>2, <1>3, <1>4, <2>1, <2>3
  <2>4. QED
    BY <2>2, <2>3
<1>12. CASE CancelFirstScan
  <2>1. PICK content \in {disk, FinishScan(disk, scid, "Cancelled")} : disk' = content
    BY <1>12 DEF CancelFirstScan, Return
  <2>2. /\ [id |-> sid, path |-> path] \in disk.source
        /\ [id |-> scid, source |-> sid, status |-> "InProgress"] \in disk.scan
    BY <1>12 DEF CancelFirstScan, IInv, RecordsOK, OpenScanPoints, RecordPoints, BeforeRecords,
                 Labels
  <2>3. "Cancelled" \in Statuses
    BY DEF Statuses
  <2>4. CASE content = disk
    BY <1>5, <2>1, <2>4
  <2>5. CASE content = FinishScan(disk, scid, "Cancelled")
    <3>1. /\ content.source = disk.source
          /\ \A z \in content.scan : \E x \in disk.scan :
               z.source = x.source /\ z.status = (IF x.id = scid THEN "Cancelled" ELSE x.status)
      BY <1>1, <2>3, <2>5, FinishScanRecords
    <3>2. PICK x \in disk.scan : /\ x.source = r.id
                                 /\ y.status = (IF x.id = scid THEN "Cancelled" ELSE x.status)
      BY <1>2, <2>1, <3>1
    <3>3. CASE x.id = scid
      BY <1>1, <1>3, <1>12, <2>1, <2>2, <3>1, <3>2, <3>3 DEF KeysOK, Shows
    <3>4. CASE x.id # scid
      BY <1>2, <1>3, <2>1, <3>1, <3>2, <3>4, SettledRows
    <3>5. QED
      BY <3>3, <3>4
  <2>6. QED
    BY <2>1, <2>4, <2>5
<1>13. QED
  BY <1>6, <1>7, <1>8, <1>9, <1>10, <1>11, <1>12, NextByRecords

-----------------------------------------------------------------------------
(* The full-text rows                                                      *)

ShadowIsIndexed ==
  pc \in RecordPoints /\ path.place \notin FilePlaces =>
    ShadowIndexed(work, Indexing) /\ (intxn => ShadowIndexed(disk, {}))

LEMMA IndexParts == IndexInv <=> StartInv /\ SettledTreesAreIndexed /\ ShadowIsIndexed
BY DEF IndexInv, ShadowIsIndexed

(* What is left is, as far as the index goes, what one of the two contents *)
(* has been before.                                                        *)
IndexedFrom(new) ==
  \/ new.entry = work.entry /\ new.fts = work.fts
  \/ new.entry = disk.entry /\ new.fts = disk.fts

LEMMA IndexedOn ==
  ASSUME ShadowIsIndexed, IInv, pc \in RecordPoints \ {"index"}, UNCHANGED <<path, sid>>,
         IndexedFrom(disk'), IndexedFrom(work')
  PROVE  ShadowIsIndexed'
<1>1. SUFFICES ASSUME path.place \notin FilePlaces
               PROVE  ShadowIndexed(work, Indexing)' /\ ShadowIndexed(disk, {})'
  BY DEF ShadowIsIndexed
<1>2. ShadowIndexed(work, {}) /\ ShadowIndexed(disk, {})
  BY <1>1 DEF ShadowIsIndexed, Indexing, IInv, ConnectionOK
<1>3. ShadowIndexed(disk, {})'
  BY <1>2 DEF ShadowIndexed, EntriesOf, IndexedFrom
<1>4. ShadowIndexed(work, Indexing)'
  BY <1>2 DEF ShadowIndexed, EntriesOf, IndexedFrom
<1>5. QED
  BY <1>3, <1>4

LEMMA NextShadowIndexed ==
  ASSUME "fts" \notin Failing \cup Aborting, IndexInv, [Next]_vars
  PROVE  ShadowIsIndexed'
<1> USE DEF RecordPoints, BeforeRecords, Labels
<1>1. /\ StartInv /\ ShadowIsIndexed /\ IInv /\ TypeOK /\ StartRest /\ RowsInv
      /\ work \in CatalogType /\ disk \in CatalogType
  BY IndexParts, StartParts DEF RowsInv, IInv, TypeOK
<1>2. CASE pc' \notin RecordPoints
  BY <1>2 DEF ShadowIsIndexed
<1>3. CASE StartScan \/ Recover \/ LookUp \/ Crash \/ Finish \/ CancelFirstScan
           \/ CancelReplacement \/ FailScan \/ DropAfterSwitch
  BY <1>2, <1>3 DEF StartScan, Recover, LookUp, Crash, Finish, CancelFirstScan, CancelReplacement,
                    FailScan, DropAfterSwitch, Return
<1>4. CASE CreateSource
  <2>1. CASE Return("error", disk)
    BY <1>2, <2>1 DEF Return
  <2>2. CASE pc' = "newscan"
    <3>1. EntriesOf(work', sid') = {}
      BY <1>1, <2>2, NextStart DEF StartRest
    <3>2. ~intxn'
      BY <1>1, <1>4, <2>2 DEF CreateSource, Run, Return, IInv, ConnectionOK
    <3>3. QED
      BY <3>1, <3>2 DEF ShadowIsIndexed, ShadowIndexed
  <2>3. QED
    BY <1>4, <2>1, <2>2 DEF CreateSource
<1>5. CASE CreateScan
  <2>1. CASE Return("error", disk)
    BY <1>2, <2>1 DEF Return
  <2>2. CASE pc' = "begin"
    <3>1. EntriesOf(work', sid') = {}
      BY <1>1, <2>2, NextStart DEF StartRest
    <3>2. ~intxn'
      BY <1>1, <1>5, <2>2 DEF CreateScan, Run, Return, IInv, ConnectionOK
    <3>3. QED
      BY <3>1, <3>2 DEF ShadowIsIndexed, ShadowIndexed
  <2>3. QED
    BY <1>5, <2>1, <2>2 DEF CreateScan
<1>6. ASSUME pc \in RecordPoints \ {"index"}, UNCHANGED <<path, sid>>,
             disk' \in {disk, work}, work' \in {disk, work}
      PROVE  ShadowIsIndexed'
  BY <1>1, <1>6, IndexedOn DEF IndexedFrom
<1>7. CASE BeginScan \/ OpenDirectory \/ LoseListing \/ CommitBatch \/ LeaveDirectory
           \/ LeaveOnError \/ StopWalk \/ CommitScan \/ CommitSwitch
  <2>1. pc \in RecordPoints \ {"index"} /\ UNCHANGED <<path, sid>>
    BY <1>7 DEF BeginScan, OpenDirectory, LoseListing, CommitBatch, LeaveDirectory, LeaveOnError,
                StopWalk, CommitScan, CommitSwitch, jobVars
  <2>2. disk' \in {disk, work} /\ work' \in {disk, work}
    BY <1>7 DEF BeginScan, OpenDirectory, LoseListing, CommitBatch, LeaveDirectory, LeaveOnError,
                StopWalk, CommitScan, CommitSwitch, Commits, CommitFails, Fails, RolledBack, dbVars
  <2>3. QED
    BY <1>6, <2>1, <2>2
<1>8. CASE VisitEntry
  <2>1. /\ pc = "walk" /\ UNCHANGED <<path, sid>>
    BY <1>8 DEF VisitEntry, jobVars
  <2>2. CASE UNCHANGED dbVars \/ Fails("entry")
    <3>1. disk' \in {disk, work} /\ work' \in {disk, work}
      BY <2>2 DEF Fails, RolledBack, dbVars
    <3>2. QED
      BY <1>6, <2>1, <3>1
  <2>3. ASSUME NEW item, NEW id, Run(InsertEntry(work, id, sid, Innermost.id, item)),
               cur' = [id |-> id, item |-> item], pc' = "index", path.place \notin FilePlaces
        PROVE  ShadowIsIndexed'
    <3>1. PICK new : new = InsertEntry(work, id, sid, Innermost.id, item)
      OBVIOUS
    <3>2. Written(work, new, id, sid, Innermost.id, item, {})
      BY <1>1, <3>1, InsertEntryWrites
    <3>3. \A e \in EntriesOf(new, sid) : e \in EntriesOf(work, sid) \/ e.id = id
      BY <3>2 DEF Written, EntriesOf
    <3>4. ShadowIndexed(work, {}) /\ (intxn => ShadowIndexed(disk, {}))
      BY <1>1, <2>1, <2>3 DEF ShadowIsIndexed, Indexing
    <3>5. new.fts = work.fts
      BY <3>2 DEF Written
    <3>6. \A e \in EntriesOf(new, sid) : e.id \in new.fts \cup {id}
      BY <3>3, <3>4, <3>5 DEF ShadowIndexed
    <3>7. work' = new /\ intxn' = intxn /\ (intxn => disk' = disk) /\ cur'.id = id
      BY <2>3, <3>1 DEF Run
    <3>8. ShadowIndexed(work, Indexing)'
      BY <2>1, <2>3, <3>6, <3>7 DEF ShadowIndexed, Indexing
    <3>9. intxn' => ShadowIndexed(disk, {})'
      BY <2>1, <3>4, <3>7 DEF ShadowIndexed
    <3>10. QED
      BY <3>8, <3>9 DEF ShadowIsIndexed
  <2>4. CASE path.place \in FilePlaces
    BY <2>1, <2>4 DEF ShadowIsIndexed
  <2>5. QED
    BY <1>8, <2>2, <2>3, <2>4 DEF VisitEntry
<1>9. CASE IndexEntry
  <2>1. /\ pc = "index" /\ pc' # "index" /\ UNCHANGED <<path, sid>>
    BY <1>9 DEF IndexEntry, jobVars
  <2>2. PICK new : /\ new.entry = work.entry /\ new.fts = work.fts \cup {cur.id}
                   /\ work' = new /\ intxn' = intxn /\ (intxn => disk' = disk)
    <3>1. CASE Run(InsertFts(work, cur.id))
      <4>1. PICK new : new = InsertFts(work, cur.id)
        OBVIOUS
      <4>2. new.entry = work.entry /\ new.fts = work.fts \cup {cur.id}
        BY <1>1, <4>1 DEF InsertFts, CatalogType
      <4>3. QED
        BY <3>1, <4>1, <4>2 DEF Run
    <3>2. CASE cur.id \in work.fts /\ UNCHANGED dbVars
      BY <3>2 DEF dbVars
    <3>3. ~Fails("fts")
      BY DEF Fails, RolledBack
    <3>4. QED
      BY <1>9, <3>1, <3>2, <3>3 DEF IndexEntry
  <2>3. SUFFICES ASSUME path.place \notin FilePlaces
                 PROVE  ShadowIndexed(work, Indexing)' /\ (intxn => ShadowIndexed(disk, {}))'
    BY <2>1 DEF ShadowIsIndexed
  <2>4. ShadowIndexed(work, {cur.id}) /\ (intxn => ShadowIndexed(disk, {}))
    BY <1>1, <2>1, <2>3 DEF ShadowIsIndexed, Indexing
  <2>5. \A e \in EntriesOf(new, sid) : e.id \in new.fts
    BY <2>2, <2>4 DEF ShadowIndexed, EntriesOf
  <2>6. QED
    BY <2>1, <2>2, <2>4, <2>5 DEF ShadowIndexed
<1>10. CASE FinishEntry
  <2>1. pc = "entry" /\ UNCHANGED <<path, sid>>
    BY <1>10 DEF FinishEntry, jobVars
  <2>2. CASE UNCHANGED dbVars \/ Fails("side")
    <3>1. disk' \in {disk, work} /\ work' \in {disk, work}
      BY <2>2 DEF Fails, RolledBack, dbVars
    <3>2. QED
      BY <1>6, <2>1, <3>1
  <2>3. CASE Run(InsertSide(work, cur.id))
    <3>1. PICK new : new = InsertSide(work, cur.id)
      OBVIOUS
    <3>2. new.entry = work.entry /\ new.fts = work.fts
      BY <1>1, <3>1 DEF InsertSide, CatalogType
    <3>3. work' = new /\ disk' \in {disk, new}
      BY <2>3, <3>1 DEF Run
    <3>4. QED
      BY <1>1, <2>1, <3>2, <3>3, IndexedOn DEF IndexedFrom
  <2>4. QED
    BY <1>10, <2>2, <2>3 DEF FinishEntry
<1>11. CASE ScanFile
  <2>1. path' = path /\ path.place \in FilePlaces
    BY <1>1, <1>11 DEF ScanFile, jobVars, StartRest
  <2>2. QED
    BY <2>1 DEF ShadowIsIndexed
<1>12. CASE RemoveOld
  <2>1. pc = "switch" /\ UNCHANGED <<path, sid>> /\ disk' = disk
    BY <1>12 DEF RemoveOld, jobVars, dbVars
  <2>2. CASE work' \in {work, disk}
    BY <1>6, <2>1, <2>2
  <2>3. CASE work' = RemoveTree(work, old)
    <3>1. EntriesOK(work) /\ sid \in IdsOf(work.source) /\ old # sid
      BY <1>1, <2>1, WalkRows DEF RowsOK, EntryPoints, IInv, RecordsOK
    <3>2. TreesKept(work, work', {old})
      BY <1>1, <2>3, <3>1, RemoveTreeRows
    <3>3. Tree(work', sid) = Tree(work, sid)
      BY <3>1, <3>2 DEF TreesKept
    <3>4. /\ \A e : e.source = sid => (e \in work.entry <=> e \in work'.entry)
          /\ \A e \in work.entry : e.source = sid => (e.id \in work.fts <=> e.id \in work'.fts)
      BY <3>3, TreeRows
    <3>5. ASSUME path.place \notin FilePlaces
          PROVE  ShadowIndexed(work, {}) /\ ShadowIndexed(disk, {})
      BY <1>1, <2>1, <3>5 DEF ShadowIsIndexed, Indexing, IInv, ConnectionOK
    <3>6. QED
      BY <2>1, <3>4, <3>5 DEF ShadowIsIndexed, ShadowIndexed, EntriesOf
  <2>4. QED
    BY <1>12, <2>2, <2>3 DEF RemoveOld, dbVars
<1>13. CASE CloseScan
  <2>1. pc = "close" /\ UNCHANGED <<path, sid>>
    BY <1>13 DEF CloseScan, jobVars
  <2>2. CASE Fails("finish")
    <3>1. disk' \in {disk, work} /\ work' \in {disk, work}
      BY <2>2 DEF Fails, RolledBack, dbVars
    <3>2. QED
      BY <1>6, <2>1, <3>1
  <2>3. ASSUME NEW status, Run(FinishScan(work, scid, status)) PROVE ShadowIsIndexed'
    <3>1. PICK new : new = FinishScan(work, scid, status)
      OBVIOUS
    <3>2. new.entry = work.entry /\ new.fts = work.fts
      BY <1>1, <3>1 DEF FinishScan, CatalogType
    <3>3. work' = new /\ disk' \in {disk, new}
      BY <2>3, <3>1 DEF Run
    <3>4. QED
      BY <1>1, <2>1, <3>2, <3>3, IndexedOn DEF IndexedFrom
  <2>4. QED
    BY <1>13, <2>2, <2>3 DEF CloseScan
<1>14. CASE Interrupt \/ Rest \/ UNCHANGED vars
  <2>1. UNCHANGED <<disk, work, intxn, pc, path, sid, cur>>
    BY <1>14 DEF Interrupt, Rest, vars, dbVars, jobVars, walkVars
  <2>2. QED
    BY <1>1, <2>1 DEF ShadowIsIndexed, ShadowIndexed, Indexing, EntriesOf
<1>15. QED
  BY <1>3, <1>4, <1>5, <1>7, <1>8, <1>9, <1>10, <1>11, <1>12, <1>13, <1>14 DEF Next, ScannerStep

LEMMA NextSettledIndexed ==
  ASSUME IndexInv, [Next]_vars
  PROVE  SettledTreesAreIndexed'
<1>1. /\ RowsInv /\ IInv /\ ShadowIsIndexed /\ SettledTreesAreIndexed /\ disk \in CatalogType
      /\ path.place \in Places
  BY IndexParts, StartParts DEF RowsInv, IInv, TypeOK, Paths
<1>2. SUFFICES ASSUME NEW place \in Places \ FilePlaces, NEW r \in Settled(disk', place)
               PROVE  EntryIdsOf(disk', r.id) \subseteq disk'.fts
  BY DEF SettledTreesAreIndexed
<1>3. CASE r \in Settled(disk, place)
  <2>1. r.id \in SettledIds(disk) \cap SettledIds(disk')
    BY <1>3 DEF Settled
  <2>2. Tree(disk', r.id) = Tree(disk, r.id)
    BY <1>1, <2>1, NextRows DEF Untouched
  <2>3. EntryIdsOf(disk, r.id) \subseteq disk.fts
    BY <1>1, <1>3 DEF SettledTreesAreIndexed
  <2>4. /\ EntriesOf(disk', r.id) = EntriesOf(disk, r.id)
        /\ disk'.fts \cap EntryIdsOf(disk', r.id) = disk.fts \cap EntryIdsOf(disk, r.id)
    BY <2>2 DEF Tree
  <2>5. EntryIdsOf(disk', r.id) = EntryIdsOf(disk, r.id)
    BY <2>4 DEF EntryIdsOf
  <2>6. QED
    BY <2>3, <2>4, <2>5
<1>4. CASE Shows /\ r = [id |-> sid, path |-> path] /\ place = path.place
  <2>1. pc \in {"swcommit", "cancelled"}
    BY <1>4 DEF Shows, Switches, CancelFirstScan
  <2>2. \A e \in EntriesOf(work, sid) : e.id \in work.fts
    BY <1>1, <1>4, <2>1
       DEF ShadowIsIndexed, ShadowIndexed, Indexing, RecordPoints, BeforeRecords, Labels
  <2>3. \A e \in EntriesOf(disk, sid) : e.id \in disk.fts
    BY <1>1, <1>4, <2>1, <2>2
       DEF ShadowIsIndexed, ShadowIndexed, RecordPoints, BeforeRecords, Labels, IInv, ConnectionOK
  <2>4. \/ disk'.entry = work.entry /\ disk'.fts = work.fts
        \/ disk'.entry = disk.entry /\ disk'.fts = disk.fts
    <3>1. CASE Switches
      BY <3>1 DEF Switches
    <3>2. CASE CancelFirstScan
      <4>1. PICK content \in {disk, FinishScan(disk, scid, "Cancelled")} : disk' = content
        BY <3>2 DEF CancelFirstScan, Return
      <4>2. content.entry = disk.entry /\ content.fts = disk.fts
        BY <1>1, <4>1 DEF FinishScan, CatalogType
      <4>3. QED
        BY <4>1, <4>2
    <3>3. QED
      BY <1>4, <3>1, <3>2 DEF Shows
  <2>5. r.id = sid
    BY <1>4
  <2>6. QED
    BY <2>2, <2>3, <2>4, <2>5 DEF EntryIdsOf, EntriesOf, IdsOf
<1>5. QED
  BY <1>1, <1>3, <1>4, NewlySettled

(* Every entry of a finished directory tree is in the full-text index, at  *)
(* every moment.  insert_fts is the statement whose failure the scanner    *)
(* only logs, hence the premise; everything else may fail.                 *)
THEOREM FinishedTreesAreIndexed ==
  ASSUME "fts" \notin Failing \cup Aborting
  PROVE  Spec => []SettledTreesAreIndexed
<1>1. Init => IndexInv
  <2>1. Init => disk.source = {} /\ pc = "idle"
    BY DEF Init, EmptyCatalog
  <2>2. disk.source = {} => SettledTreesAreIndexed
    BY DEF SettledTreesAreIndexed, Settled
  <2>3. pc = "idle" => ShadowIsIndexed
    BY DEF ShadowIsIndexed, RecordPoints, BeforeRecords
  <2>4. QED
    BY <2>1, <2>2, <2>3, InitStart, IndexParts
<1>2. IndexInv /\ [Next]_vars => IndexInv'
  <2>1. StartInv' /\ SettledTreesAreIndexed' /\ ShadowIsIndexed' => IndexInv'
    BY DEF IndexInv, ShadowIsIndexed
  <2>2. QED
    BY <2>1, NextStartInv, NextSettledIndexed, NextShadowIndexed, IndexParts
<1>3. IndexInv => SettledTreesAreIndexed
  BY DEF IndexInv
<1>4. QED
  BY <1>1, <1>2, <1>3, PTL DEF Spec

-----------------------------------------------------------------------------
(* What a completed tree misses                                            *)

WalkAccounts ==
  /\ pc # "unwind"
  /\ pc \in {"index", "batch", "entry"} => cur.item \in Items
  /\ pc \in WalkPoints =>
       \A i \in Listing(path.place) :
         Accounted(i, ItemsOf(work, sid), skipped) \/ Pending(i)
  /\ pc \in ClosePoints /\ (pc = "swcommit" => intxn) =>
       \A i \in Listing(path.place) : Accounted(i, ItemsOf(work, sid), skipped)

LEMMA CompleteParts == CompleteInv <=> TreeInv /\ CompletedIsComplete /\ WalkAccounts
BY DEF CompleteInv, WalkAccounts

LEMMA SameItems ==
  ASSUME NEW db, NEW new, NEW s, new.entry = db.entry
  PROVE  ItemsOf(new, s) = ItemsOf(db, s)
BY DEF ItemsOf, EntriesOf

LEMMA ItemsMore ==
  ASSUME NEW db, NEW new, NEW id, NEW s, NEW parent, NEW item, NEW side,
         Written(db, new, id, s, parent, item, side)
  PROVE  ItemsOf(new, s) = ItemsOf(db, s) \cup {item}
<1> DEFINE row == [id |-> id, source |-> s, parent |-> parent, item |-> item]
<1>1. row.source = s /\ row.item = item /\ new.entry = db.entry \cup {row}
  BY DEF Written
<1> HIDE DEF row
<1>2. EntriesOf(new, s) = EntriesOf(db, s) \cup {row}
  BY <1>1 DEF EntriesOf
<1>3. QED
  BY <1>1, <1>2 DEF ItemsOf

(* A step of the walk that does not touch the stack.                       *)
LEMMA AccountsOn ==
  ASSUME WalkAccounts, pc \in WalkPoints, work'.entry = work.entry,
         UNCHANGED <<path, sid, skipped, stack, cur>>,
         pc' \in WalkPoints \ {"unwind", "index"},
         pc \in BusyPoints => pc' \in BusyPoints \/ \A i \in Items : Under[i] # cur.item,
         pc' \in {"batch", "entry"} => pc \in {"index", "batch"}
  PROVE  WalkAccounts'
<1>1. ItemsOf(work', sid') = ItemsOf(work, sid)
  BY SameItems
<1>2. ASSUME NEW i \in Listing(path.place)
      PROVE  Accounted(i, ItemsOf(work', sid'), skipped') \/ Pending(i)'
  <2>1. Accounted(i, ItemsOf(work, sid), skipped) \/ Pending(i)
    BY DEF WalkAccounts
  <2>2. i \in Items
    BY DEF Listing
  <2>3. Pending(i) => Pending(i)'
    BY <2>2 DEF Pending
  <2>4. QED
    BY <1>1, <2>1, <2>3
<1>3. pc' \notin ClosePoints
  BY DEF ClosePoints, WalkPoints
<1>4. QED
  BY <1>2, <1>3 DEF WalkAccounts

(* A step that goes on to the next point of the end of scan_source.        *)
LEMMA AccountsKept ==
  ASSUME WalkAccounts, pc \in ClosePoints, pc = "swcommit" => intxn,
         pc' \in ClosePoints, UNCHANGED <<path, sid, skipped>>,
         ItemsOf(work', sid) = ItemsOf(work, sid)
  PROVE  WalkAccounts'
<1>1. pc' \notin WalkPoints
  BY DEF ClosePoints, WalkPoints
<1>2. QED
  BY <1>1 DEF WalkAccounts, WalkPoints

LEMMA Elsewhere ==
  ASSUME pc' \notin WalkPoints \cup ClosePoints
  PROVE  WalkAccounts'
BY DEF WalkAccounts, WalkPoints

LEMMA VisitAccounts ==
  ASSUME TreeInv, WalkAccounts, pc = "walk", NEW item \in Innermost.todo, NEW todo,
         todo = Innermost.todo \ {item},
         stack' = <<[Innermost EXCEPT !.todo = todo]>> \o Tail(stack),
         UNCHANGED <<path, sid>>,
         \/ /\ pc' = "index" /\ cur'.item = item /\ skipped' = skipped
            /\ ItemsOf(work', sid) = ItemsOf(work, sid) \cup {item}
         \/ /\ pc' = "walk" /\ skipped' = skipped \cup {item}
            /\ ItemsOf(work', sid) = ItemsOf(work, sid)
  PROVE  WalkAccounts'
<1>1. TypeOK /\ stack # << >> /\ item \in Items
  BY WalkTree, ItemIsNew DEF WalkPoints
<1>2. /\ Fewer(0) /\ Len(stack') = Len(stack) /\ stack'[1].todo = todo
      /\ \A k \in 1 .. Len(stack) : k = 1 \/ stack'[k] = stack[k]
  BY <1>1, FewerTop
<1>3. Innermost = stack[1] /\ 1 \in 1 .. Len(stack)
  BY <1>1, Popped DEF TypeOK, Innermost
<1>4. stack'[1].dir = stack[1].dir
  <2>1. 1 \in 1 .. Len(stack') /\ 1 + 0 = 1
    BY <1>2, <1>3
  <2>2. QED
    BY <1>2, <2>1 DEF Fewer
<1>5. ASSUME NEW i \in Listing(path.place)
      PROVE  Accounted(i, ItemsOf(work', sid'), skipped') \/ Pending(i)'
  <2>1. CASE i = item
    BY <2>1 DEF Accounted
  <2>2. CASE i # item /\ Pending(i)
    <3>1. PICK k \in 1 .. Len(stack) : stack[k].dir = Under[i] /\ i \in stack[k].todo
      BY <2>2 DEF Pending, BusyPoints
    <3>2. stack'[k].dir = Under[i] /\ i \in stack'[k].todo
      BY <1>2, <1>3, <1>4, <2>2, <3>1
    <3>3. QED
      BY <1>2, <3>1, <3>2 DEF Pending
  <2>3. CASE Accounted(i, ItemsOf(work, sid), skipped)
    BY <2>3 DEF Accounted, Pending, BusyPoints
  <2>4. QED
    BY <2>1, <2>2, <2>3 DEF WalkAccounts, WalkPoints
<1>6. QED
  BY <1>1, <1>5 DEF WalkAccounts, ClosePoints

(* The failures that the code does not count: a batch that cannot be       *)
(* committed unwinds the walk, a directory iterator that fails looks like  *)
(* one at its end, and a statement that makes SQLite roll the transaction  *)
(* back takes entries away that were written.                              *)
NothingUncounted ==
  /\ "batch" \notin Failing
  /\ Aborting \cap {"entry", "fts", "side", "batch", "final"} = {}
  /\ "unlistable" \notin Trouble

LEMMA NextAccounts ==
  ASSUME NothingUncounted, CompleteInv, [Next]_vars
  PROVE  WalkAccounts'
<1> USE DEF WalkPoints, BusyPoints, ClosePoints
<1>1. /\ TreeInv /\ WalkAccounts /\ TypeOK /\ StartRest /\ RowsInv /\ IInv
      /\ work \in CatalogType /\ path.place \in Places
  BY CompleteParts, TreeParts, StartParts DEF RowsInv, IInv, TypeOK, Paths
<1>2. pc \in WalkPoints \cup {"file"} => intxn
  BY <1>1, WalkTree
<1>3. CASE BeginScan
  <2>1. /\ pc = "begin" /\ work' = work /\ pc' \in {"file", "open", "failed"}
        /\ UNCHANGED <<path, sid, stack, cur, skipped>>
    BY <1>3 DEF BeginScan, jobVars, walkVars
  <2>2. cur = AtRoot /\ EntriesOf(work, sid) = {}
    BY <1>1, <2>1 DEF StartRest, StartPoints
  <2>3. ItemsOf(work, sid) = {}
    BY <2>2 DEF ItemsOf
  <2>4. ASSUME NEW i \in Listing(path.place), pc' = "open"
        PROVE  Accounted(i, ItemsOf(work', sid'), skipped') \/ Pending(i)'
    <3>1. i \in Items /\ Home[i] = path.place /\ Under[i] \in Items \cup Places
      BY ScanAssumption DEF Listing
    <3>2. CASE Under[i] \in Items
      BY <2>1, <2>3, <3>2 DEF Accounted
    <3>3. CASE Under[i] \in Places
      <4>1. Under[i] = path.place
        BY <3>1, <3>3, FileSystemAssumption
      <4>2. QED
        BY <2>1, <2>2, <2>4, <4>1 DEF Pending, AtRoot
    <3>4. QED
      BY <3>1, <3>2, <3>3
  <2>5. QED
    BY <2>1, <2>4 DEF WalkAccounts
<1>4. CASE OpenDirectory
  <2>1. /\ pc = "open" /\ pc' = "walk" /\ UNCHANGED <<work, path, sid, skipped>>
    BY <1>4 DEF OpenDirectory, dbVars, jobVars
  <2>2. PICK f : /\ f = [id |-> cur.id, dir |-> cur.item, todo |-> Children(cur.item)]
                 /\ stack' = <<f>> \o stack
    BY <1>4 DEF OpenDirectory, NothingUncounted
  <2>3. f \in Frames /\ stack \in Seq(Frames) /\ f.dir = cur.item /\ f.todo = Children(cur.item)
    BY <1>1, <2>2 DEF TypeOK, Cursor, Frames, Children
  <2>4. /\ Len(stack') = Len(stack) + 1 /\ stack'[1] = f
        /\ \A k \in 1 .. Len(stack') :
             k = 1 \/ (k - 1 \in 1 .. Len(stack) /\ stack'[k] = stack[k - 1])
    BY <2>2, <2>3, Pushed
  <2>5. Len(stack) \in Nat
    BY <1>1 DEF TypeOK
  <2>6. \A k \in 1 .. Len(stack) : k + 1 \in 1 .. Len(stack') /\ stack'[k + 1] = stack[k]
    <3>1. SUFFICES ASSUME NEW k \in 1 .. Len(stack)
                   PROVE  k + 1 \in 1 .. Len(stack') /\ stack'[k + 1] = stack[k]
      OBVIOUS
    <3>2. k + 1 \in 1 .. Len(stack') /\ k + 1 # 1 /\ (k + 1) - 1 = k
      BY <2>4, <2>5
    <3>3. QED
      BY <2>4, <3>2
  <2>7. ASSUME NEW i \in Listing(path.place)
        PROVE  Accounted(i, ItemsOf(work', sid'), skipped') \/ Pending(i)'
    <3>1. Accounted(i, ItemsOf(work, sid), skipped) \/ Pending(i)
      BY <1>1, <2>1 DEF WalkAccounts
    <3>2. CASE cur.item = Under[i]
      <4>1. i \in f.todo /\ f.dir = Under[i] /\ 1 \in 1 .. Len(stack')
        BY <2>3, <2>4, <2>5, <3>2 DEF Children, Listing
      <4>2. QED
        BY <2>4, <4>1 DEF Pending
    <3>3. CASE \E k \in 1 .. Len(stack) : stack[k].dir = Under[i] /\ i \in stack[k].todo
      BY <2>6, <3>3 DEF Pending
    <3>4. CASE Accounted(i, ItemsOf(work, sid), skipped)
      BY <2>1, <3>4
    <3>5. QED
      BY <3>1, <3>2, <3>3, <3>4 DEF Pending
  <2>8. QED
    BY <2>1, <2>7 DEF WalkAccounts
<1>5. CASE LoseListing
  BY <1>5 DEF LoseListing, NothingUncounted
<1>6. CASE VisitEntry
  <2>1. pc = "walk" /\ intxn /\ UNCHANGED <<path, sid>> /\ stack # << >>
    BY <1>1, <1>2, <1>6, WalkTree DEF VisitEntry, jobVars
  <2>2. PICK item \in Innermost.todo :
          /\ stack' = <<[Innermost EXCEPT !.todo = @ \ {item}]>> \o Tail(stack)
          /\ \/ \E id :
                  /\ Run(InsertEntry(work, id, sid, Innermost.id, item))
                  /\ cur' = [id |-> id, item |-> item]
                  /\ pc' = "index"
                  /\ UNCHANGED skipped
             \/ /\ UNCHANGED dbVars \/ Fails("entry")
                /\ skipped' = skipped \cup {item}
                /\ UNCHANGED <<pc, cur>>
    BY <1>6 DEF VisitEntry, CountError
  <2>3. [Innermost EXCEPT !.todo = @ \ {item}]
            = [Innermost EXCEPT !.todo = Innermost.todo \ {item}]
    BY <1>1, <2>1, PopType DEF TypeOK, Innermost, Frames
  <2>4. ASSUME NEW id, Run(InsertEntry(work, id, sid, Innermost.id, item)),
               cur' = [id |-> id, item |-> item], pc' = "index", UNCHANGED skipped
        PROVE  WalkAccounts'
    <3>1. PICK new : new = InsertEntry(work, id, sid, Innermost.id, item)
      OBVIOUS
    <3>2. Written(work, new, id, sid, Innermost.id, item, {})
      BY <1>1, <3>1, InsertEntryWrites
    <3>3. ItemsOf(new, sid) = ItemsOf(work, sid) \cup {item}
      BY <3>2, ItemsMore
    <3>4. work' = new
      BY <2>4, <3>1 DEF Run
    <3>5. QED
      BY <1>1, <2>1, <2>2, <2>3, <2>4, <3>3, <3>4, VisitAccounts
  <2>5. CASE /\ UNCHANGED dbVars \/ Fails("entry")
             /\ skipped' = skipped \cup {item}
             /\ UNCHANGED <<pc, cur>>
    <3>1. work' = work
      BY <2>1, <2>5, HarmlessFailure DEF NothingUncounted
    <3>2. ItemsOf(work', sid) = ItemsOf(work, sid)
      BY <3>1
    <3>3. QED
      BY <1>1, <2>1, <2>2, <2>3, <2>5, <3>2, VisitAccounts
  <2>6. QED
    BY <2>2, <2>4, <2>5
<1>7. CASE IndexEntry
  <2>1. /\ pc = "index" /\ pc' \in {"batch", "entry"} /\ intxn
        /\ UNCHANGED <<path, sid, skipped, stack, cur>>
    BY <1>2, <1>7 DEF IndexEntry, jobVars
  <2>2. work'.entry = work.entry
    <3>1. CASE Run(InsertFts(work, cur.id))
      BY <1>1, <3>1, IndexKeepsEntries DEF Run
    <3>2. CASE UNCHANGED dbVars \/ Fails("fts")
      BY <2>1, <3>2, HarmlessFailure DEF NothingUncounted
    <3>3. QED
      BY <1>7, <3>1, <3>2 DEF IndexEntry
  <2>3. QED
    BY <1>1, <2>1, <2>2, AccountsOn
<1>8. CASE CommitBatch
  <2>1. /\ pc = "batch" /\ intxn /\ UNCHANGED <<path, sid, skipped, stack, cur>>
    BY <1>2, <1>8 DEF CommitBatch, jobVars, walkVars
  <2>2. pc' = "entry" /\ work' = work
    BY <1>8, <2>1 DEF CommitBatch, CommitFails, Fails, RolledBack, NothingUncounted
  <2>3. QED
    BY <1>1, <2>1, <2>2, AccountsOn
<1>9. CASE FinishEntry
  <2>1. /\ pc = "entry" /\ intxn /\ UNCHANGED <<path, sid, skipped, stack, cur>>
        /\ pc' = IF cur.item \in Folders THEN "open" ELSE "walk"
    BY <1>2, <1>9 DEF FinishEntry, jobVars, walkVars
  <2>2. work'.entry = work.entry
    <3>1. CASE Run(InsertSide(work, cur.id))
      BY <1>1, <3>1, IndexKeepsEntries DEF Run
    <3>2. CASE UNCHANGED dbVars \/ Fails("side")
      BY <2>1, <3>2, HarmlessFailure DEF NothingUncounted
    <3>3. QED
      BY <1>9, <3>1, <3>2 DEF FinishEntry
  <2>3. cur.item \in Items
    BY <1>1, <2>1 DEF WalkAccounts
  <2>4. cur.item \notin Folders => \A i \in Items : Under[i] # cur.item
    BY <2>3, ScanAssumption
  <2>5. CASE cur.item \in Folders
    BY <1>1, <2>1, <2>2, <2>5, AccountsOn
  <2>6. CASE cur.item \notin Folders
    BY <1>1, <2>1, <2>2, <2>4, <2>6, AccountsOn
  <2>7. QED
    BY <2>5, <2>6
<1>10. CASE LeaveDirectory
  <2>1. /\ pc = "walk" /\ stack # << >> /\ stack' = Tail(stack) /\ Innermost.todo = {}
        /\ pc' = IF Tail(stack) = << >> THEN "commit" ELSE "walk"
        /\ UNCHANGED <<work, path, sid, skipped>>
    BY <1>1, <1>10, WalkTree DEF LeaveDirectory, AfterReturn, Outer, dbVars, jobVars
  <2>2. /\ stack \in Seq(Frames) /\ Len(stack) \in Nat /\ Innermost = stack[1]
        /\ Len(Tail(stack)) = Len(stack) - 1
        /\ \A k \in 1 .. Len(Tail(stack)) : Tail(stack)[k] = stack[k + 1]
    BY <1>1, <2>1, Popped DEF TypeOK, Innermost
  <2>3. ASSUME NEW i \in Listing(path.place)
        PROVE  \/ Accounted(i, ItemsOf(work', sid'), skipped')
               \/ \E k \in 1 .. Len(stack') : stack'[k].dir = Under[i] /\ i \in stack'[k].todo
    <3>1. CASE Accounted(i, ItemsOf(work, sid), skipped)
      BY <2>1, <3>1
    <3>2. CASE Pending(i)
      <4>1. PICK k \in 1 .. Len(stack) : stack[k].dir = Under[i] /\ i \in stack[k].todo
        BY <2>1, <3>2 DEF Pending
      <4>2. k # 1
        BY <2>1, <2>2, <4>1
      <4>3. k - 1 \in 1 .. Len(stack') /\ (k - 1) + 1 = k
        BY <2>1, <2>2, <4>2
      <4>4. stack'[k - 1] = stack[k]
        BY <2>1, <2>2, <4>3
      <4>5. QED
        BY <4>1, <4>3, <4>4
    <3>3. QED
      BY <1>1, <2>1, <3>1, <3>2 DEF WalkAccounts
  <2>4. CASE pc' = "walk"
    <3>1. \A i \in Listing(path.place) :
            Accounted(i, ItemsOf(work', sid'), skipped') \/ Pending(i)'
      BY <2>3 DEF Pending
    <3>2. QED
      BY <2>1, <2>4, <3>1 DEF WalkAccounts
  <2>5. CASE pc' = "commit"
    <3>1. \A k : k \notin 1 .. Len(stack')
      BY <2>1, <2>5
    <3>2. \A i \in Listing(path.place) : Accounted(i, ItemsOf(work', sid'), skipped')
      BY <2>3, <3>1
    <3>3. QED
      BY <2>1, <2>5, <3>2 DEF WalkAccounts
  <2>6. QED
    BY <2>1, <2>4, <2>5
<1>11. CASE LeaveOnError
  BY <1>1, <1>11 DEF LeaveOnError, WalkAccounts
<1>12. CASE ScanFile
  <2>1. /\ pc = "file" /\ pc' \in {"commit", "failed"} /\ UNCHANGED <<path, sid>>
        /\ path.place \in FilePlaces
    BY <1>1, <1>12 DEF ScanFile, StartRest, jobVars
  <2>2. CASE pc' = "failed"
    BY <2>2, Elsewhere
  <2>3. ASSUME NEW id, NEW item \in Children(path.place), NEW side,
               Run([InsertEntry(work, id, sid, NoId, item) EXCEPT !.side = @ \cup side]),
               pc' = "commit"
        PROVE  WalkAccounts'
    <3>1. PICK new : new = [InsertEntry(work, id, sid, NoId, item) EXCEPT !.side = @ \cup side]
      OBVIOUS
    <3>2. Written(work, new, id, sid, NoId, item, side)
      BY <1>1, <3>1, InsertEntryWrites
    <3>3. ItemsOf(new, sid) = ItemsOf(work, sid) \cup {item}
      BY <3>2, ItemsMore
    <3>4. work' = new
      BY <2>3, <3>1 DEF Run
    <3>5. \A i \in Listing(path.place) : i = item
      <4>1. PICK j \in Items : Listing(path.place) = {j}
        BY <2>1, FileSystemAssumption
      <4>2. item \in Listing(path.place)
        BY <1>1, FileSystemAssumption DEF Listing, Children
      <4>3. QED
        BY <4>1, <4>2
    <3>6. QED
      BY <2>1, <2>3, <3>3, <3>4, <3>5 DEF WalkAccounts, Accounted
  <2>4. QED
    BY <1>12, <2>1, <2>2, <2>3 DEF ScanFile, NothingUncounted
<1>13. CASE CommitScan
  <2>1. /\ pc = "commit" /\ pc' = "switch" /\ UNCHANGED <<path, sid, skipped>>
    BY <1>13 DEF CommitScan, jobVars
  <2>2. work' = work
    BY <1>13 DEF CommitScan, Commits, CommitFails, Fails, RolledBack, NothingUncounted, dbVars
  <2>3. QED
    BY <1>1, <2>1, <2>2, AccountsKept
<1>14. CASE RemoveOld
  <2>1. pc = "switch" /\ UNCHANGED <<path, sid, skipped>>
    BY <1>14 DEF RemoveOld, jobVars
  <2>2. CASE pc' = "drop"
    BY <2>2, Elsewhere
  <2>3. CASE pc' = "close" /\ work' = work
    BY <1>1, <2>1, <2>3, AccountsKept
  <2>4. CASE pc' = "close" /\ work' = RemoveTree(work, old)
    <3>1. EntriesOK(work) /\ sid \in IdsOf(work.source) /\ old # sid
      BY <1>1, <2>1, WalkRows
         DEF RowsOK, EntryPoints, IInv, RecordsOK, RecordPoints, BeforeRecords, Labels
    <3>2. TreesKept(work, work', {old})
      BY <1>1, <2>4, <3>1, RemoveTreeRows
    <3>3. Tree(work', sid) = Tree(work, sid)
      BY <3>1, <3>2 DEF TreesKept
    <3>4. ItemsOf(work', sid) = ItemsOf(work, sid)
      BY <3>3 DEF Tree, ItemsOf
    <3>5. QED
      BY <1>1, <2>1, <2>4, <3>4, AccountsKept
  <2>5. QED
    BY <1>14, <2>2, <2>3, <2>4 DEF RemoveOld, AfterSwitchError
<1>15. CASE CloseScan
  <2>1. /\ pc = "close" /\ pc' = "swcommit" /\ UNCHANGED <<path, sid, skipped>>
    BY <1>15 DEF CloseScan, jobVars
  <2>2. CASE ~intxn'
    BY <2>1, <2>2 DEF WalkAccounts
  <2>3. CASE intxn' /\ work'.entry = work.entry
    BY <1>1, <2>1, <2>3, SameItems, AccountsKept
  <2>4. ASSUME NEW status, Run(FinishScan(work, scid, status))
        PROVE  work'.entry = work.entry
    BY <1>1, <2>4, InsertsKeepEntries DEF Run
  <2>5. Fails("finish") => ~intxn' \/ work'.entry = work.entry
    BY DEF Fails, RolledBack, dbVars
  <2>6. QED
    BY <1>15, <2>2, <2>3, <2>4, <2>5 DEF CloseScan
<1>16. CASE Interrupt \/ Rest \/ UNCHANGED vars
  <2>1. UNCHANGED <<work, intxn, pc, path, sid, stack, cur, skipped>>
    BY <1>16 DEF Interrupt, Rest, vars, dbVars, jobVars, walkVars
  <2>2. UNCHANGED ItemsOf(work, sid) /\ \A i : Pending(i) => Pending(i)'
    BY <2>1 DEF Pending
  <2>3. QED
    BY <1>1, <2>1, <2>2 DEF WalkAccounts
<1>17. CASE pc' \notin WalkPoints \cup ClosePoints
  BY <1>17, Elsewhere
<1>18. CASE \/ StartScan \/ Recover \/ LookUp \/ CreateSource \/ CreateScan \/ StopWalk
            \/ CancelFirstScan \/ CancelReplacement \/ FailScan \/ CommitSwitch
            \/ DropAfterSwitch \/ Finish \/ Crash
  BY <1>17, <1>18
     DEF StartScan, Recover, LookUp, CreateSource, CreateScan, StopWalk, CancelFirstScan,
         CancelReplacement, FailScan, CommitSwitch, DropAfterSwitch, Finish, Crash, Return,
         AfterSwitchError
<1>19. QED
  BY <1>3, <1>4, <1>5, <1>6, <1>7, <1>8, <1>9, <1>10, <1>11, <1>12, <1>13, <1>14, <1>15, <1>16,
     <1>18 DEF Next, ScannerStep

LEMMA SkippedKept ==
  ASSUME [Next]_vars
  PROVE  UNCHANGED skipped \/ pc \in {"walk", "unwind"} \/ StartScan
BY DEF Next, ScannerStep, vars, Recover, LookUp, CreateSource, CreateScan, BeginScan,
       OpenDirectory, LoseListing, VisitEntry, IndexEntry, CommitBatch, FinishEntry,
       LeaveDirectory, LeaveOnError, StopWalk, ScanFile, CancelFirstScan, CancelReplacement,
       FailScan, CommitScan, RemoveOld, CloseScan, CommitSwitch, DropAfterSwitch, Finish,
       Interrupt, Crash, Rest, Return

(* Nothing is said of a scan whose row is not marked Completed.            *)
LEMMA NoneCompleted ==
  ASSUME \A y \in disk'.scan : y.source = sid' => y.status # "Completed"
  PROVE  CompletedIsComplete'
BY DEF CompletedIsComplete

LEMMA NextCompleted ==
  ASSUME CompleteInv, [Next]_vars
  PROVE  CompletedIsComplete'
<1>1. /\ WalkAccounts /\ StartRest /\ IInv /\ KeysOK(disk) /\ disk \in CatalogType
      /\ CompletedIsComplete /\ IInv'
  BY CompleteParts, TreeParts, StartParts, NextIInv DEF RowsInv, IInv, TypeOK
<1>2. \A y \in disk'.scan : y.source # NoId
  BY <1>1 DEF IInv, TypeOK, CatalogType, Rowid, NoId
<1>3. CASE sid' = NoId
  BY <1>2, <1>3, NoneCompleted
<1>4. ASSUME UNCHANGED <<disk, sid, path, skipped>> PROVE CompletedIsComplete'
  BY <1>1, <1>4 DEF CompletedIsComplete
<1>5. ASSUME pc \in OpenScanPoints
      PROVE  \A x \in disk.scan : x.source = sid => x.status = "InProgress"
  BY <1>1, <1>5 DEF KeysOK, IInv, RecordsOK
<1>6. ASSUME pc \in OpenScanPoints, disk'.scan \subseteq disk.scan, sid' = sid
      PROVE  CompletedIsComplete'
  BY <1>5, <1>6, NoneCompleted
<1>7. CASE StartScan \/ Recover \/ LookUp
  <2>1. sid' = NoId
    BY <1>1, <1>7 DEF StartScan, Recover, LookUp, StartRest, Return, jobVars
  <2>2. QED
    BY <1>3, <2>1
<1>8. CASE CreateSource
  <2>1. CASE Return("error", disk)
    BY <1>1, <1>3, <1>8, <2>1 DEF CreateSource, StartRest, Return
  <2>2. CASE sid' \notin IdsOf(disk.source) /\ disk'.scan = disk.scan
    BY <1>1, <2>2, NoneCompleted DEF KeysOK
  <2>3. QED
    BY <1>1, <1>8, <2>1, <2>2, CreateSourceRecords
<1>9. CASE CreateScan
  <2>1. \A x \in disk.scan : x.source # sid
    BY <1>1, <1>9 DEF CreateScan, IInv, RecordsOK
  <2>2. CASE Return("error", disk)
    BY <2>1, <2>2, NoneCompleted DEF Return
  <2>3. CASE /\ sid' = sid
             /\ disk'.scan =
                  disk.scan \cup {[id |-> scid', source |-> sid, status |-> "InProgress"]}
    BY <2>1, <2>3, NoneCompleted
  <2>4. QED
    BY <1>1, <1>9, <2>2, <2>3, CreateScanRecords
<1>10. CASE MovesOn
  BY <1>6, <1>10 DEF MovesOn, SameRecords, jobVars
<1>11. CASE Drops
  <2>1. PICK content \in {disk, RemoveTree(disk, sid)} : disk' = content /\ sid' = sid
    BY <1>11 DEF Drops, Return
  <2>2. disk'.scan \subseteq disk.scan
    BY <1>1, <2>1, DropRecords
  <2>3. QED
    BY <1>6, <1>11, <2>1, <2>2 DEF Drops
<1>12. CASE CancelFirstScan
  <2>1. PICK content \in {disk, FinishScan(disk, scid, "Cancelled")} :
          disk' = content /\ sid' = sid
    BY <1>12 DEF CancelFirstScan, Return
  <2>2. pc \in OpenScanPoints
    BY <1>12 DEF CancelFirstScan, OpenScanPoints, RecordPoints, BeforeRecords, Labels
  <2>3. "Cancelled" \in Statuses
    BY DEF Statuses
  <2>4. CASE content = disk
    BY <1>6, <2>1, <2>2, <2>4
  <2>5. CASE content = FinishScan(disk, scid, "Cancelled")
    <3>1. \A y \in content.scan : \E x \in disk.scan :
            y.source = x.source /\ y.status = (IF x.id = scid THEN "Cancelled" ELSE x.status)
      BY <1>1, <2>3, <2>5, FinishScanRecords
    <3>2. QED
      BY <1>5, <2>1, <2>2, <3>1, NoneCompleted
  <2>6. QED
    BY <2>1, <2>4, <2>5
<1>13. CASE Switches
  <2>1. /\ pc = "swcommit" /\ intxn /\ disk' = work /\ UNCHANGED <<sid, path>>
    BY <1>13 DEF Switches, jobVars
  <2>2. \A i \in Listing(path.place) : Accounted(i, ItemsOf(work, sid), skipped)
    BY <1>1, <2>1 DEF WalkAccounts, ClosePoints
  <2>3. skipped' = skipped
    BY <2>1, SkippedKept DEF StartScan
  <2>4. QED
    BY <2>1, <2>2, <2>3 DEF CompletedIsComplete, Accounted
<1>14. CASE Finish \/ Crash
  BY <1>4, <1>14 DEF Finish, Crash, Return
<1>15. CASE Pauses
  <2>1. UNCHANGED <<disk, pc, sid, path>>
    BY <1>15 DEF Pauses, jobVars
  <2>2. CASE pc \in {"walk", "unwind"}
    BY <1>6, <2>1, <2>2 DEF OpenScanPoints, RecordPoints, BeforeRecords, Labels
  <2>3. ~StartScan
    BY <2>1 DEF StartScan
  <2>4. QED
    BY <1>4, <2>1, <2>2, <2>3, SkippedKept
<1>16. QED
  BY <1>1, <1>7, <1>8, <1>9, <1>10, <1>11, <1>12, <1>13, <1>14, <1>15, NextByRecords

LEMMA InitComplete == Init => CompleteInv
<1>1. Init => TreeInv
  BY InitStart, TreeParts DEF Init, TreeRest, Hangs, EmptyCatalog, WalkPoints
<1>2. Init => CompletedIsComplete /\ WalkAccounts
  BY DEF Init, CompletedIsComplete, WalkAccounts, EmptyCatalog, WalkPoints, ClosePoints
<1>3. QED
  BY <1>1, <1>2, CompleteParts

LEMMA NextCompleteInv ==
  ASSUME NothingUncounted
  PROVE  CompleteInv /\ [Next]_vars => CompleteInv'
<1>1. TreeInv' /\ CompletedIsComplete' /\ WalkAccounts' => CompleteInv'
  BY DEF CompleteInv, WalkAccounts
<1>2. CompleteInv /\ [Next]_vars => TreeInv'
  <2>1. StartInv' /\ TreeRest' => TreeInv'
    BY DEF TreeInv, TreeRest
  <2>2. Aborting \cap {"entry", "fts", "side", "batch"} = {}
    BY DEF NothingUncounted
  <2>3. QED
    BY <2>1, <2>2, NextStartInv, NextTree, TreeParts, CompleteParts
<1>3. QED
  BY <1>1, <1>2, NextCompleted, NextAccounts

(* A tree is marked Completed only when every item that lies below the     *)
(* scanned place is in it, was counted as an error, or lies in a folder of *)
(* which this is true - as long as none of the failures happens that the   *)
(* code does not count.  Statements may fail, the disc may be unreadable,  *)
(* the scan be cancelled or killed at any point.                           *)
THEOREM CompletedMissesNothing ==
  ASSUME NothingUncounted
  PROVE  Spec => []CompletedIsComplete
<1>1. CompleteInv => CompletedIsComplete
  BY DEF CompleteInv
<1>2. QED
  BY <1>1, InitComplete, NextCompleteInv, PTL DEF Spec

-----------------------------------------------------------------------------
(* Every item is visited                                                   *)

(* Entries and their keys are written without an error, and the walk can   *)
(* read what it lists.                                                     *)
NothingSkipped ==
  /\ NothingUncounted
  /\ "entry" \notin Failing
  /\ "unreadable" \notin Trouble

(* The foreign keys of the entry that VisitEntry writes hold.              *)
LEMMA EntryKeys ==
  ASSUME TreeInv, pc = "walk", NEW id
  PROVE  EntryKeysHold(work, id, sid, Innermost.id)
<1>1. RowsInv
  BY DEF TreeInv, StartInv
<1>2. sid \in IdsOf(work.source)
  BY <1>1, WalkRows DEF EntryPoints
<1>3. TypeOK /\ ActivationsOK /\ stack # << >>
  BY WalkTree DEF WalkPoints
<1>4. Innermost = stack[1] /\ 1 \in 1 .. Len(stack)
  BY <1>3, Popped DEF TypeOK, Innermost
<1>5. StandsFor(EntriesOf(work, sid), path.place, stack[1].id, stack[1].dir)
  BY <1>3, <1>4 DEF ActivationsOK
<1>6. Innermost.id \in IdsOf(work.entry) \cup {NoId}
  BY <1>4, <1>5 DEF StandsFor, EntriesOf, IdsOf
<1>7. QED
  BY <1>2, <1>6 DEF EntryKeysHold

LEMMA NextSkipped ==
  ASSUME NothingSkipped, CompleteInv, skipped = {}, [Next]_vars
  PROVE  skipped' = {}
<1>1. TreeInv /\ WalkAccounts
  BY CompleteParts
<1>2. CASE StartScan
  BY <1>2 DEF StartScan
<1>3. CASE VisitEntry
  <2>1. pc = "walk"
    BY <1>3 DEF VisitEntry
  <2>2. \A id : EntryKeysHold(work, id, sid, Innermost.id)
    BY <1>1, <2>1, EntryKeys
  <2>3. ~Fails("entry")
    BY DEF Fails, RolledBack, NothingSkipped, NothingUncounted
  <2>4. QED
    BY <1>3, <2>2, <2>3 DEF VisitEntry, NothingSkipped
<1>4. CASE pc = "unwind"
  BY <1>1, <1>4 DEF WalkAccounts
<1>5. CASE UNCHANGED skipped
  BY <1>5
<1>6. CASE pc = "walk" /\ ~VisitEntry
  BY <1>5, <1>6
     DEF Next, ScannerStep, vars, StartScan, Recover, LookUp, CreateSource, CreateScan, BeginScan,
         OpenDirectory, LoseListing, IndexEntry, CommitBatch, FinishEntry,
         LeaveDirectory, LeaveOnError, StopWalk, ScanFile, CancelFirstScan, CancelReplacement,
         FailScan, CommitScan, RemoveOld, CloseScan, CommitSwitch, DropAfterSwitch, Finish,
         Interrupt, Crash, Rest, Return
<1>7. QED
  BY <1>2, <1>3, <1>4, <1>5, <1>6, SkippedKept

-----------------------------------------------------------------------------
(* Nothing of another place                                                *)

LEMMA BelowOn ==
  ASSUME ShadowBelow, pc \in RecordPoints, UNCHANGED <<path, sid>>,
         \A e \in disk'.entry \cup work'.entry :
           e \in disk.entry \cup work.entry \/ Home[e.item] = path.place
  PROVE  ShadowBelow'
BY DEF ShadowBelow

(* An item that is listed below the scanned place lies below it.           *)
LEMMA ListedBelow ==
  ASSUME TreeInv, ShadowBelow, pc = "walk", NEW item \in Innermost.todo
  PROVE  Home[item] = path.place
<1>1. TypeOK /\ path.place \in Places /\ \A e \in EntriesOf(work, sid) : e.item \in Items
  BY WalkTree DEF WalkPoints
<1>2. /\ item \in Items
      /\ Under[item] = Innermost.dir
      /\ StandsFor(EntriesOf(work, sid), path.place, Innermost.id, Innermost.dir)
  BY ItemIsNew
<1>3. Home[item] = IF Under[item] \in Places THEN Under[item] ELSE Home[Under[item]]
  BY <1>2, FileSystemAssumption
<1>4. CASE Innermost.dir = path.place
  BY <1>1, <1>2, <1>3, <1>4
<1>5. CASE \E e \in EntriesOf(work, sid) : e.item = Innermost.dir
  <2>1. PICK e \in EntriesOf(work, sid) : e.item = Under[item]
    BY <1>2, <1>5
  <2>2. Under[item] \notin Places
    BY <1>1, <2>1, ScanAssumption
  <2>3. Home[e.item] = path.place
    BY <2>1 DEF ShadowBelow, EntriesOf, RecordPoints, BeforeRecords, Labels
  <2>4. QED
    BY <1>3, <2>1, <2>2, <2>3
<1>6. QED
  BY <1>2, <1>4, <1>5 DEF StandsFor

LEMMA NextBelow ==
  ASSUME TreeInv, ShadowBelow, [Next]_vars
  PROVE  ShadowBelow'
<1> USE DEF RecordPoints, BeforeRecords, Labels
<1>1. /\ StartInv /\ RowsInv /\ IInv /\ TypeOK /\ StartRest
      /\ work \in CatalogType /\ disk \in CatalogType
  BY TreeParts, StartParts DEF RowsInv, IInv, TypeOK
<1>2. CASE pc' \notin RecordPoints
  BY <1>2 DEF ShadowBelow
<1>3. CASE StartScan \/ Recover \/ LookUp \/ Crash \/ Finish \/ CancelFirstScan
           \/ CancelReplacement \/ FailScan \/ DropAfterSwitch
  BY <1>2, <1>3 DEF StartScan, Recover, LookUp, Crash, Finish, CancelFirstScan, CancelReplacement,
                    FailScan, DropAfterSwitch, Return
<1>4. CASE CreateSource \/ CreateScan
  <2>1. CASE Return("error", disk)
    BY <1>2, <2>1 DEF Return
  <2>2. CASE pc' \in {"newscan", "begin"}
    <3>1. EntriesOf(work', sid') = {}
      BY <1>1, <2>2, NextStart DEF StartRest
    <3>2. disk' = work'
      BY <1>1, <1>4, <2>2 DEF CreateSource, CreateScan, Run, Return, IInv, ConnectionOK
    <3>3. QED
      BY <3>1, <3>2 DEF ShadowBelow, EntriesOf
  <2>3. QED
    BY <1>4, <2>1, <2>2 DEF CreateSource, CreateScan
<1>5. ASSUME pc \in RecordPoints, UNCHANGED <<path, sid>>,
             disk'.entry \subseteq disk.entry \cup work.entry,
             work'.entry \subseteq disk.entry \cup work.entry
      PROVE  ShadowBelow'
  BY <1>5, BelowOn
<1>6. ASSUME NEW id, NEW parent, NEW item, NEW side, NEW new,
             Written(work, new, id, sid, parent, item, side),
             work' = new, disk' \in {disk, new}, Home[item] = path.place,
             pc \in RecordPoints, UNCHANGED <<path, sid>>
      PROVE  ShadowBelow'
  <2> DEFINE row == [id |-> id, source |-> sid, parent |-> parent, item |-> item]
  <2>1. row.item = item /\ new.entry = work.entry \cup {row}
    BY <1>6 DEF Written
  <2> HIDE DEF row
  <2>2. QED
    BY <1>6, <2>1, BelowOn
<1>7. CASE BeginScan \/ OpenDirectory \/ LoseListing \/ CommitBatch \/ LeaveDirectory
           \/ LeaveOnError \/ StopWalk \/ CommitScan
  <2>1. pc \in RecordPoints /\ UNCHANGED <<path, sid>>
    BY <1>7 DEF BeginScan, OpenDirectory, LoseListing, CommitBatch, LeaveDirectory, LeaveOnError,
                StopWalk, CommitScan, jobVars
  <2>2. disk' \in {disk, work} /\ work' \in {disk, work}
    BY <1>7 DEF BeginScan, OpenDirectory, LoseListing, CommitBatch, LeaveDirectory, LeaveOnError,
                StopWalk, CommitScan, Commits, CommitFails, Fails, RolledBack, dbVars
  <2>3. QED
    BY <1>5, <2>1, <2>2
<1>8. ASSUME NEW statement, UNCHANGED dbVars \/ Fails(statement),
             pc \in RecordPoints, UNCHANGED <<path, sid>>
      PROVE  ShadowBelow'
  <2>1. disk' \in {disk, work} /\ work' \in {disk, work}
    BY <1>8 DEF Fails, RolledBack, dbVars
  <2>2. QED
    BY <1>5, <1>8, <2>1
<1>9. CASE VisitEntry
  <2>1. pc = "walk" /\ UNCHANGED <<path, sid>>
    BY <1>9 DEF VisitEntry, jobVars
  <2>2. ASSUME NEW item \in Innermost.todo, NEW id,
               Run(InsertEntry(work, id, sid, Innermost.id, item))
        PROVE  ShadowBelow'
    <3>1. PICK new : new = InsertEntry(work, id, sid, Innermost.id, item)
      OBVIOUS
    <3>2. Written(work, new, id, sid, Innermost.id, item, {})
      BY <1>1, <3>1, InsertEntryWrites
    <3>3. work' = new /\ disk' \in {disk, new}
      BY <2>2, <3>1 DEF Run
    <3>4. Home[item] = path.place
      BY <2>1, ListedBelow
    <3>5. QED
      BY <1>6, <2>1, <3>2, <3>3, <3>4
  <2>3. CASE UNCHANGED dbVars \/ Fails("entry")
    BY <1>8, <2>1, <2>3
  <2>4. QED
    BY <1>9, <2>2, <2>3 DEF VisitEntry
<1>10. CASE IndexEntry \/ FinishEntry
  <2>1. pc \in RecordPoints /\ UNCHANGED <<path, sid>>
    BY <1>10 DEF IndexEntry, FinishEntry, jobVars
  <2>2. CASE UNCHANGED dbVars \/ Fails("fts") \/ Fails("side")
    BY <1>8, <2>1, <2>2
  <2>3. CASE Run(InsertFts(work, cur.id)) \/ Run(InsertSide(work, cur.id))
    BY <1>1, <1>5, <2>1, <2>3, IndexKeepsEntries DEF Run
  <2>4. QED
    BY <1>10, <2>2, <2>3 DEF IndexEntry, FinishEntry
<1>11. CASE ScanFile
  <2>1. pc = "file" /\ UNCHANGED <<path, sid>>
    BY <1>11 DEF ScanFile, jobVars
  <2>2. ASSUME NEW id, NEW item \in Children(path.place), NEW side,
               Run([InsertEntry(work, id, sid, NoId, item) EXCEPT !.side = @ \cup side])
        PROVE  ShadowBelow'
    <3>1. PICK new : new = [InsertEntry(work, id, sid, NoId, item) EXCEPT !.side = @ \cup side]
      OBVIOUS
    <3>2. Written(work, new, id, sid, NoId, item, side)
      BY <1>1, <3>1, InsertEntryWrites
    <3>3. work' = new /\ disk' \in {disk, new}
      BY <2>2, <3>1 DEF Run
    <3>4. Home[item] = path.place
      BY <1>1, FileSystemAssumption DEF Children, TypeOK, Paths
    <3>5. QED
      BY <1>6, <2>1, <3>2, <3>3, <3>4
  <2>3. CASE Fails("entry") \/ Fails("side")
    BY <1>8, <2>1, <2>3
  <2>4. QED
    BY <1>11, <2>2, <2>3 DEF ScanFile, Fails
<1>12. CASE RemoveOld \/ CloseScan \/ CommitSwitch
  <2>1. pc \in RecordPoints /\ UNCHANGED <<path, sid>> /\ ~WalkAction
    <3>1. pc \in {"switch", "close", "swcommit"} /\ UNCHANGED <<path, sid>>
      BY <1>12 DEF RemoveOld, CloseScan, CommitSwitch, jobVars
    <3>2. ~WalkAction
      BY <3>1 DEF WalkAction, BeginScan, OpenDirectory, LoseListing, VisitEntry, IndexEntry,
                  CommitBatch, FinishEntry, LeaveDirectory, LeaveOnError, StopWalk, ScanFile,
                  CommitScan
    <3>3. QED
      BY <3>1, <3>2
  <2>2. FromWhole(disk') /\ FromWhole(work')
    BY <1>1, <2>1, OtherEntries
  <2>3. QED
    BY <1>5, <2>1, <2>2 DEF FromWhole, Whole
<1>13. CASE Interrupt \/ Rest \/ UNCHANGED vars
  <2>1. UNCHANGED <<disk, work, pc, path, sid>>
    BY <1>13 DEF Interrupt, Rest, vars, dbVars, jobVars
  <2>2. QED
    BY <2>1 DEF ShadowBelow
<1>14. QED
  BY <1>3, <1>4, <1>7, <1>9, <1>10, <1>11, <1>12, <1>13 DEF Next, ScannerStep

-----------------------------------------------------------------------------
(* The tree a place shows                                                  *)

(* What a content shows of a place: Shown is this of the file.             *)
ShownIn(db, place) ==
  IF Settled(db, place) = {}
  THEN [status |-> "none", items |-> {}]
  ELSE LET s == CHOOSE r \in Settled(db, place) : TRUE
       IN  [status |-> (CHOOSE r \in db.scan : r.source = s.id).status,
            items  |-> ItemsOf(db, s.id)]

LEMMA ShownIsOfTheFile ==
  /\ Shown = [place \in Places |-> ShownIn(disk, place)]
  /\ Shown' = [place \in Places |-> ShownIn(disk', place)]
BY DEF Shown, ShownIn

(* With one finished tree, and one scan row for it, nothing is left to     *)
(* choose.                                                                 *)
LEMMA OneIsShown ==
  ASSUME NEW db, NEW place, KeysOK(db), NEW r \in Settled(db, place),
         \A q \in Settled(db, place) : q = r,
         NEW x \in db.scan, x.source = r.id
  PROVE  ShownIn(db, place) = [status |-> x.status, items |-> ItemsOf(db, r.id)]
<1>1. PICK s : s = CHOOSE q \in Settled(db, place) : TRUE
  OBVIOUS
<1>2. s = r
  BY <1>1
<1>3. PICK y : y = CHOOSE z \in db.scan : z.source = s.id
  OBVIOUS
<1>4. y \in db.scan /\ y.source = s.id
  BY <1>2, <1>3
<1>5. y = x
  BY <1>2, <1>4 DEF KeysOK
<1>6. ShownIn(db, place) = [status |-> y.status, items |-> ItemsOf(db, s.id)]
  BY <1>1, <1>3 DEF ShownIn
<1>7. QED
  BY <1>2, <1>5, <1>6

(* A place that gets no other finished tree goes on showing the same.      *)
LEMMA ShownStays ==
  ASSUME KeysOK(disk), KeysOK(disk'), Untouched, NEW place \in Places, Keeps(disk, disk'),
         \A q, r \in Settled(disk, place) : q = r,
         Settled(disk', place) \subseteq Settled(disk, place)
  PROVE  ShownIn(disk', place) = ShownIn(disk, place)
<1>1. CASE Settled(disk, place) = {}
  BY <1>1 DEF ShownIn
<1>2. CASE Settled(disk, place) # {}
  <2>1. PICK r : r \in Settled(disk', place)
    BY <1>2 DEF Keeps
  <2>2. r \in Settled(disk, place) /\ r.id \in SettledIds(disk) \cap SettledIds(disk')
    BY <2>1 DEF Settled
  <2>3. Tree(disk', r.id) = Tree(disk, r.id)
    BY <2>2 DEF Untouched
  <2>4. PICK x \in disk.scan : x.source = r.id
    BY <2>2, SettledRows
  <2>5. x \in disk'.scan
    BY <2>3, <2>4, TreeRows
  <2>6. ItemsOf(disk', r.id) = ItemsOf(disk, r.id)
    BY <2>3 DEF Tree, ItemsOf
  <2>7. ShownIn(disk, place) = [status |-> x.status, items |-> ItemsOf(disk, r.id)]
    BY <2>2, <2>4, OneIsShown
  <2>8. ShownIn(disk', place) = [status |-> x.status, items |-> ItemsOf(disk', r.id)]
    BY <2>1, <2>4, <2>5, OneIsShown
  <2>9. QED
    BY <2>6, <2>7, <2>8
<1>3. QED
  BY <1>1, <1>2

(* When the walk is over and nothing was skipped, nothing is missing: an   *)
(* item could only be missing with the folder it is in, and so on for ever. *)
LEMMA NothingMissing ==
  ASSUME NEW place \in Places, NEW found,
         \A i \in Listing(place) : Accounted(i, found, {})
  PROVE  Listing(place) \subseteq found
<1> DEFINE missing == Listing(place) \ found
<1>1. ASSUME NEW i \in missing PROVE Under[i] \in missing
  <2>1. i \in Items /\ Home[i] = place /\ i \notin found
    BY <1>1 DEF Listing
  <2>2. Under[i] \in Items /\ Under[i] \notin found
    BY <1>1, <2>1 DEF Accounted
  <2>3. Under[i] \notin Places
    BY <2>2, ScanAssumption
  <2>4. Home[Under[i]] = place
    BY <2>1, <2>3, FileSystemAssumption
  <2>5. QED
    BY <2>2, <2>4 DEF Listing
<1>2. missing \in SUBSET Items
  BY DEF Listing
<1> HIDE DEF missing
<1>3. missing = {}
  BY <1>1, <1>2, FileSystemAssumption
<1>4. QED
  BY <1>3 DEF missing

-----------------------------------------------------------------------------
(* The steps of the atomic catalogue                                       *)

LEMMA SwitchPublishes ==
  ASSUME CompleteInv, IInv', skipped = {}, ShadowBelow, Switches, "finish" \notin Failing,
         OneTreePerPlace',
         \A p \in Places : p # path.place => ShownIn(disk', p) = ShownIn(disk, p)
  PROVE  Promise!Publish(path.place)
<1>1. /\ IInv /\ WalkAccounts /\ TypeOK /\ path.place \in Places
  BY CompleteParts, TreeParts, StartParts DEF RowsInv, IInv, TypeOK, Paths
<1>2. pc = "swcommit" /\ intxn /\ disk' = work
  BY DEF Switches
<1>3. KeysOK(disk') /\ disk' \in CatalogType
  BY DEF IInv, TypeOK
<1>4. /\ [id |-> sid, path |-> path] \in disk'.source
      /\ \E y \in disk'.scan : y.source = sid /\ y.status # "InProgress"
  BY <1>1, <1>2, SwitchRecords
<1>5. PICK y \in disk'.scan : y.source = sid /\ y.status # "InProgress"
  BY <1>4
<1>6. PICK r : r = [id |-> sid, path |-> path]
  OBVIOUS
<1>7. r \in Settled(disk', path.place) /\ r.id = sid
  BY <1>4, <1>5, <1>6, SettledRows
<1>8. ShownIn(disk', path.place) = [status |-> y.status, items |-> ItemsOf(disk', sid)]
  BY <1>1, <1>3, <1>5, <1>7, OneIsShown DEF OneTreePerPlace
<1>9. y.status \in {"Completed", "Cancelled"}
  BY <1>3, <1>5 DEF CatalogType, Statuses
<1>10. ItemsOf(disk', sid) = Listing(path.place)
  <2>1. Listing(path.place) \subseteq ItemsOf(work, sid)
    BY <1>1, <1>2, NothingMissing DEF WalkAccounts, ClosePoints
  <2>2. ASSUME NEW e \in EntriesOf(work, sid) PROVE e.item \in Listing(path.place)
    <3>1. e.item \in Items
      BY <1>1 DEF TypeOK, CatalogType, EntriesOf
    <3>2. Home[e.item] = path.place
      BY <1>2 DEF ShadowBelow, EntriesOf, RecordPoints, BeforeRecords, Labels
    <3>3. QED
      BY <3>1, <3>2 DEF Listing
  <2>3. QED
    BY <1>2, <2>1, <2>2 DEF ItemsOf
<1> DEFINE tree == [status |-> y.status, items |-> Listing(path.place)]
<1>11. tree \in Promise!Complete(path.place)
  BY <1>9 DEF Promise!Complete, Promise!Below, Listing
<1>12. ShownIn(disk', path.place) = tree
  BY <1>8, <1>10
<1> HIDE DEF tree
<1>13. Shown' = [Shown EXCEPT ![path.place] = tree]
  BY <1>1, <1>12, ShownIsOfTheFile
<1>14. QED
  BY <1>11, <1>13 DEF Promise!Publish

LEMMA CancelKeepsPart ==
  ASSUME TreeInv, PlaceRest, IInv', ShadowBelow, CancelFirstScan, OneTreePerPlace',
         [id |-> sid, path |-> path] \in Settled(disk', path.place),
         [id |-> sid, path |-> path] \notin Settled(disk, path.place),
         \A p \in Places : p # path.place => ShownIn(disk', p) = ShownIn(disk, p)
  PROVE  Promise!KeepPart(path.place)
<1>1. /\ IInv /\ TypeOK /\ disk \in CatalogType /\ KeysOK(disk) /\ Hangs(disk)
      /\ path.place \in Places
  BY TreeParts, StartParts DEF TreeRest, RowsInv, IInv, TypeOK, Paths
<1>2. pc = "cancelled" /\ old = NoId
  BY DEF CancelFirstScan
<1>3. PICK content \in {disk, FinishScan(disk, scid, "Cancelled")} : disk' = content
  BY DEF CancelFirstScan, Return
<1>4. content = FinishScan(disk, scid, "Cancelled")
  BY <1>3
<1>5. KeysOK(disk') /\ disk' \in CatalogType
  BY DEF IInv, TypeOK
<1>6. content.entry = disk.entry
  BY <1>1, <1>4, InsertsKeepEntries
<1>7. "Cancelled" \in Statuses
  BY DEF Statuses
<1>8. \A y \in content.scan : \E x \in disk.scan :
        y.source = x.source /\ y.status = (IF x.id = scid THEN "Cancelled" ELSE x.status)
  BY <1>1, <1>4, <1>7, FinishScanRecords
<1>9. PICK r : r = [id |-> sid, path |-> path]
  OBVIOUS
<1>10. PICK y \in disk'.scan : y.source = sid /\ y.status # "InProgress"
  BY SettledRows
<1>11. y.status = "Cancelled"
  <2>1. PICK x \in disk.scan :
          y.source = x.source /\ y.status = (IF x.id = scid THEN "Cancelled" ELSE x.status)
    BY <1>3, <1>8, <1>10
  <2>2. x.status = "InProgress"
    <3>1. [id |-> sid, path |-> path] \in disk.source
      BY <1>1, <1>2 DEF IInv, RecordsOK, RecordPoints, BeforeRecords, Labels
    <3>2. QED
      BY <1>10, <2>1, <3>1, SettledRows
  <2>3. QED
    BY <1>10, <2>1, <2>2
<1>12. ShownIn(disk', path.place) = [status |-> "Cancelled", items |-> ItemsOf(disk', sid)]
  <2>1. r \in Settled(disk', path.place) /\ r.id = sid
    BY <1>9
  <2>2. QED
    BY <1>1, <1>5, <1>10, <1>11, <2>1, OneIsShown DEF OneTreePerPlace
<1> DEFINE part == ItemsOf(disk, sid)
<1>13. ItemsOf(disk', sid) = part
  BY <1>3, <1>6, SameItems
<1>14. part \in SUBSET Listing(path.place)
  <2>1. SUFFICES ASSUME NEW e \in EntriesOf(disk, sid) PROVE e.item \in Listing(path.place)
    BY DEF ItemsOf
  <2>2. e.item \in Items
    BY <1>1 DEF CatalogType, EntriesOf
  <2>3. Home[e.item] = path.place
    BY <1>2 DEF ShadowBelow, EntriesOf, RecordPoints, BeforeRecords, Labels
  <2>4. QED
    BY <2>2, <2>3 DEF Listing
<1>15. ASSUME NEW i \in part, Under[i] \in Items PROVE Under[i] \in part
  <2>1. PICK e \in EntriesOf(disk, sid) : e.item = i
    BY DEF ItemsOf
  <2>2. e \in disk.entry /\ e.source = sid
    BY <2>1 DEF EntriesOf
  <2>3. Under[i] \notin Places
    BY <1>15, ScanAssumption
  <2>4. \E f \in EntriesOf(disk, sid) : f.item = Under[i]
    BY <1>1, <2>1, <2>2, <2>3 DEF Hangs
  <2>5. QED
    BY <2>4 DEF ItemsOf
<1> HIDE DEF part
<1> DEFINE tree == [status |-> "Cancelled", items |-> part]
<1>16. tree \in Promise!Partial(path.place)
  BY <1>14, <1>15 DEF Promise!Partial, Promise!Below, Promise!Rooted, Listing
<1>17. ShownIn(disk', path.place) = tree
  BY <1>12, <1>13
<1> HIDE DEF tree
<1>18. Shown' = [Shown EXCEPT ![path.place] = tree]
  BY <1>1, <1>17, ShownIsOfTheFile
<1>19. Shown[path.place] = Promise!NoTree
  <2>1. \A q \in disk.source : q.id # NoId
    BY <1>1 DEF CatalogType, Rowid, NoId
  <2>2. \A q \in Settled(disk, path.place) : q.id = NoId
    BY <1>2 DEF PlaceRest, RecordPoints, BeforeRecords, Labels
  <2>3. Settled(disk, path.place) = {}
    BY <2>1, <2>2, SettledRows
  <2>4. ShownIn(disk, path.place) = [status |-> "none", items |-> {}]
    BY <2>3 DEF ShownIn
  <2>5. QED
    BY <1>1, <2>4, ShownIsOfTheFile DEF Promise!NoTree
<1>20. QED
  BY <1>16, <1>18, <1>19 DEF Promise!KeepPart

LEMMA NextShown ==
  ASSUME "finish" \notin Failing, AtomicInv, PlaceInv', [Next]_vars
  PROVE  [Promise!Next]_Shown
<1>1. /\ PlaceRest /\ CompleteInv /\ TreeInv /\ RowsInv /\ IInv /\ KeysOK(disk)
      /\ skipped = {} /\ ShadowBelow /\ OneTreePerPlace /\ path.place \in Places
  BY CompleteParts, TreeParts, StartParts, PlaceParts
     DEF AtomicInv, PlaceRest, RowsInv, IInv, TypeOK, Paths
<1>2. IInv' /\ OneTreePerPlace' /\ KeysOK(disk')
  BY DEF PlaceInv, IInv
<1>3. Untouched /\ Keeps(disk, disk')
  BY <1>1, NextRows, NextKeeps
<1>4. ASSUME NEW p \in Places, Settled(disk', p) \subseteq Settled(disk, p)
      PROVE  ShownIn(disk', p) = ShownIn(disk, p)
  BY <1>1, <1>2, <1>3, <1>4, ShownStays DEF OneTreePerPlace
<1>5. CASE \A p \in Places : Settled(disk', p) \subseteq Settled(disk, p)
  BY <1>4, <1>5, ShownIsOfTheFile
<1>6. CASE \E p \in Places : ~(Settled(disk', p) \subseteq Settled(disk, p))
  <2>1. PICK p \in Places : \E r \in Settled(disk', p) : r \notin Settled(disk, p)
    BY <1>6
  <2>2. /\ Shows /\ p = path.place
        /\ [id |-> sid, path |-> path] \in Settled(disk', p)
        /\ [id |-> sid, path |-> path] \notin Settled(disk, p)
    BY <1>1, <2>1, NewlySettled
  <2>3. \A q \in Places : q # path.place => Settled(disk', q) \subseteq Settled(disk, q)
    BY <1>1, NewlySettled
  <2>4. \A q \in Places : q # path.place => ShownIn(disk', q) = ShownIn(disk, q)
    BY <1>4, <2>3
  <2>5. CASE Switches
    <3>1. Promise!Publish(path.place)
      BY <1>1, <1>2, <2>4, <2>5, SwitchPublishes
    <3>2. QED
      BY <1>1, <3>1 DEF Promise!Next
  <2>6. CASE CancelFirstScan
    <3>1. Promise!KeepPart(path.place)
      BY <1>1, <1>2, <2>2, <2>4, <2>6, CancelKeepsPart
    <3>2. QED
      BY <1>1, <3>1 DEF Promise!Next
  <2>7. QED
    BY <2>2, <2>5, <2>6 DEF Shows
<1>7. QED
  BY <1>5, <1>6

-----------------------------------------------------------------------------
(* Someone who reads the catalogue at any moment sees of each place no     *)
(* tree, one complete tree, or a part, with all its folders, of the one    *)
(* whose first scan was cancelled; a rescan puts the complete new tree in  *)
(* the place of the old one in a single step.  A scan may be killed,       *)
(* cancelled or fail wherever the premises do not name it: those of        *)
(* PlacesHaveOneTree, and that nothing the walk meets is passed over and   *)
(* no scan row is left open because finish failed (run finish_fails).      *)
THEOREM ScansImplementThePromise ==
  ASSUME "newscan" \notin CrashPoints, "scan" \notin Failing, "recover" \notin Failing,
         "lookup" \notin Failing, Seps \subseteq {FALSE},
         NothingSkipped, "finish" \notin Failing
  PROVE  Spec => ScansAreAtomic
<1>1. Init => AtomicInv
  <2>1. Init => PlaceInv
    BY InitPlace
  <2>2. Init => CompleteInv
    BY InitComplete
  <2>3. Init => skipped = {} /\ ShadowBelow
    BY DEF Init, ShadowBelow, EmptyCatalog
  <2>4. QED
    BY <2>1, <2>2, <2>3 DEF AtomicInv
<1>2. AtomicInv /\ [Next]_vars => AtomicInv' /\ [Promise!Next]_Shown
  <2>1. SUFFICES ASSUME AtomicInv, [Next]_vars PROVE AtomicInv' /\ [Promise!Next]_Shown
    OBVIOUS
  <2>2. PlaceInv /\ CompleteInv /\ TreeInv /\ skipped = {} /\ ShadowBelow
    BY <2>1, CompleteParts DEF AtomicInv
  <2>3. PlaceInv'
    BY <2>1, <2>2, NextPlaceInv
  <2>4. CompleteInv'
    BY <2>1, <2>2, NextCompleteInv DEF NothingSkipped
  <2>5. skipped' = {} /\ ShadowBelow'
    BY <2>1, <2>2, NextSkipped, NextBelow
  <2>6. [Promise!Next]_Shown
    BY <2>1, <2>3, NextShown
  <2>7. QED
    BY <2>3, <2>4, <2>5, <2>6 DEF AtomicInv
<1>3. Init => Promise!Init
  <2>1. Init => disk.source = {}
    BY DEF Init, EmptyCatalog
  <2>2. disk.source = {} => \A p \in Places : ShownIn(disk, p) = [status |-> "none", items |-> {}]
    BY DEF ShownIn, Settled
  <2>3. QED
    BY <2>1, <2>2, ShownIsOfTheFile DEF Promise!Init, Promise!NoTree
<1>4. QED
  BY <1>1, <1>2, <1>3, PTL DEF Spec, ScansAreAtomic, Promise!Spec

=============================================================================
