---------------------------- MODULE Induction ------------------------------
(***************************************************************************)
(* Induction without a predicate as a parameter: a property is given by    *)
(* the set of the nodes that have it.  The nodes form a forest - each has  *)
(* a rank, and a node that is no root a parent of lower rank - such as the *)
(* rows of a table with the ids of their parents.  The proofs about        *)
(* functions that are defined by recursion over a sequence or along the    *)
(* parents of a row rest on it.                                            *)
(***************************************************************************)
EXTENDS Naturals, WellFoundedInduction, TLAPS

Below == {p \in Nat \X Nat : p[1] < p[2]}

LEMMA LeastNumber ==
  ASSUME NEW T, T \subseteq Nat, T # {}
  PROVE  \E n \in T : \A m \in T : n <= m
<1>1. IsWellFoundedOn(Below, Nat)
  BY NatLessThanWellFounded DEF OpToRel, Below
<1>2. PICK n \in T : \A m \in T : ~(<<m, n>> \in Below)
  BY <1>1, WFMin
<1>3. \A m \in T : ~(m < n)
  BY <1>2 DEF Below
<1>4. n \in Nat /\ \A m \in T : m \in Nat
  OBVIOUS
<1>5. \A m \in T : n <= m
  BY <1>3, <1>4
<1>6. QED
  BY <1>5

-----------------------------------------------------------------------------
(* S are the nodes, R the roots.                                           *)
IsForest(S, R, up, rank) ==
  /\ \A x \in S : rank[x] \in Nat
  /\ \A x \in S \ R : up[x] \in S /\ rank[up[x]] < rank[x]

(* What the roots have and every node has from its parent, all nodes have. *)
LEMMA ForestInduction ==
  ASSUME NEW S, NEW R, NEW up, NEW rank, IsForest(S, R, up, rank),
         NEW Good, \A x \in S : x \in R \/ up[x] \in Good => x \in Good
  PROVE  S \subseteq Good
<1> DEFINE T == {rank[x] : x \in S \ Good}
<1> SUFFICES ASSUME T # {} PROVE FALSE
  OBVIOUS
<1>1. PICK n \in T : \A m \in T : n <= m
  <2>1. T \subseteq Nat
    BY DEF IsForest
  <2> HIDE DEF T
  <2>2. QED
    BY <2>1, LeastNumber
<1>2. PICK x \in S \ Good : n = rank[x]
  BY <1>1
<1>3. x \notin R /\ up[x] \notin Good
  BY <1>2
<1>4. up[x] \in S /\ rank[up[x]] < rank[x] /\ rank[up[x]] \in Nat /\ rank[x] \in Nat
  BY <1>2, <1>3 DEF IsForest
<1>5. rank[x] <= rank[up[x]]
  BY <1>1, <1>2, <1>3, <1>4
<1>6. QED
  BY <1>4, <1>5

(* A value in V for each root, and one for a node from that of its parent. *)
Gives(S, R, V, base, step) ==
  /\ \A x \in R : base[x] \in V
  /\ \A x \in S \ R : \A v \in V : step[x][v] \in V

(* The function that is defined by recursion along the parents.            *)
Inherits(f, S, R, up, base, step) ==
  f = [x \in S |-> IF x \in R THEN base[x] ELSE step[x][f[up[x]]]]

(* It has its values, or is only as defined, for the ranks below n.        *)
RightBelow(f, n, S, R, up, rank, V, base, step) ==
  \A x \in S : rank[x] < n =>
    f[x] \in V /\ f[x] = IF x \in R THEN base[x] ELSE step[x][f[up[x]]]

SameBelow(g, f, n, S, rank) == \A x \in S : rank[x] < n => g[x] = f[x]

LEMMA OneRankMore ==
  ASSUME NEW S, NEW R, NEW up, NEW rank, NEW V, NEW base, NEW step,
         IsForest(S, R, up, rank), Gives(S, R, V, base, step),
         NEW n \in Nat, NEW f, RightBelow(f, n, S, R, up, rank, V, base, step)
  PROVE  \E g : RightBelow(g, n + 1, S, R, up, rank, V, base, step)
<1> DEFINE g == [x \in S |-> IF rank[x] < n THEN f[x]
                             ELSE IF x \in R THEN base[x] ELSE step[x][f[up[x]]]]
<1>1. ASSUME NEW x \in S
      PROVE  /\ rank[x] < n => g[x] = f[x]
             /\ ~(rank[x] < n) => g[x] = IF x \in R THEN base[x] ELSE step[x][f[up[x]]]
  OBVIOUS
<1> HIDE DEF g
<1>2. ASSUME NEW x \in S, rank[x] < n + 1
      PROVE  g[x] \in V /\ g[x] = IF x \in R THEN base[x] ELSE step[x][g[up[x]]]
  <2>1. CASE x \in R
    BY <1>1, <2>1 DEF RightBelow, Gives
  <2>2. CASE x \notin R
    <3>1. up[x] \in S /\ rank[up[x]] < n
      BY <1>2, <2>2 DEF IsForest
    <3>2. g[up[x]] = f[up[x]] /\ f[up[x]] \in V
      BY <1>1, <3>1 DEF RightBelow
    <3>3. g[x] = step[x][f[up[x]]]
      BY <1>1, <2>2 DEF RightBelow
    <3>4. QED
      BY <2>2, <3>2, <3>3 DEF Gives
  <2>3. QED
    BY <2>1, <2>2
<1>3. QED
  BY <1>2 DEF RightBelow

LEMMA EveryRank ==
  ASSUME NEW S, NEW R, NEW up, NEW rank, NEW V, NEW base, NEW step,
         IsForest(S, R, up, rank), Gives(S, R, V, base, step)
  PROVE  \A n \in Nat : \E f : RightBelow(f, n, S, R, up, rank, V, base, step)
<1> DEFINE Right(f, n) == RightBelow(f, n, S, R, up, rank, V, base, step)
           T == {n \in Nat : \A f : ~Right(f, n)}
<1> SUFFICES ASSUME T # {} PROVE FALSE
  OBVIOUS
<1>1. PICK n \in T : \A m \in T : n <= m
  <2>1. T \subseteq Nat
    OBVIOUS
  <2> HIDE DEF T
  <2>2. QED
    BY <2>1, LeastNumber
<1>2. n # 0
  <2>1. \A x \in S : ~(rank[x] < 0)
    BY DEF IsForest
  <2>2. \A f : Right(f, 0)
    BY <2>1 DEF RightBelow
  <2>3. QED
    BY <1>1, <2>2
<1>3. n - 1 \in Nat /\ n - 1 \notin T /\ (n - 1) + 1 = n
  BY <1>1, <1>2
<1>4. PICK f : Right(f, n - 1)
  BY <1>3
<1>5. \E g : Right(g, (n - 1) + 1)
  BY <1>3, <1>4, OneRankMore
<1>6. QED
  BY <1>1, <1>3, <1>5

LEMMA RightMeansOne ==
  ASSUME NEW S, NEW R, NEW up, NEW rank, NEW V, NEW base, NEW step,
         IsForest(S, R, up, rank), NEW n \in Nat, NEW m \in Nat, n <= m,
         NEW f, RightBelow(f, n, S, R, up, rank, V, base, step),
         NEW g, RightBelow(g, m, S, R, up, rank, V, base, step)
  PROVE  SameBelow(g, f, n, S, rank)
<1> DEFINE Good == {x \in S : rank[x] < n => g[x] = f[x]}
<1>1. ASSUME NEW x \in S, x \in R \/ up[x] \in Good, rank[x] < n
      PROVE  g[x] = f[x]
  <2>1. rank[x] < m
    BY <1>1 DEF IsForest
  <2>2. /\ f[x] = IF x \in R THEN base[x] ELSE step[x][f[up[x]]]
        /\ g[x] = IF x \in R THEN base[x] ELSE step[x][g[up[x]]]
    BY <1>1, <2>1 DEF RightBelow
  <2>3. x \notin R => rank[up[x]] < n
    BY <1>1 DEF IsForest
  <2>4. x \notin R => g[up[x]] = f[up[x]]
    BY <1>1, <2>3
  <2>5. QED
    BY <2>2, <2>4
<1>2. \A x \in S : x \in R \/ up[x] \in Good => x \in Good
  BY <1>1
<1>3. S \subseteq Good
  <2> HIDE DEF Good
  <2>1. QED
    BY <1>2, ForestInduction
<1>4. QED
  BY <1>3 DEF SameBelow

(* There is such a function.                                               *)
LEMMA ForestRecursion ==
  ASSUME NEW S, NEW R, NEW up, NEW rank, NEW V, NEW base, NEW step,
         IsForest(S, R, up, rank), Gives(S, R, V, base, step)
  PROVE  \E f \in [S -> V] : Inherits(f, S, R, up, base, step)
<1> DEFINE Right(f, n) == RightBelow(f, n, S, R, up, rank, V, base, step)
           pick(n) == CHOOSE f : Right(f, n)
           f == [x \in S |-> pick(rank[x] + 1)[x]]
<1>1. \A n \in Nat : Right(pick(n), n)
  BY EveryRank
<1> HIDE DEF pick
<1>2. ASSUME NEW x \in S, NEW n \in Nat, rank[x] < n
      PROVE  pick(n)[x] = f[x]
  <2>1. /\ rank[x] \in Nat /\ rank[x] + 1 \in Nat
        /\ rank[x] < rank[x] + 1 /\ rank[x] + 1 <= n
    BY <1>2 DEF IsForest
  <2>2. Right(pick(n), n) /\ Right(pick(rank[x] + 1), rank[x] + 1)
    BY <1>1, <2>1
  <2>3. SameBelow(pick(n), pick(rank[x] + 1), rank[x] + 1, S, rank)
    BY <2>1, <2>2, RightMeansOne
  <2>4. QED
    BY <2>1, <2>3 DEF SameBelow
<1>3. ASSUME NEW x \in S
      PROVE  f[x] \in V /\ f[x] = IF x \in R THEN base[x] ELSE step[x][f[up[x]]]
  <2> DEFINE n == rank[x] + 1
  <2>1. n \in Nat /\ rank[x] < n /\ rank[x] \in Nat
    BY DEF IsForest
  <2>2. Right(pick(n), n) /\ f[x] = pick(n)[x]
    BY <1>1, <2>1
  <2>3. CASE x \in R
    BY <2>1, <2>2, <2>3 DEF RightBelow
  <2>4. CASE x \notin R
    <3>1. up[x] \in S /\ rank[up[x]] < n
      BY <2>1, <2>4 DEF IsForest
    <3>2. pick(n)[up[x]] = f[up[x]]
      BY <1>2, <2>1, <3>1
    <3> HIDE DEF f, n
    <3>3. QED
      BY <2>1, <2>2, <2>4, <3>2 DEF RightBelow
  <2>5. QED
    BY <2>3, <2>4
<1>4. f \in [S -> V]
  BY <1>3
<1> HIDE DEF f
<1>5. \A x \in S : f[x] = IF x \in R THEN base[x] ELSE step[x][f[up[x]]]
  BY <1>3
<1>6. f = [x \in S |-> f[x]]
  BY <1>4
<1>7. Inherits(f, S, R, up, base, step)
  BY <1>5, <1>6 DEF Inherits
<1>8. QED
  BY <1>4, <1>7

-----------------------------------------------------------------------------
(* A number added up along a chain: position i takes what its parent p[i], *)
(* an earlier position, has, and adds h[i].  Position 0 has nothing.       *)
AddsUp(f, p, h, n) == f = [i \in 0 .. n |-> IF i = 0 THEN 0 ELSE f[p[i]] + h[i]]

IsChain(p, h, n) ==
  /\ n \in Nat
  /\ p \in [1 .. n -> Nat] /\ h \in [1 .. n -> Nat]
  /\ \A i \in 1 .. n : p[i] < i

(* A chain is a forest with the root 0.                                    *)
LEMMA ChainIsForest ==
  ASSUME NEW p, NEW h, NEW n, IsChain(p, h, n)
  PROVE  IsForest(0 .. n, {0}, p, [i \in 0 .. n |-> i])
<1>1. \A i \in (0 .. n) \ {0} : i \in 1 .. n /\ p[i] \in 0 .. n /\ p[i] < i
  BY DEF IsChain
<1>2. QED
  BY <1>1 DEF IsForest

(* There is such a function.                                               *)
LEMMA ChainsAddUp ==
  ASSUME NEW p, NEW h, NEW n, IsChain(p, h, n)
  PROVE  \E f \in [0 .. n -> Nat] : AddsUp(f, p, h, n)
<1> DEFINE S == 0 .. n
           rank == [i \in 0 .. n |-> i]
           base == [i \in {0} |-> 0]
           step == [i \in 0 .. n |-> [v \in Nat |-> v + h[i]]]
<1>1. IsForest(S, {0}, p, rank)
  BY ChainIsForest
<1>2. ASSUME NEW i \in S \ {0}
      PROVE  h[i] \in Nat /\ p[i] \in S /\ \A v \in Nat : step[i][v] = v + h[i]
  <2>1. i \in 1 .. n /\ n \in Nat
    BY DEF IsChain
  <2>2. QED
    BY <2>1 DEF IsChain
<1>3. \A i \in S \ {0} : \A v \in Nat : step[i][v] \in Nat
  BY <1>2
<1>4. base[0] = 0
  OBVIOUS
<1> HIDE DEF S, rank, base, step
<1>5. Gives(S, {0}, Nat, base, step)
  BY <1>3, <1>4 DEF Gives
<1>6. PICK f \in [S -> Nat] : Inherits(f, S, {0}, p, base, step)
  BY <1>1, <1>5, ForestRecursion
<1>7. ASSUME NEW i \in S
      PROVE  f[i] = IF i = 0 THEN 0 ELSE f[p[i]] + h[i]
  <2>1. f[i] = IF i \in {0} THEN base[i] ELSE step[i][f[p[i]]]
    BY <1>6 DEF Inherits
  <2>2. CASE i = 0
    BY <1>4, <2>1, <2>2
  <2>3. CASE i # 0
    BY <1>2, <2>1, <2>3
  <2>4. QED
    BY <2>2, <2>3
<1>8. AddsUp(f, p, h, n)
  BY <1>7 DEF AddsUp, S
<1>9. QED
  BY <1>8 DEF S

(* It depends on the chain so far only, and on nothing else.               *)
LEMMA SumsAgree ==
  ASSUME NEW n \in Nat, NEW m \in Nat, n <= m,
         NEW p, NEW h, IsChain(p, h, n), NEW f, AddsUp(f, p, h, n),
         NEW q, NEW k, NEW g, AddsUp(g, q, k, m),
         \A i \in 1 .. n : q[i] = p[i] /\ k[i] = h[i]
  PROVE  \A i \in 0 .. n : g[i] = f[i]
<1> DEFINE Good == {i \in 0 .. n : g[i] = f[i]}
<1>1. ASSUME NEW i \in 0 .. n, i \in {0} \/ p[i] \in Good
      PROVE  g[i] = f[i]
  <2>1. i \in 0 .. m
    OBVIOUS
  <2>2. /\ f[i] = IF i = 0 THEN 0 ELSE f[p[i]] + h[i]
        /\ g[i] = IF i = 0 THEN 0 ELSE g[q[i]] + k[i]
    BY <2>1 DEF AddsUp
  <2>3. i # 0 => q[i] = p[i] /\ k[i] = h[i] /\ g[p[i]] = f[p[i]]
    BY <1>1
  <2>4. QED
    BY <2>2, <2>3
<1>2. \A i \in 0 .. n : i \in {0} \/ p[i] \in Good => i \in Good
  BY <1>1
<1> HIDE DEF Good
<1>3. IsForest(0 .. n, {0}, p, [i \in 0 .. n |-> i])
  BY ChainIsForest
<1>4. 0 .. n \subseteq Good
  BY <1>2, <1>3, ForestInduction
<1>5. QED
  BY <1>4 DEF Good
=============================================================================
