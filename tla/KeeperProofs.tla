------------------------------ MODULE KeeperProofs ------------------------------
(***************************************************************************)
(* Proofs about KeeperTick for any memories, shelves, texts, batches and   *)
(* thresholds, through any number of kills: the types, that the watermark  *)
(* tells the truth, that nobody is asked twice about a pair, and that a    *)
(* tick that is left alone makes the shelves what the graph says.          *)
(*                                                                         *)
(* Each property has an invariant of its own (GraphInv, AskInv, ShelfInv)  *)
(* that is inductive given the types (KeeperInv).                          *)
(***************************************************************************)
EXTENDS KeeperTick, FiniteSetTheorems, TLAPS

-----------------------------------------------------------------------------
(* Orders of finite sets, and what a greedy choice along one of them leaves *)

\* R is a strict total order of M.
Orders(R, M) ==
  /\ \A x \in M : <<x, x>> \notin R
  /\ \A x, y, z \in M : <<x, y>> \in R /\ <<y, z>> \in R => <<x, z>> \in R
  /\ \A x, y \in M : x # y => <<x, y>> \in R \/ <<y, x>> \in R

\* A finite set that is not empty has a first element: of the sets of what comes
\* before an element, one is minimal.
LEMMA FirstExists ==
  ASSUME NEW M, IsFiniteSet(M), NEW R, Orders(R, M), NEW T, T \subseteq M, T # {}
  PROVE  \E x \in T : \A y \in T \ {x} : <<x, y>> \in R
<1> DEFINE down(x) == {y \in T : y = x \/ <<y, x>> \in R}
           downs == {down(x) : x \in T}
<1>1. downs \subseteq FiniteSubsetsOf(M) /\ downs # {}
  <2>1. downs \subseteq SUBSET M /\ downs # {}
    OBVIOUS
  <2> HIDE DEF downs
  <2> QED
    BY <2>1, FS_FiniteSubsetsOfFinite
<1>2. PICK D \in downs : \A E \in downs : <<E, D>> \notin StrictSubsetOrdering(M)
  BY <1>1, WFMin, FS_StrictSubsetOrderingWellFounded
<1>3. PICK x \in T : D = down(x)
  BY <1>2
<1>4. ASSUME NEW y \in T, y # x, <<y, x>> \in R PROVE FALSE
  <2>1. down(y) \subseteq down(x) /\ x \in down(x) /\ x \notin down(y)
    BY <1>4 DEF Orders
  <2>2. <<down(y), down(x)>> \in StrictSubsetOrdering(M)
    BY <2>1 DEF StrictSubsetOrdering
  <2> QED
    BY <1>2, <1>3, <2>2
<1> QED
  BY <1>4 DEF Orders

\* Along an order R some set W has just what meets nothing of W that comes before
\* it (K: what meets what).  Of the sets that are closed under what comes before
\* and have such a W, a largest one is everything: the first element that it
\* lacked could be decided and added.
LEMMA GreedyExists ==
  ASSUME NEW C, IsFiniteSet(C), NEW R, Orders(R, C), NEW K
  PROVE  \E W \in SUBSET C :
           \A a \in C : a \in W <=> ~\E b \in W : <<b, a>> \in R /\ <<b, a>> \in K
<1> DEFINE Beaten(a, W) == \E b \in W : <<b, a>> \in R /\ <<b, a>> \in K
           Decides(W, U) == W \subseteq U /\ \A a \in U : a \in W <=> ~Beaten(a, W)
           Complete(U) == U \subseteq C /\ \A a \in U, b \in C : <<b, a>> \in R => b \in U
           Good == {U \in SUBSET C : Complete(U) /\ \E W \in SUBSET C : Decides(W, U)}
           Left == {C \ U : U \in Good}
<1>1. {} \in Good
  <2>1. Complete({}) /\ Decides({}, {})
    OBVIOUS
  <2> HIDE DEF Complete, Decides
  <2>2. {} \in SUBSET C /\ \E W \in SUBSET C : Decides(W, {})
    BY <2>1
  <2> QED
    BY <2>1, <2>2
<1>2. Left \subseteq FiniteSubsetsOf(C) /\ Left # {}
  <2>1. Left \subseteq SUBSET C /\ Left # {}
    <3> HIDE DEF Good
    <3> QED
      BY <1>1
  <2> HIDE DEF Left
  <2> QED
    BY <2>1, FS_FiniteSubsetsOfFinite
<1>3. PICK D \in Left : \A E \in Left : <<E, D>> \notin StrictSubsetOrdering(C)
  <2> HIDE DEF Left
  <2> QED
    BY <1>2, WFMin, FS_StrictSubsetOrderingWellFounded
<1>4. PICK U \in Good : D = C \ U
  BY <1>3
<1>5. U \in SUBSET C /\ Complete(U)
  BY <1>4
<1>6. PICK W \in SUBSET C : Decides(W, U)
  BY <1>4
<1>7. ASSUME U # C PROVE FALSE
  <2>1. C \ U \subseteq C /\ C \ U # {}
    BY <1>5, <1>7
  <2>2. PICK a \in C \ U : \A y \in (C \ U) \ {a} : <<a, y>> \in R
    <3> HIDE DEF Good, Left, Complete, Decides
    <3> QED
      BY <2>1, FirstExists
  <2>3. a \in C /\ a \notin U
    BY <2>2
  <2> DEFINE V == U \union {a}
             X == IF Beaten(a, W) THEN W ELSE W \union {a}
  <2>4. \A b \in C : <<b, a>> \in R => b \in U
    BY <2>2, <2>3 DEF Orders
  <2>5. Complete(V)
    BY <1>5, <2>3, <2>4
  <2>6. \A c \in U : <<a, c>> \notin R
    BY <1>5, <2>3
  <2>7. <<a, a>> \notin R
    BY <2>3 DEF Orders
  <2>8. \A c \in V : Beaten(c, X) <=> Beaten(c, W)
    BY <2>6, <2>7
  <2>9. Decides(X, V)
    BY <1>6, <2>3, <2>8
  <2>10. V \in Good
    <3>1. V \in SUBSET C /\ X \in SUBSET C
      BY <1>5, <1>6, <2>3
    <3> HIDE DEF V, X
    <3> QED
      BY <3>1, <2>5, <2>9
  <2>11. C \ V \in Left
    BY <2>10
  <2>12. <<C \ V, D>> \in StrictSubsetOrdering(C)
    <3>1. C \ V \subseteq C /\ D \subseteq C /\ C \ V \subseteq D /\ C \ V # D
      BY <1>4, <2>3
    <3> QED
      BY <3>1 DEF StrictSubsetOrdering
  <2> QED
    <3> HIDE DEF Left, V
    <3> QED
      BY <1>3, <2>11, <2>12
<1>8. Decides(W, C)
  BY <1>6, <1>7
<1> QED
  BY <1>8

\* A set of numbers that is not empty has a least one.
LEMMA LeastExists ==
  ASSUME NEW S \in SUBSET Nat, IsFiniteSet(S), S # {}
  PROVE  Min(S) \in S /\ \A y \in S : Min(S) <= y
<1> DEFINE Up == {p \in S \X S : p[1] < p[2]}
<1>1. \A x, y \in S : <<x, y>> \in Up <=> x < y
  OBVIOUS
<1>2. \A x \in S : x \in Nat
  OBVIOUS
<1> HIDE DEF Up
<1>3. Orders(Up, S)
  BY <1>1, <1>2 DEF Orders
<1>4. PICK x \in S : \A y \in S \ {x} : <<x, y>> \in Up
  BY <1>3, FirstExists
<1>5. ASSUME NEW y \in S PROVE x <= y
  <2>1. y = x \/ <<x, y>> \in Up
    BY <1>4
  <2> QED
    BY <2>1, <1>1, <1>2
<1> QED
  BY <1>5 DEF Min

-----------------------------------------------------------------------------
(* The shapes of the variables *)

\* Memories have a vector that some text has, or none.
Vectors == {Subject[t] : t \in Texts} \union {None}

\* The types of what the tick holds of the shelves and the pairs.
ShelvingTypes ==
  /\ clusters \subseteq DOMAIN claim
  /\ \A c \in DOMAIN claim : c \subseteq Memories /\ c # {} /\ claim[c] \in Shelves \union {0}
  /\ seen \subseteq Shelves /\ taken \subseteq Shelves /\ pairs \subseteq Pairs
  /\ DOMAIN next = Pairs /\ \A p \in Pairs : next[p].count \in 0..NudgeTicks

QueueTypes ==
  /\ queue \in Seq([name: Memories, vec: Vectors]) /\ Len(queue) <= Batch
  /\ step \in {"idle", "prune", "link", "mark", "group", "shelve", "ask"}
  /\ step \in {"link", "mark"} => queue # <<>>

MemoryRows ==
  [place: {"live", "archived", "deleted"}, text: Texts, emb: Vectors, marked: BOOLEAN,
   at: 0..MaxEvents]

WorldTypes ==
  /\ mem \in [Memories -> MemoryRows]
  /\ shelf \in [Shelves -> [made: BOOLEAN, live: BOOLEAN, members: SUBSET Memories]]
  /\ \A s \in Shelves : shelf[s].live => shelf[s].made
  /\ manner \in {"none", "proposed", "granted"} /\ events \in 0..MaxEvents
  /\ missed \subseteq Memories /\ calm \in BOOLEAN

LedgerTypes == DOMAIN ledger = Pairs /\ \A p \in Pairs : ledger[p].count \in 0..NudgeTicks

KeeperInv ==
  ShelvingTypes /\ QueueTypes /\ WorldTypes /\ LedgerTypes /\ edges \subseteq Pairs

LEMMA QueuedAre ==
  ASSUME NEW q \in Seq([name: Memories, vec: Vectors])
  PROVE  /\ {q[i].name : i \in DOMAIN q} \subseteq Memories
         /\ \A i \in DOMAIN q : q[i].name \in Memories
<1> DEFINE Rows == [name: Memories, vec: Vectors]
<1>1. \A r \in Rows : r.name \in Memories
  OBVIOUS
<1>2. q \in Seq(Rows)
  OBVIOUS
<1> HIDE DEF Rows
<1>3. \A i \in DOMAIN q : q[i] \in Rows
  BY <1>2
<1> QED
  BY <1>1, <1>3

LEMMA TypesAre == ASSUME KeeperInv PROVE TypeOK
<1>1. queue \in Seq([name: Memories, vec: Vectors]) => Queued \subseteq Memories
  BY QueuedAre DEF Queued
<1> QED
  BY <1>1 DEF KeeperInv, TypeOK, ShelvingTypes, QueueTypes, WorldTypes, MemoryRows, LedgerTypes, Vectors

-----------------------------------------------------------------------------
(* Pairs and the queue *)

LEMMA PairsAre ==
  \A p : p \in Pairs <=> \E m, n \in Memories : m # n /\ p = {m, n}
<1>1. ASSUME NEW p \in Pairs PROVE \E m, n \in Memories : m # n /\ p = {m, n}
  <2>1. p \subseteq Memories /\ IsFiniteSet(p) /\ Cardinality(p) = 2
    BY KeeperAssumption, FS_Subset DEF Pairs
  <2>2. PICK m : m \in p
    BY <2>1, FS_EmptySet
  <2>3. IsFiniteSet(p \ {m}) /\ Cardinality(p \ {m}) = 1
    BY <2>1, <2>2, FS_RemoveElement
  <2>4. PICK n : p \ {m} = {n}
    BY <2>3, FS_Singleton
  <2> QED
    BY <2>1, <2>2, <2>4
<1>2. ASSUME NEW m \in Memories, NEW n \in Memories, m # n PROVE {m, n} \in Pairs
  <2>1. IsFiniteSet({m}) /\ Cardinality({m}) = 1
    BY FS_Singleton
  <2>2. Cardinality({m} \union {n}) = 2
    BY <2>1, <1>2, FS_AddElement
  <2>3. {m} \union {n} = {m, n}
    OBVIOUS
  <2> QED
    BY <2>2, <2>3 DEF Pairs
<1> QED
  BY <1>1, <1>2

\* updated_at and filename put the rows in a row: as many come before them as
\* there are numbers below, each number once.
LEMMA RowsAre ==
  ASSUME TypeOK, NEW i \in 1..Cardinality(Waiting)
  PROVE  /\ Row(i).name \in Waiting /\ Row(i) = [name |-> Row(i).name, vec |-> mem[Row(i).name].emb]
         /\ Cardinality({n \in Waiting : Before(n, Row(i).name)}) = i - 1
<1> DEFINE Under(m) == {n \in Waiting : Before(n, m)}
           size == Cardinality(Waiting)
           rank == [m \in Waiting |-> Cardinality(Under(m))]
<1>1. Waiting \subseteq Memories /\ IsFiniteSet(Waiting) /\ size \in Nat
  BY KeeperAssumption, FS_Subset, FS_CardinalityType DEF Waiting
<1>2. \A m \in Waiting : m \in Nat /\ mem[m].at \in Nat
  BY <1>1, KeeperAssumption DEF TypeOK
<1>3. ASSUME NEW m \in Waiting
      PROVE  Under(m) \subseteq Waiting /\ m \notin Under(m) /\ IsFiniteSet(Under(m))
  BY <1>1, <1>2, FS_Subset DEF Before
<1>4. ASSUME NEW m \in Waiting PROVE rank[m] \in 0..(size - 1)
  <2>1. Cardinality(Under(m)) <= size /\ (Cardinality(Under(m)) = size => Under(m) = Waiting)
    BY <1>1, <1>3, FS_Subset
  <2>2. Cardinality(Under(m)) \in Nat /\ Cardinality(Under(m)) # size
    BY <1>3, <2>1, FS_CardinalityType
  <2> QED
    BY <1>1, <2>1, <2>2
<1>5. ASSUME NEW m \in Waiting, NEW n \in Waiting, Before(m, n) PROVE rank[m] # rank[n]
  <2>1. Under(m) \subseteq Under(n)
    BY <1>2, <1>5 DEF Before
  <2>2. m \in Under(n) /\ m \notin Under(m)
    BY <1>3, <1>5
  <2> QED
    BY <1>3, <2>1, <2>2, FS_Subset
<1>6. rank \in Injection(Waiting, 0..(size - 1))
  <2>1. rank \in [Waiting -> 0..(size - 1)]
    BY <1>4
  <2>2. \A m, n \in Waiting : m # n => Before(m, n) \/ Before(n, m)
    BY <1>2 DEF Before
  <2>3. \A m, n \in Waiting : rank[m] = rank[n] => m = n
    BY <1>5, <2>2
  <2> HIDE DEF rank
  <2> QED
    BY <2>1, <2>3 DEF Injection, IsInjective
<1>7. rank \in Surjection(Waiting, 0..(size - 1))
  <2>1. IsFiniteSet(0..(size - 1)) /\ Cardinality(0..(size - 1)) = size
    <3> HIDE DEF size
    <3>1. 0 \in Int /\ size - 1 \in Int /\ (0 > size - 1 => size = 0)
      BY <1>1
    <3> QED
      BY <1>1, <3>1, FS_Interval
  <2> QED
    BY <1>6, <2>1, FS_Injection
<1>8. \E m \in Waiting : Cardinality(Under(m)) = i - 1
  <2>1. i - 1 \in 0..(size - 1)
    BY <1>1
  <2>2. \E m \in Waiting : rank[m] = i - 1
    BY <1>7, <2>1 DEF Surjection
  <2> QED
    BY <2>2
<1>9. Row(i).name = CHOOSE m \in Waiting : Cardinality(Under(m)) = i - 1
  BY DEF Row
<1> QED
  BY <1>8, <1>9 DEF Row

LEMMA BatchedIs ==
  ASSUME TypeOK
  PROVE  /\ Batched \in Seq([name: Memories, vec: Vectors]) /\ Len(Batched) <= Batch
         /\ \A i \in DOMAIN Batched :
              Batched[i].name \in Waiting /\ Batched[i].vec = mem[Batched[i].name].emb
         /\ \A i, j \in DOMAIN Batched : Batched[i].name = Batched[j].name => i = j
<1> DEFINE size == Cardinality(Waiting)
           len == Least(size, Batch)
<1>1. Waiting \subseteq Memories /\ size \in Nat
  BY KeeperAssumption, FS_Subset, FS_CardinalityType DEF Waiting
<1>2. len \in Nat /\ len <= size /\ len <= Batch
  BY <1>1, KeeperAssumption DEF Least
<1>3. Batched = [i \in 1..len |-> Row(i)]
  BY DEF Batched
<1> HIDE DEF len
<1>4. \A i \in 1..len : i \in 1..size
  BY <1>1, <1>2
<1>5. ASSUME NEW i \in 1..len
      PROVE  /\ Batched[i].name \in Waiting /\ Batched[i].vec = mem[Batched[i].name].emb
             /\ Cardinality({n \in Waiting : Before(n, Batched[i].name)}) = i - 1
             /\ Batched[i] \in [name: Memories, vec: Vectors]
  <2>1. Batched[i] = Row(i)
    BY <1>3
  <2>2. /\ Row(i).name \in Waiting /\ Row(i) = [name |-> Row(i).name, vec |-> mem[Row(i).name].emb]
        /\ Cardinality({n \in Waiting : Before(n, Row(i).name)}) = i - 1
    BY <1>4, RowsAre
  <2>3. mem[Row(i).name].emb \in Vectors
    BY <1>1, <2>2 DEF TypeOK, Vectors
  <2> QED
    BY <1>1, <2>1, <2>2, <2>3
<1>6. Batched \in Seq([name: Memories, vec: Vectors]) /\ Len(Batched) = len /\ DOMAIN Batched = 1..len
  <2> DEFINE Rows == [name: Memories, vec: Vectors]
  <2>1. Batched \in [1..len -> Rows]
    BY <1>3, <1>5
  <2> HIDE DEF Rows
  <2>2. Batched \in Seq(Rows) /\ Len(Batched) = len /\ DOMAIN Batched = 1..len
    BY <1>2, <2>1
  <2> QED
    BY <2>2 DEF Rows
<1>7. ASSUME NEW i \in 1..len, NEW j \in 1..len, Batched[i].name = Batched[j].name PROVE i = j
  <2> DEFINE before(m) == Cardinality({n \in Waiting : Before(n, m)})
  <2>1. before(Batched[i].name) = i - 1 /\ before(Batched[j].name) = j - 1
    BY <1>5
  <2> HIDE DEF before
  <2>2. i - 1 = j - 1
    BY <1>7, <2>1
  <2> QED
    BY <2>2
<1> QED
  BY <1>2, <1>5, <1>6, <1>7

-----------------------------------------------------------------------------
(* Components and claims *)

LEMMA ComponentsAre ==
  ASSUME TypeOK
  PROVE  /\ \A c \in Components : c \subseteq Memories /\ c # {} /\ IsFiniteSet(c)
         /\ \A c, d \in Components : c \intersect d # {} => c = d
<1>1. UNION Strict \subseteq Memories
  BY DEF TypeOK, Strict, Pairs
<1>2. ASSUME NEW c \in Components, NEW d \in Components, c \intersect d # {} PROVE c = d
  <2>1. Closed(c \intersect d)
    <3>1. Closed(c) /\ Closed(d)
      BY DEF Components
    <3> QED
      BY <3>1 DEF Closed
  <2>2. c \intersect d \in SUBSET (UNION Strict)
    BY DEF Components
  <2>3. c \subseteq c \intersect d /\ d \subseteq c \intersect d
    BY <1>2, <2>1, <2>2 DEF Components
  <2> QED
    BY <2>3
<1>3. ASSUME NEW c \in Components PROVE c \subseteq Memories /\ c # {} /\ IsFiniteSet(c)
  <2>1. c \subseteq Memories /\ c # {}
    BY <1>1 DEF Components
  <2> QED
    BY <2>1, KeeperAssumption, FS_Subset
<1> QED
  BY <1>2, <1>3

LEMMA SetHasMin ==
  ASSUME NEW c \in SUBSET Memories, c # {}
  PROVE  Min(c) \in c /\ Min(c) \in Nat
<1>1. c \subseteq Nat /\ IsFiniteSet(c)
  BY KeeperAssumption, FS_Subset
<1> QED
  BY <1>1, LeastExists

LEMMA FirstIs ==
  ASSUME clusters # {}, \A c \in clusters : c \subseteq Memories /\ c # {}
  PROVE  First \in clusters
<1> DEFINE mins == {Min(c) : c \in clusters}
<1>1. mins \subseteq Memories /\ mins # {}
  BY SetHasMin
<1>2. mins \subseteq Nat /\ IsFiniteSet(mins)
  BY <1>1, KeeperAssumption, FS_Subset
<1>3. Min(mins) \in mins /\ \A y \in mins : Min(mins) <= y
  <2> HIDE DEF mins
  <2> QED
    BY <1>1, <1>2, LeastExists
<1>4. PICK c \in clusters : Min(c) = Min(mins)
  BY <1>3
<1>5. \A d \in clusters : Min(c) <= Min(d)
  BY <1>3, <1>4
<1> QED
  BY <1>5 DEF First

LEMMA ClaimsAre ==
  ASSUME TypeOK
  PROVE  /\ IsFiniteSet(Claims)
         /\ \A a \in Claims : /\ a[1] \in Formed /\ a[2] \in LiveShelves /\ a = <<a[1], a[2]>>
                              /\ a[2] \in Nat /\ Min(a[1]) \in Nat
                              /\ Overlap(a[1], a[2]) \in Nat
<1>1. \A c \in Formed : c \in Components /\ c \subseteq Memories /\ c # {} /\ IsFiniteSet(c)
  BY ComponentsAre DEF Formed
<1>2. LiveShelves \subseteq Shelves /\ LiveShelves \subseteq Nat /\ IsFiniteSet(LiveShelves)
  BY KeeperAssumption, FS_Subset DEF LiveShelves
<1>3. IsFiniteSet(Formed)
  <2>1. Formed \in SUBSET (SUBSET Memories)
    BY <1>1
  <2> QED
    BY <2>1, KeeperAssumption, FS_SUBSET, FS_Subset
<1>4. IsFiniteSet(Formed \X LiveShelves) /\ Claims \subseteq Formed \X LiveShelves
  BY <1>2, <1>3, FS_Product DEF Claims
<1>5. ASSUME NEW c \in Formed, NEW s PROVE Overlap(c, s) \in Nat
  BY <1>1, FS_Intersection, FS_CardinalityType DEF Overlap
<1>6. ASSUME NEW a \in Claims
      PROVE  /\ a[1] \in Formed /\ a[2] \in LiveShelves /\ a = <<a[1], a[2]>>
             /\ a[2] \in Nat /\ Min(a[1]) \in Nat
             /\ Overlap(a[1], a[2]) \in Nat
  <2>1. a[1] \in Formed /\ a[2] \in LiveShelves /\ a = <<a[1], a[2]>>
    BY <1>4
  <2>2. PICK c \in Formed : c = a[1]
    BY <2>1
  <2>3. Min(c) \in Nat /\ Overlap(c, a[2]) \in Nat
    BY <1>1, <1>5, SetHasMin
  <2> QED
    BY <1>2, <2>1, <2>2, <2>3
<1> QED
  BY <1>4, <1>6, FS_Subset

\* Claims for one shelf by clusters that overlap it as much are told apart by the
\* first names of the clusters, which have no memory in common.
LEMMA BetterOrders ==
  ASSUME TypeOK
  PROVE  Orders({p \in Claims \X Claims : Better(p[1], p[2])}, Claims)
<1> DEFINE R == {p \in Claims \X Claims : Better(p[1], p[2])}
           size(a) == Overlap(a[1], a[2])
           least(a) == Min(a[1])
<1>1. \A a \in Claims : /\ a[1] \in Formed /\ a = <<a[1], a[2]>>
                        /\ a[2] \in Nat /\ least(a) \in Nat /\ size(a) \in Nat
  BY ClaimsAre
<1>2. \A a, b \in Claims : <<a, b>> \in R <=> Better(a, b)
  OBVIOUS
<1>3. \A a, b \in Claims : a[2] = b[2] /\ least(a) = least(b) => a = b
  <2>1. \A c \in Formed : c \in Components /\ c \subseteq Memories /\ c # {} /\ Min(c) \in c
    BY ComponentsAre, SetHasMin DEF Formed
  <2>2. \A c, d \in Formed : Min(c) = Min(d) => c = d
    BY <2>1, ComponentsAre
  <2> QED
    BY <1>1, <2>2
<1>4. \A a, b : Better(a, b) <=> \/ size(a) > size(b)
                                 \/ size(a) = size(b) /\ a[2] < b[2]
                                 \/ size(a) = size(b) /\ a[2] = b[2] /\ least(a) < least(b)
  BY DEF Better
<1> HIDE DEF R, size, least
<1>5. \A a \in Claims : ~Better(a, a)
  BY <1>1, <1>4
<1>6. \A a, b, c \in Claims : Better(a, b) /\ Better(b, c) => Better(a, c)
  BY <1>1, <1>4
<1>7. \A a, b \in Claims : a # b => Better(a, b) \/ Better(b, a)
  BY <1>1, <1>3, <1>4
<1>8. Orders(R, Claims)
  BY <1>2, <1>5, <1>6, <1>7 DEF Orders
<1> QED
  BY <1>8 DEF R

\* matchClusters has an outcome, and that outcome is one to one.
LEMMA MatchedIs ==
  ASSUME TypeOK
  PROVE  /\ Matched \subseteq Claims
         /\ \A a, b \in Matched : a[1] = b[1] \/ a[2] = b[2] => a = b
<1> DEFINE R == {p \in Claims \X Claims : Better(p[1], p[2])}
           K == {p \in Claims \X Claims : p[1][1] = p[2][1] \/ p[1][2] = p[2][2]}
           Wins(W) == \A a \in Claims :
                        a \in W <=> ~\E b \in W : Better(b, a) /\ (a[1] = b[1] \/ a[2] = b[2])
<1>1. Orders(R, Claims)
  BY BetterOrders
<1>2. \A a, b \in Claims : /\ <<b, a>> \in R <=> Better(b, a)
                           /\ <<b, a>> \in K <=> (a[1] = b[1] \/ a[2] = b[2])
  OBVIOUS
<1> HIDE DEF R, K
<1>3. PICK W \in SUBSET Claims :
        \A a \in Claims : a \in W <=> ~\E b \in W : <<b, a>> \in R /\ <<b, a>> \in K
  <2>1. IsFiniteSet(Claims)
    BY ClaimsAre
  <2> HIDE DEF Wins
  <2> QED
    BY <1>1, <2>1, GreedyExists, Zenon
<1>4. Wins(W)
  BY <1>2, <1>3
<1>5. Matched = CHOOSE won \in SUBSET Claims : Wins(won)
  BY DEF Matched
<1>6. Matched \in SUBSET Claims /\ Wins(Matched)
  <2> HIDE DEF Wins
  <2> QED
    BY <1>4, <1>5
<1>7. \A a, b \in Claims : a # b => Better(a, b) \/ Better(b, a)
  BY <1>1, <1>2 DEF Orders
<1> QED
  BY <1>6, <1>7

-----------------------------------------------------------------------------
(* Types *)

LEMMA HeadIs ==
  ASSUME KeeperInv, queue # <<>>
  PROVE  /\ Head(queue).name \in Memories /\ Tail(queue) \in Seq([name: Memories, vec: Vectors])
         /\ Head(queue) = queue[1] /\ 1 \in DOMAIN queue /\ Len(queue) \in Nat \ {0}
         /\ Len(Tail(queue)) = Len(queue) - 1
         /\ \A i \in DOMAIN Tail(queue) : i + 1 \in DOMAIN queue /\ Tail(queue)[i] = queue[i + 1]
         /\ Tail(queue) # <<>> => Head(Tail(queue)) = queue[2] /\ 2 \in DOMAIN queue
<1> DEFINE Rows == [name: Memories, vec: Vectors]
<1>1. queue \in Seq(Rows) /\ queue # <<>>
  BY DEF KeeperInv, QueueTypes
<1>2. \A r \in Rows : r.name \in Memories
  OBVIOUS
<1> HIDE DEF Rows
<1>3. /\ Head(queue) \in Rows /\ Tail(queue) \in Seq(Rows)
      /\ Head(queue) = queue[1] /\ DOMAIN queue = 1..Len(queue) /\ Len(queue) \in Nat \ {0}
      /\ Len(Tail(queue)) = Len(queue) - 1 /\ DOMAIN Tail(queue) = 1..(Len(queue) - 1)
      /\ \A i \in 1..(Len(queue) - 1) : Tail(queue)[i] = queue[i + 1]
  BY <1>1
<1>4. Tail(queue) # <<>> => Len(queue) - 1 # 0 /\ Head(Tail(queue)) = Tail(queue)[1]
  BY <1>1, <1>3
<1> QED
  BY <1>2, <1>3, <1>4 DEF Rows

LEMMA NearPairs ==
  ASSUME NEW row, row.name \in Memories
  PROVE  {{row.name, m} : m \in Near(row)} \subseteq Pairs
BY PairsAre DEF Near

\* Who claimed which shelf.
LEMMA GroupIs ==
  ASSUME TypeOK, Group
  PROVE  /\ clusters' = Formed /\ DOMAIN claim' = Formed
         /\ \A c \in Formed : claim'[c] \in LiveShelves \union {0}
         /\ \A c, d \in Formed : claim'[c] = claim'[d] /\ claim'[c] # 0 => c = d
         /\ taken' = {claim'[c] : c \in {d \in Formed : claim'[d] # 0}}
<1>1. /\ clusters' = Formed
      /\ claim' = [c \in Formed |->
                    IF \E s \in LiveShelves : <<c, s>> \in Matched
                    THEN CHOOSE s \in LiveShelves : <<c, s>> \in Matched ELSE 0]
      /\ taken' = {pair[2] : pair \in Matched}
  BY DEF Group
<1>2. \A s \in LiveShelves : s # 0
  BY KeeperAssumption DEF LiveShelves
<1>3. ASSUME NEW c \in Formed
      PROVE  \/ claim'[c] = 0 /\ \A s \in LiveShelves : <<c, s>> \notin Matched
             \/ claim'[c] \in LiveShelves /\ <<c, claim'[c]>> \in Matched
  BY <1>1
<1>4. /\ \A a \in Matched : a[1] \in Formed /\ a[2] \in LiveShelves /\ a = <<a[1], a[2]>>
      /\ \A a, b \in Matched : a[1] = b[1] \/ a[2] = b[2] => a = b
  BY MatchedIs, ClaimsAre
<1>5. \A c, d \in Formed : claim'[c] = claim'[d] /\ claim'[c] # 0 => c = d
  <2> TAKE c, d \in Formed
  <2>1. HAVE claim'[c] = claim'[d] /\ claim'[c] # 0
  <2>2. PICK s : s = claim'[c]
    OBVIOUS
  <2>3. <<c, s>> \in Matched /\ <<d, s>> \in Matched
    BY <1>3, <2>1, <2>2
  <2>4. <<c, s>> = <<d, s>>
    BY <1>4, <2>3
  <2> QED
    BY <2>4
<1>6. ASSUME NEW a \in Matched PROVE claim'[a[1]] = a[2] /\ claim'[a[1]] # 0 /\ a[1] \in Formed
  <2>1. PICK c \in Formed, s \in LiveShelves : a = <<c, s>>
    BY <1>4
  <2>2. claim'[c] \in LiveShelves /\ <<c, claim'[c]>> \in Matched
    BY <1>3, <2>1
  <2>3. PICK t : t = claim'[c]
    OBVIOUS
  <2>4. <<c, t>> = <<c, s>>
    BY <1>4, <2>1, <2>2, <2>3
  <2> QED
    BY <1>2, <2>1, <2>2, <2>3, <2>4
<1>7. ASSUME NEW c \in Formed, claim'[c] # 0 PROVE \E a \in Matched : a[2] = claim'[c]
  BY <1>3, <1>7
<1>8. ASSUME NEW x \in taken' PROVE \E c \in Formed : claim'[c] # 0 /\ x = claim'[c]
  <2>1. PICK a \in Matched : x = a[2]
    BY <1>1
  <2>2. PICK c \in Formed : c = a[1]
    BY <1>6
  <2> QED
    BY <1>6, <2>1, <2>2
<1>9. ASSUME NEW c \in Formed, claim'[c] # 0 PROVE claim'[c] \in taken'
  BY <1>1, <1>7, <1>9
<1>10. taken' = {claim'[c] : c \in {d \in Formed : claim'[d] # 0}}
  BY <1>8, <1>9
<1>11. \A c \in Formed : claim'[c] \in LiveShelves \union {0}
  BY <1>3
<1>12. DOMAIN claim' = Formed
  BY <1>1
<1> QED
  BY <1>1, <1>5, <1>10, <1>11, <1>12

LEMMA QueueKeeps ==
  ASSUME KeeperInv, Plan \/ Prune \/ Link \/ Mark
  PROVE  KeeperInv'
<1>1. ShelvingTypes /\ QueueTypes /\ WorldTypes /\ LedgerTypes /\ edges \subseteq Pairs
  BY DEF KeeperInv
<1>2. ShelvingTypes' /\ LedgerTypes'
  BY <1>1 DEF ShelvingTypes, LedgerTypes, Plan, Prune, Link, Mark, KeepShelving
<1>3. CASE Plan
  <2>1. QueueTypes'
    BY <1>3, BatchedIs, TypesAre DEF Plan, QueueTypes
  <2>2. WorldTypes' /\ edges' \subseteq Pairs
    BY <1>1, <1>3 DEF Plan, WorldTypes
  <2> QED
    BY <1>2, <2>1, <2>2 DEF KeeperInv
<1>4. CASE Prune
  <2>1. QueueTypes' /\ WorldTypes' /\ edges' \subseteq Pairs
    BY <1>1, <1>4 DEF Prune, QueueTypes, WorldTypes, world, Strict
  <2> QED
    BY <1>2, <2>1 DEF KeeperInv
<1>5. CASE Link
  <2>1. Head(queue).name \in Memories
    BY <1>1, <1>5, HeadIs DEF Link, QueueTypes
  <2>2. edges' \subseteq Pairs
    BY <1>1, <1>5, <2>1, NearPairs DEF Link, Linked
  <2>3. QueueTypes' /\ WorldTypes'
    BY <1>1, <1>5 DEF Link, QueueTypes, WorldTypes, world
  <2> QED
    BY <1>2, <2>2, <2>3 DEF KeeperInv
<1>6. CASE Mark
  <2>1. /\ Head(queue).name \in Memories /\ Tail(queue) \in Seq([name: Memories, vec: Vectors])
        /\ Len(Tail(queue)) = Len(queue) - 1 /\ Len(queue) \in Nat
    BY <1>1, <1>6, HeadIs DEF Mark, QueueTypes
  <2>2. QueueTypes'
    <3>1. Len(Tail(queue)) <= Batch
      BY <1>1, <2>1, KeeperAssumption DEF QueueTypes
    <3> QED
      BY <1>6, <2>1, <3>1 DEF Mark, QueueTypes
  <2>3. PICK h \in Memories : h = Head(queue).name
    BY <2>1
  <2>4. mem' = [mem EXCEPT ![h] = [mem[h] EXCEPT !.marked = TRUE]]
    BY <1>6, <2>3 DEF Mark, Marked
  <2>5. PICK r : r = [mem[h] EXCEPT !.marked = TRUE]
    OBVIOUS
  <2>6. r \in MemoryRows
    BY <1>1, <2>5 DEF WorldTypes, MemoryRows
  <2>7. mem' \in [Memories -> MemoryRows]
    BY <1>1, <2>4, <2>5, <2>6 DEF WorldTypes
  <2>8. WorldTypes' /\ edges' \subseteq Pairs
    BY <1>1, <1>6, <2>7 DEF Mark, WorldTypes
  <2> QED
    BY <1>2, <2>2, <2>8 DEF KeeperInv
<1> QED
  BY <1>3, <1>4, <1>5, <1>6

LEMMA GroupKeeps ==
  ASSUME KeeperInv, Group
  PROVE  KeeperInv'
<1>1. ShelvingTypes /\ QueueTypes /\ WorldTypes /\ LedgerTypes /\ edges \subseteq Pairs
  BY DEF KeeperInv
<1>2. \A c \in Components : c \subseteq Memories /\ c # {}
  BY ComponentsAre, TypesAre
<1>3. /\ clusters' = Formed /\ DOMAIN claim' = Formed
      /\ \A c \in Formed : claim'[c] \in LiveShelves \union {0}
      /\ taken' = {claim'[c] : c \in {d \in Formed : claim'[d] # 0}}
  BY GroupIs, TypesAre
<1>4. LiveShelves \subseteq Shelves
  BY DEF LiveShelves
<1>5. /\ clusters' \subseteq DOMAIN claim' /\ taken' \subseteq Shelves
      /\ \A c \in DOMAIN claim' : c \subseteq Memories /\ c # {} /\ claim'[c] \in Shelves \union {0}
  BY <1>2, <1>3, <1>4 DEF Formed
<1>6. pairs' \subseteq Pairs
  BY <1>2 DEF Group, Pairs
<1>7. seen' \subseteq Shelves /\ next' = next
  BY <1>4 DEF Group
<1>8. ShelvingTypes'
  BY <1>1, <1>5, <1>6, <1>7 DEF ShelvingTypes
<1>9. QueueTypes' /\ WorldTypes' /\ LedgerTypes' /\ edges' \subseteq Pairs
  BY <1>1 DEF Group, QueueTypes, WorldTypes, LedgerTypes, world
<1> QED
  BY <1>8, <1>9 DEF KeeperInv

LEMMA ShelfWritten ==
  ASSUME WorldTypes, NEW s \in Shelves, NEW ms \in SUBSET Memories, shelf' = Written(s, ms)
  PROVE  /\ shelf' \in [Shelves -> [made: BOOLEAN, live: BOOLEAN, members: SUBSET Memories]]
         /\ \A t \in Shelves : shelf'[t].live => shelf'[t].made
         /\ shelf'[s].live /\ shelf'[s].members = ms
         /\ \A t \in Shelves \ {s} : shelf'[t] = shelf[t]
BY DEF WorldTypes, Written

LEMMA FreeNameIs ==
  ASSUME \E s \in Shelves : ~shelf[s].made
  PROVE  FreeName \in Shelves /\ ~shelf[FreeName].made
<1> DEFINE free == {s \in Shelves : ~shelf[s].made}
<1>1. free \subseteq Nat /\ IsFiniteSet(free) /\ free # {}
  BY KeeperAssumption, FS_Subset
<1>2. Min(free) \in free
  <2> HIDE DEF free
  <2> QED
    BY <1>1, LeastExists
<1> QED
  BY <1>2 DEF FreeName

LEMMA ShelveKeeps ==
  ASSUME KeeperInv, ShelveKnown \/ ShelveNew \/ ShelveNone \/ Swept \/ \E s \in Shelves : Sweep(s)
  PROVE  KeeperInv'
<1>1. ShelvingTypes /\ QueueTypes /\ WorldTypes /\ LedgerTypes /\ edges \subseteq Pairs
  BY DEF KeeperInv
<1>2. ShelvingTypes'
  BY <1>1 DEF ShelvingTypes, ShelveKnown, ShelveNew, ShelveNone, Released, Sweep, Swept, KeepPairs
<1>3. QueueTypes' /\ LedgerTypes' /\ edges' \subseteq Pairs
  BY <1>1 DEF QueueTypes, LedgerTypes, ShelveKnown, ShelveNew, ShelveNone, Sweep, Swept, KeepPairs
<1>4. CASE ShelveNone \/ Swept
  <2>1. WorldTypes'
    BY <1>1, <1>4 DEF WorldTypes, ShelveNone, Swept, KeepPairs, world
  <2> QED
    BY <1>2, <1>3, <2>1 DEF KeeperInv
<1>5. CASE \E s \in Shelves : Sweep(s)
  <2>1. PICK s \in Shelves : Sweep(s)
    BY <1>5
  <2>2. PICK r : r = [shelf[s] EXCEPT !.live = FALSE]
    OBVIOUS
  <2>3. /\ shelf' \in [Shelves -> [made: BOOLEAN, live: BOOLEAN, members: SUBSET Memories]]
        /\ \A t \in Shelves : shelf'[t].live => shelf'[t].made
    <3>1. shelf' = [shelf EXCEPT ![s] = r]
      BY <2>1, <2>2 DEF Sweep
    <3>2. r \in [made: BOOLEAN, live: BOOLEAN, members: SUBSET Memories] /\ ~r.live
      BY <1>1, <2>2 DEF WorldTypes
    <3> QED
      BY <1>1, <3>1, <3>2 DEF WorldTypes
  <2>4. WorldTypes'
    BY <1>1, <2>1, <2>3 DEF WorldTypes, Sweep
  <2> QED
    BY <1>2, <1>3, <2>4 DEF KeeperInv
<1>6. CASE ShelveKnown \/ ShelveNew
  <2>1. First \in clusters /\ First \in DOMAIN claim /\ First \subseteq Memories
    <3>1. clusters # {} /\ \A c \in clusters : c \subseteq Memories /\ c # {}
      BY <1>1, <1>6 DEF ShelvingTypes, ShelveKnown, ShelveNew
    <3> QED
      BY <1>1, <3>1, FirstIs DEF ShelvingTypes
  <2>2. Clear(First) \subseteq Memories
    BY <2>1 DEF Clear
  <2>3. UNCHANGED shelf \/ \E s \in Shelves : shelf' = Written(s, Clear(First))
    <3>1. CASE ShelveKnown
      BY <1>1, <2>1, <3>1 DEF ShelveKnown, ShelvingTypes
    <3>2. CASE ShelveNew
      BY <3>2, FreeNameIs DEF ShelveNew
    <3> QED
      BY <1>6, <3>1, <3>2
  <2>4. /\ shelf' \in [Shelves -> [made: BOOLEAN, live: BOOLEAN, members: SUBSET Memories]]
        /\ \A t \in Shelves : shelf'[t].live => shelf'[t].made
    <3>1. PICK ms : ms = Clear(First)
      OBVIOUS
    <3>2. CASE UNCHANGED shelf
      BY <1>1, <3>2 DEF WorldTypes
    <3>3. ASSUME NEW s \in Shelves, shelf' = Written(s, ms)
          PROVE  /\ shelf' \in [Shelves -> [made: BOOLEAN, live: BOOLEAN, members: SUBSET Memories]]
                 /\ \A t \in Shelves : shelf'[t].live => shelf'[t].made
      BY <1>1, <2>2, <3>1, <3>3, ShelfWritten
    <3> QED
      BY <2>3, <3>1, <3>2, <3>3
  <2>5. UNCHANGED <<mem, manner, events, calm, missed>>
    BY <1>6 DEF ShelveKnown, ShelveNew, KeepPairs
  <2>6. WorldTypes'
    BY <1>1, <2>4, <2>5 DEF WorldTypes
  <2> QED
    BY <1>2, <1>3, <2>6 DEF KeeperInv
<1> QED
  BY <1>4, <1>5, <1>6

\* Between ticks nothing is under way.
LEMMA NothingTypes ==
  ASSUME step = "idle", queue = <<>>, clusters = {}, claim = <<>>, seen = {}, taken = {},
         pairs = {}, next = NoLedger
  PROVE  ShelvingTypes /\ QueueTypes
<1>1. DOMAIN claim = {}
  OBVIOUS
<1>2. ShelvingTypes
  BY <1>1, KeeperAssumption DEF ShelvingTypes, NoLedger, NoEntry
<1>3. queue \in Seq([name: Memories, vec: Vectors]) /\ Len(queue) = 0
  OBVIOUS
<1> QED
  BY <1>2, <1>3, KeeperAssumption DEF QueueTypes

LEMMA IdleTypes ==
  ASSUME Idle
  PROVE  ShelvingTypes' /\ QueueTypes'
<1>1. DOMAIN claim' = {}
  BY DEF Idle
<1>2. ShelvingTypes'
  BY <1>1, KeeperAssumption DEF Idle, ShelvingTypes, NoLedger, NoEntry
<1>3. queue' \in Seq([name: Memories, vec: Vectors]) /\ Len(queue') = 0
  BY DEF Idle
<1> QED
  BY <1>2, <1>3, KeeperAssumption DEF Idle, QueueTypes

LEMMA CountIs ==
  ASSUME LedgerTypes, NEW p \in Pairs
  PROVE  Count(p) \in 0..NudgeTicks
BY KeeperAssumption DEF LedgerTypes, Count, Least

LEMMA PairsKeep ==
  ASSUME KeeperInv, SaveLedger \/ \E p \in Pairs : Ask(p) \/ PassOver(p)
  PROVE  KeeperInv'
<1>1. ShelvingTypes /\ QueueTypes /\ WorldTypes /\ LedgerTypes /\ edges \subseteq Pairs
  BY DEF KeeperInv
<1>2. CASE SaveLedger
  <2>1. ShelvingTypes' /\ QueueTypes'
    BY <1>2, IdleTypes DEF SaveLedger
  <2>2. WorldTypes' /\ LedgerTypes' /\ edges' \subseteq Pairs
    BY <1>1, <1>2 DEF ShelvingTypes, WorldTypes, LedgerTypes, SaveLedger, world
  <2> QED
    BY <2>1, <2>2 DEF KeeperInv
<1>3. ASSUME NEW p \in Pairs, Ask(p) \/ PassOver(p) PROVE KeeperInv'
  <2>1. ShelvingTypes'
    <3>1. next' = next \/ next' = Noted(p)
      BY <1>3 DEF Ask, PassOver
    <3>2. DOMAIN next' = Pairs /\ \A q \in Pairs : next'[q].count \in 0..NudgeTicks
      BY <1>1, <3>1, CountIs DEF ShelvingTypes, Noted
    <3> QED
      BY <1>1, <1>3, <3>2 DEF ShelvingTypes, Ask, PassOver, KeepRest
  <2>2. QueueTypes' /\ WorldTypes' /\ LedgerTypes' /\ edges' \subseteq Pairs
    BY <1>1, <1>3 DEF QueueTypes, WorldTypes, LedgerTypes, Ask, PassOver, KeepRest
  <2> QED
    BY <2>1, <2>2 DEF KeeperInv
<1> QED
  BY <1>2, <1>3

\* What the keyholder and the host do to the memories and the shelves.
LEMMA SaveTypes ==
  ASSUME WorldTypes, NEW m \in Memories, NEW t \in Texts, Save(m, t), events + 1 \in 0..MaxEvents
  PROVE  mem' \in [Memories -> MemoryRows] /\ missed' \subseteq Memories
<1> DEFINE r == mem[m]
           same == r.text = t
           new == [place |-> IF r.place = "deleted" THEN "live" ELSE r.place, text |-> t,
                   emb |-> IF same THEN r.emb ELSE None, marked |-> same /\ r.marked,
                   at |-> events + 1]
<1>1. r \in MemoryRows
  BY DEF WorldTypes
<1>2. new.place \in {"live", "archived", "deleted"} /\ new.text \in Texts /\ new.emb \in Vectors
  BY <1>1 DEF MemoryRows, Vectors
<1>3. new.marked \in BOOLEAN /\ new.at \in 0..MaxEvents
  BY <1>1 DEF MemoryRows
<1>4. new \in MemoryRows
  BY <1>2, <1>3 DEF MemoryRows
<1>5. mem' = [mem EXCEPT ![m] = new]
  BY DEF Save
<1> HIDE DEF new
<1> QED
  BY <1>4, <1>5 DEF WorldTypes, Save, Suspect

LEMMA PlaceTypes ==
  ASSUME WorldTypes, NEW m \in Memories, Delete(m) \/ \E archived \in BOOLEAN : Archive(m, archived)
  PROVE  mem' \in [Memories -> MemoryRows] /\ missed' \subseteq Memories
<1>1. PICK place \in {"live", "archived", "deleted"} : mem' = [mem EXCEPT ![m].place = place]
  BY DEF Delete, Archive
<1>2. PICK new : new = [mem[m] EXCEPT !.place = place]
  OBVIOUS
<1>3. mem' = [mem EXCEPT ![m] = new] /\ new \in MemoryRows
  BY <1>1, <1>2 DEF WorldTypes, MemoryRows
<1> QED
  BY <1>3 DEF WorldTypes, Delete, Archive, Suspect

LEMMA EmbedTypes ==
  ASSUME WorldTypes, NEW m \in Memories, Embed(m)
  PROVE  mem' \in [Memories -> MemoryRows] /\ missed' \subseteq Memories
<1>1. mem[m].text \in Texts
  BY DEF WorldTypes, MemoryRows
<1>2. PICK vec \in Vectors : vec = Subject[mem[m].text]
  BY <1>1 DEF Vectors
<1>3. PICK new : new = [mem[m] EXCEPT !.emb = vec, !.marked = FALSE]
  OBVIOUS
<1>4. new \in MemoryRows
  BY <1>3 DEF WorldTypes, MemoryRows
<1>5. mem' = [mem EXCEPT ![m] = new]
  BY <1>2, <1>3 DEF Embed, WorldTypes
<1>6. missed' \subseteq Memories
  BY DEF WorldTypes, Embed, Suspect
<1> QED
  BY <1>4, <1>5, <1>6 DEF WorldTypes

LEMMA ShelfPutAway ==
  ASSUME WorldTypes, NEW s \in Shelves, NEW archived \in BOOLEAN, ArchiveShelf(s, archived)
  PROVE  /\ shelf' \in [Shelves -> [made: BOOLEAN, live: BOOLEAN, members: SUBSET Memories]]
         /\ \A t \in Shelves : shelf'[t].live => shelf'[t].made
<1>1. PICK r : r = [shelf[s] EXCEPT !.live = ~archived]
  OBVIOUS
<1>2. r \in [made: BOOLEAN, live: BOOLEAN, members: SUBSET Memories] /\ r.made
  BY <1>1 DEF WorldTypes, ArchiveShelf
<1>3. shelf' = [shelf EXCEPT ![s] = r]
  BY <1>1 DEF ArchiveShelf
<1> QED
  BY <1>2, <1>3 DEF WorldTypes

LEMMA WorldKeeps ==
  ASSUME KeeperInv, Keyholder \/ \E m \in Memories : Embed(m)
  PROVE  KeeperInv'
<1>1. ShelvingTypes /\ QueueTypes /\ WorldTypes /\ LedgerTypes /\ edges \subseteq Pairs
  BY DEF KeeperInv
<1>2. ShelvingTypes' /\ QueueTypes' /\ LedgerTypes' /\ edges' \subseteq Pairs
  <2>1. UNCHANGED <<tick, edges, ledger>>
    BY DEF Keyholder, Embed, KeepTick
  <2> QED
    BY <1>1, <2>1 DEF tick, ShelvingTypes, QueueTypes, LedgerTypes
<1>3. CASE Keyholder
  <2>1. events' = events + 1 /\ events' \in 0..MaxEvents /\ calm' = FALSE
    BY <1>1, <1>3, KeeperAssumption DEF Keyholder, Happens, WorldTypes
  <2>2. ASSUME \E m \in Memories, t \in Texts : Save(m, t) PROVE WorldTypes'
    <3>1. PICK m \in Memories, t \in Texts : Save(m, t)
      BY <2>2
    <3>2. mem' \in [Memories -> MemoryRows] /\ missed' \subseteq Memories
      BY <1>1, <2>1, <3>1, SaveTypes
    <3> QED
      BY <1>1, <2>1, <3>1, <3>2 DEF WorldTypes, Save
  <2>3. ASSUME \E m \in Memories : Delete(m) \/ \E archived \in BOOLEAN : Archive(m, archived) PROVE WorldTypes'
    <3>1. PICK m \in Memories : Delete(m) \/ \E archived \in BOOLEAN : Archive(m, archived)
      BY <2>3
    <3>2. mem' \in [Memories -> MemoryRows] /\ missed' \subseteq Memories
      BY <1>1, <3>1, PlaceTypes
    <3>3. UNCHANGED <<shelf, manner>>
      BY <3>1 DEF Delete, Archive
    <3> QED
      BY <1>1, <2>1, <3>2, <3>3 DEF WorldTypes
  <2>4. ASSUME \E s \in Shelves, archived \in BOOLEAN : ArchiveShelf(s, archived) PROVE WorldTypes'
    <3>1. PICK s \in Shelves, archived \in BOOLEAN : ArchiveShelf(s, archived)
      BY <2>4
    <3>2. /\ shelf' \in [Shelves -> [made: BOOLEAN, live: BOOLEAN, members: SUBSET Memories]]
          /\ \A t \in Shelves : shelf'[t].live => shelf'[t].made
      BY <1>1, <3>1, ShelfPutAway
    <3> QED
      BY <1>1, <2>1, <3>1, <3>2 DEF WorldTypes, ArchiveShelf
  <2>5. ASSUME Grant PROVE WorldTypes'
    BY <1>1, <2>1, <2>5 DEF WorldTypes, Grant
  <2>6. WorldTypes'
    BY <1>3, <2>2, <2>3, <2>4, <2>5 DEF Keyholder
  <2> QED
    BY <1>2, <2>6 DEF KeeperInv
<1>4. CASE \E m \in Memories : Embed(m)
  <2>1. PICK m \in Memories : Embed(m)
    BY <1>4
  <2>2. mem' \in [Memories -> MemoryRows] /\ missed' \subseteq Memories
    BY <1>1, <2>1, EmbedTypes
  <2>3. WorldTypes'
    BY <1>1, <2>1, <2>2 DEF WorldTypes, Embed
  <2> QED
    BY <1>2, <2>3 DEF KeeperInv
<1> QED
  BY <1>3, <1>4

LEMMA CrashKeeps ==
  ASSUME KeeperInv, Crash
  PROVE  KeeperInv'
<1>1. ShelvingTypes /\ QueueTypes /\ WorldTypes /\ LedgerTypes /\ edges \subseteq Pairs
  BY DEF KeeperInv
<1>2. ShelvingTypes' /\ QueueTypes'
  BY IdleTypes DEF Crash
<1>3. edges' \subseteq Pairs
  <2>1. CASE step = "link"
    <3>1. Head(queue).name \in Memories
      BY <1>1, <2>1, HeadIs DEF QueueTypes
    <3>2. {{Head(queue).name, m} : m \in Near(Head(queue))} \subseteq Pairs
      BY <3>1, NearPairs
    <3> QED
      BY <1>1, <2>1, <3>2 DEF Crash
  <2>2. CASE step # "link"
    BY <1>1, <2>2 DEF Crash
  <2> QED
    BY <2>1, <2>2
<1>4. WorldTypes' /\ LedgerTypes'
  BY <1>1, KeeperAssumption DEF Crash, Happens, WorldTypes, LedgerTypes
<1> QED
  BY <1>2, <1>3, <1>4 DEF KeeperInv

LEMMA KeeperStep == KeeperInv /\ [Next]_vars => KeeperInv'
<1> SUFFICES ASSUME KeeperInv, [Next]_vars PROVE KeeperInv'
  OBVIOUS
<1>1. CASE Keeper
  BY <1>1, QueueKeeps, GroupKeeps, ShelveKeeps, PairsKeep DEF Keeper
<1>2. CASE Keyholder \/ \E m \in Memories : Embed(m)
  BY <1>2, WorldKeeps
<1>3. CASE Crash
  BY <1>3, CrashKeeps
<1>4. CASE UNCHANGED vars
  BY <1>4 DEF vars, tick, KeeperInv, ShelvingTypes, QueueTypes, WorldTypes, LedgerTypes
<1> QED
  BY <1>1, <1>2, <1>3, <1>4 DEF Next

LEMMA KeeperStarts == Init => KeeperInv
<1> SUFFICES ASSUME Init PROVE KeeperInv
  OBVIOUS
<1>1. ShelvingTypes /\ QueueTypes
  BY NothingTypes DEF Init
<1>2. ASSUME NEW m \in Memories PROVE mem[m] \in MemoryRows
  <2>1. Library[m] \in Texts
    BY KeeperAssumption
  <2>2. Subject[Library[m]] \in Vectors
    BY <2>1 DEF Vectors
  <2>3. 0 \in 0..MaxEvents
    BY KeeperAssumption
  <2> QED
    BY <2>1, <2>2, <2>3 DEF Init, MemoryRows
<1>3. mem \in [Memories -> MemoryRows]
  <2>1. DOMAIN mem = Memories /\ mem = [m \in Memories |-> mem[m]]
    BY DEF Init
  <2> QED
    BY <1>2, <2>1
<1>4. WorldTypes
  <2>1. shelf \in [Shelves -> [made: BOOLEAN, live: BOOLEAN, members: SUBSET Memories]]
    BY DEF Init
  <2>2. \A s \in Shelves : ~shelf[s].live
    BY DEF Init
  <2>3. /\ manner \in {"none", "proposed", "granted"} /\ events \in 0..MaxEvents
        /\ missed \subseteq Memories /\ calm \in BOOLEAN
    <3>1. manner = "none" /\ events = 0 /\ missed = {} /\ calm = FALSE
      BY DEF Init
    <3>2. 0 \in 0..MaxEvents
      BY KeeperAssumption
    <3> QED
      BY <3>1, <3>2
  <2> QED
    BY <1>3, <2>1, <2>2, <2>3 DEF WorldTypes
<1>5. LedgerTypes /\ edges \subseteq Pairs
  BY KeeperAssumption DEF Init, LedgerTypes, NoLedger, NoEntry
<1> QED
  BY <1>1, <1>4, <1>5 DEF KeeperInv

LEMMA KeeperAlways == Spec => []KeeperInv
BY KeeperStarts, KeeperStep, PTL DEF Spec

-----------------------------------------------------------------------------
(* The watermark *)

\* A row of the queue is still unmarked and has the vector that was read, unless
\* something changed it under the tick; and it is in the queue once.
FreshRow(row) ==
  row.name \notin missed => ~mem[row.name].marked /\ mem[row.name].emb = row.vec

Queue ==
  /\ \A i \in DOMAIN queue : FreshRow(queue[i])
  /\ \A i, j \in DOMAIN queue : queue[i].name = queue[j].name => i = j

\* What the graph knows about: between Link and Mark that is the head already.
Known(m) ==
  /\ Source(m) /\ m \notin missed
  /\ mem[m].marked \/ (step = "mark" /\ m = Head(queue).name)

LinksAreRight ==
  \A m, n \in Memories :
    m # n /\ Known(m) /\ Known(n) => ({m, n} \in edges <=> mem[m].emb = mem[n].emb)

GraphInv == Queue /\ LinksAreRight

LEMMA PlanTellsTruth ==
  ASSUME KeeperInv, GraphInv, Plan
  PROVE  GraphInv'
<1>1. /\ queue' = Batched /\ step' = "prune" /\ UNCHANGED <<mem, edges>>
      /\ missed' = missed \ {Batched[i].name : i \in DOMAIN Batched}
  BY DEF Plan
<1>2. /\ \A i \in DOMAIN Batched :
           Batched[i].name \in Waiting /\ Batched[i].vec = mem[Batched[i].name].emb
      /\ \A i, j \in DOMAIN Batched : Batched[i].name = Batched[j].name => i = j
  BY BatchedIs, TypesAre
<1>3. Queue'
  BY <1>1, <1>2 DEF Queue, FreshRow, Waiting
<1>4. ASSUME NEW m \in Memories, Known(m)' PROVE Known(m)
  BY <1>1, <1>2, <1>4 DEF Known, Source, Waiting
<1>5. LinksAreRight'
  BY <1>1, <1>4 DEF GraphInv, LinksAreRight
<1> QED
  BY <1>3, <1>5 DEF GraphInv

LEMMA PruneTellsTruth ==
  ASSUME KeeperInv, GraphInv, Prune
  PROVE  GraphInv'
<1>1. UNCHANGED <<mem, queue, missed>> /\ edges' = Strict /\ step' # "mark"
  BY DEF Prune, world
<1>2. Queue'
  BY <1>1 DEF GraphInv, Queue, FreshRow
<1>3. ASSUME NEW m \in Memories, NEW n \in Memories, Source(m), Source(n)
      PROVE  {m, n} \in edges' <=> {m, n} \in edges
  BY <1>1, <1>3 DEF Strict
<1>4. ASSUME NEW m \in Memories, Known(m)' PROVE Known(m) /\ Source(m)
  BY <1>1, <1>4 DEF Known, Source
<1>5. LinksAreRight'
  BY <1>1, <1>3, <1>4 DEF GraphInv, LinksAreRight
<1> QED
  BY <1>2, <1>5 DEF GraphInv

LEMMA LinkTellsTruth ==
  ASSUME KeeperInv, GraphInv, Link
  PROVE  GraphInv'
<1>0. step = "link" /\ queue # <<>>
  BY DEF Link, KeeperInv, QueueTypes
<1>1. PICK row : row = Head(queue)
  OBVIOUS
<1>2. PICK h \in Memories : h = row.name
  BY <1>0, <1>1, HeadIs
<1>3. FreshRow(row)
  BY <1>0, <1>1, HeadIs DEF GraphInv, Queue
<1>4. /\ UNCHANGED <<mem, queue, missed>> /\ step' = "mark"
      /\ edges' = (edges \ {e \in edges : h \in e}) \union {{h, m} : m \in Near(row)}
  BY <1>1, <1>2 DEF Link, Linked, EdgesOf, world
<1>5. Queue'
  BY <1>4 DEF GraphInv, Queue, FreshRow
<1>6. ASSUME NEW m \in Memories, Known(m)'
      PROVE  Source(m) /\ m \notin missed /\ (m # h => Known(m))
  BY <1>1, <1>2, <1>4, <1>6 DEF Known, Source
<1>7. ASSUME NEW n \in Memories, n # h, Known(h)', Known(n)'
      PROVE  {h, n} \in edges' <=> mem[h].emb = mem[n].emb
  <2>1. mem[h].emb = row.vec
    BY <1>2, <1>3, <1>6, <1>7 DEF FreshRow
  <2>2. n \in Near(row) <=> mem[n].emb = row.vec
    BY <1>2, <1>6, <1>7 DEF Near
  <2>3. {h, n} \in edges' <=> n \in Near(row)
    <3>1. \A m : {h, m} = {h, n} => m = n
      BY <1>7
    <3> QED
      BY <1>4, <3>1
  <2> QED
    BY <2>1, <2>2, <2>3
<1>8. ASSUME NEW m \in Memories, NEW n \in Memories, m # n, m # h, n # h, Known(m)', Known(n)'
      PROVE  {m, n} \in edges' <=> mem[m].emb = mem[n].emb
  <2>1. {m, n} \in edges' <=> {m, n} \in edges
    BY <1>4, <1>8
  <2> QED
    BY <1>6, <1>8, <2>1 DEF GraphInv, LinksAreRight
<1>9. \A m, n : {m, n} = {n, m}
  OBVIOUS
<1>10. ASSUME NEW m \in Memories, NEW n \in Memories, m # n, Known(m)', Known(n)'
       PROVE  {m, n} \in edges' <=> mem[m].emb = mem[n].emb
  BY <1>7, <1>8, <1>9, <1>10
<1>11. LinksAreRight'
  BY <1>4, <1>10 DEF LinksAreRight
<1> QED
  BY <1>5, <1>11 DEF GraphInv

LEMMA MarkTellsTruth ==
  ASSUME KeeperInv, GraphInv, Mark
  PROVE  GraphInv'
<1>0. step = "mark" /\ queue # <<>>
  BY DEF Mark, KeeperInv, QueueTypes
<1>1. PICK h \in Memories : h = Head(queue).name
  BY <1>0, HeadIs
<1>2. /\ mem' = [mem EXCEPT ![h] = [mem[h] EXCEPT !.marked = TRUE]] /\ queue' = Tail(queue)
      /\ UNCHANGED <<edges, missed>> /\ step' # "mark"
  BY <1>1 DEF Mark, Marked
<1>3. /\ \A m \in Memories \ {h} : mem'[m] = mem[m]
      /\ mem'[h].place = mem[h].place /\ mem'[h].emb = mem[h].emb
  <2>1. DOMAIN mem = Memories /\ mem[h] \in MemoryRows
    BY DEF KeeperInv, WorldTypes
  <2> QED
    BY <1>2, <2>1 DEF MemoryRows
<1>4. Queue'
  <2>1. ASSUME NEW i \in DOMAIN Tail(queue)
        PROVE  /\ i + 1 \in DOMAIN queue /\ Tail(queue)[i] = queue[i + 1]
               /\ queue[i + 1].name # h /\ queue[i + 1].name \in Memories /\ i \in Nat
    <3>1. i + 1 \in DOMAIN queue /\ Tail(queue)[i] = queue[i + 1] /\ 1 \in DOMAIN queue
          /\ h = queue[1].name /\ i \in Nat \ {0}
      <4>1. Tail(queue) \in Seq([name: Memories, vec: Vectors])
        BY <1>0, HeadIs
      <4>2. i \in Nat \ {0}
        BY <4>1
      <4> QED
        BY <1>0, <1>1, <4>2, HeadIs
    <3>2. queue[i + 1].name \in Memories
      BY <3>1, QueuedAre DEF KeeperInv, QueueTypes
    <3>3. i + 1 # 1
      BY <3>1
    <3> QED
      BY <3>1, <3>2, <3>3 DEF GraphInv, Queue
  <2> DEFINE q == Tail(queue)
  <2>2. ASSUME NEW i \in DOMAIN q
        PROVE  q[i].name \notin missed' =>
                 ~mem'[q[i].name].marked /\ mem'[q[i].name].emb = q[i].vec
    <3>1. PICK r : r = q[i]
      OBVIOUS
    <3>2. FreshRow(r) /\ r.name \in Memories \ {h}
      BY <2>1, <3>1 DEF GraphInv, Queue
    <3> QED
      BY <1>2, <1>3, <3>1, <3>2 DEF FreshRow
  <2>3. ASSUME NEW i \in DOMAIN Tail(queue), NEW j \in DOMAIN Tail(queue),
               Tail(queue)[i].name = Tail(queue)[j].name
        PROVE  i = j
    <3>1. i + 1 = j + 1
      BY <2>1, <2>3 DEF GraphInv, Queue
    <3> QED
      BY <2>1, <3>1
  <2>4. queue' = q
    BY <1>2
  <2> HIDE DEF q
  <2>5. \A i \in DOMAIN queue' : FreshRow(queue[i])'
    BY <2>2, <2>4 DEF FreshRow
  <2>6. \A i, j \in DOMAIN queue' : queue'[i].name = queue'[j].name => i = j
    BY <2>3, <2>4 DEF q
  <2> QED
    BY <2>5, <2>6 DEF Queue
<1>5. ASSUME NEW m \in Memories, Known(m)' PROVE Known(m) /\ mem'[m].emb = mem[m].emb
  BY <1>0, <1>1, <1>2, <1>3, <1>5 DEF Known, Source
<1>6. LinksAreRight'
  BY <1>2, <1>5 DEF GraphInv, LinksAreRight
<1> QED
  BY <1>4, <1>6 DEF GraphInv

\* The rest of the tick does not touch memories or edges.
LEMMA RestTellsTruth ==
  ASSUME GraphInv, UNCHANGED <<mem, edges, missed>>, step' # "mark",
         queue' = queue \/ queue' = <<>>
  PROVE  GraphInv'
<1>1. DOMAIN <<>> = {}
  OBVIOUS
<1>2. Queue'
  BY <1>1 DEF GraphInv, Queue, FreshRow
<1>3. ASSUME NEW m \in Memories, Known(m)' PROVE Known(m)
  BY <1>3 DEF Known, Source
<1>4. LinksAreRight'
  BY <1>3 DEF GraphInv, LinksAreRight
<1> QED
  BY <1>2, <1>4 DEF GraphInv

\* What happens to one memory: while the tick has it in hand it is set down as
\* missed if it changes, and otherwise it may not come back with its watermark.
LEMMA ChangeTellsTruth ==
  ASSUME KeeperInv, GraphInv, UNCHANGED <<step, queue, edges>>, NEW m \in Memories,
         \A x \in Memories \ {m} : mem'[x] = mem[x], missed \subseteq missed',
         m \notin missed' /\ m \in Queued =>
           /\ mem'[m].marked = mem[m].marked /\ mem'[m].emb = mem[m].emb
           /\ mem'[m].place = "live" => Source(m),
         m \notin missed' /\ mem'[m].place = "live" /\ mem'[m].marked =>
           Source(m) /\ mem[m].marked /\ mem'[m].emb = mem[m].emb
  PROVE  GraphInv'
<1>1. \A i \in DOMAIN queue : queue[i].name \in Memories /\ queue[i].name \in Queued
  BY QueuedAre DEF KeeperInv, QueueTypes, Queued
<1>2. ASSUME NEW i \in DOMAIN queue PROVE FreshRow(queue[i])'
  <2>1. FreshRow(queue[i])
    BY DEF GraphInv, Queue
  <2>2. PICK r : r = queue[i]
    OBVIOUS
  <2>3. r.name \notin missed' => ~mem'[r.name].marked /\ mem'[r.name].emb = r.vec
    BY <1>1, <2>1, <2>2 DEF FreshRow
  <2> QED
    BY <2>2, <2>3 DEF FreshRow
<1>3. Queue'
  BY <1>2 DEF GraphInv, Queue
<1>4. step = "mark" => Head(queue).name \in Queued
  BY <1>1, HeadIs DEF KeeperInv, QueueTypes
<1>5. ASSUME NEW x \in Memories, Known(x)' PROVE Known(x) /\ mem'[x].emb = mem[x].emb
  <2>1. CASE x = m
    BY <1>4, <1>5, <2>1 DEF Known, Source
  <2>2. CASE x # m
    BY <1>5, <2>2 DEF Known, Source
  <2> QED
    BY <2>1, <2>2
<1>6. LinksAreRight'
  BY <1>5 DEF GraphInv, LinksAreRight
<1> QED
  BY <1>3, <1>6 DEF GraphInv

LEMMA WorldTellsTruth ==
  ASSUME KeeperInv, GraphInv, Keyholder \/ \E m \in Memories : Embed(m)
  PROVE  GraphInv'
<1>0. UNCHANGED <<step, queue, edges>>
  BY DEF Keyholder, Embed, KeepTick, tick
<1>1. DOMAIN mem = Memories /\ \A m \in Memories : mem[m] \in MemoryRows
  BY DEF KeeperInv, WorldTypes
<1>2. ASSUME NEW m \in Memories, NEW t \in Texts, Save(m, t) PROVE GraphInv'
  <2> DEFINE r == mem[m]
             same == r.text = t
             new == [place |-> IF r.place = "deleted" THEN "live" ELSE r.place, text |-> t,
                     emb |-> IF same THEN r.emb ELSE None, marked |-> same /\ r.marked,
                     at |-> events + 1]
  <2>1. mem' = [mem EXCEPT ![m] = new]
    BY <1>2 DEF Save
  <2>2. mem'[m] = new /\ \A x \in Memories \ {m} : mem'[x] = mem[x]
    BY <1>1, <2>1
  <2>3. /\ missed \subseteq missed' /\ (m \in Queued => m \in missed')
        /\ r.place = "deleted" /\ same /\ r.marked => m \in missed'
    BY <1>2 DEF Save, Suspect
  <2>4. mem'[m].marked => same /\ r.marked
    <3>1. new.marked = (same /\ r.marked)
      OBVIOUS
    <3> QED
      BY <2>2, <3>1
  <2>5. same => mem'[m].emb = r.emb
    BY <2>2
  <2>6. mem'[m].place = "live" => r.place \in {"deleted", "live"}
    BY <2>2
  <2>7. m \notin missed' /\ mem'[m].place = "live" /\ mem'[m].marked =>
          Source(m) /\ mem[m].marked /\ mem'[m].emb = mem[m].emb
    BY <2>3, <2>4, <2>5, <2>6 DEF Source
  <2> QED
    BY <1>0, <2>2, <2>3, <2>7, ChangeTellsTruth
<1>3. ASSUME NEW m \in Memories, NEW archived \in BOOLEAN, Archive(m, archived) PROVE GraphInv'
  <2>1. PICK place : /\ place = (IF archived THEN "archived" ELSE "live")
                     /\ mem' = [mem EXCEPT ![m].place = place]
    BY <1>3 DEF Archive
  <2>2. /\ mem'[m].place = place /\ mem'[m].emb = mem[m].emb /\ mem'[m].marked = mem[m].marked
        /\ \A x \in Memories \ {m} : mem'[x] = mem[x]
    BY <1>1, <2>1 DEF MemoryRows
  <2>3. /\ missed \subseteq missed' /\ (m \in Queued => m \in missed')
        /\ ~archived /\ mem[m].marked => m \in missed'
    BY <1>3 DEF Archive, Suspect
  <2>4. m \notin missed' /\ mem'[m].place = "live" /\ mem'[m].marked => FALSE
    BY <2>1, <2>2, <2>3
  <2> QED
    BY <1>0, <2>2, <2>3, <2>4, ChangeTellsTruth
<1>4. ASSUME NEW m \in Memories, Delete(m) PROVE GraphInv'
  <2>1. /\ mem'[m].place = "deleted" /\ mem'[m].emb = mem[m].emb /\ mem'[m].marked = mem[m].marked
        /\ \A x \in Memories \ {m} : mem'[x] = mem[x]
    BY <1>1, <1>4 DEF Delete, MemoryRows
  <2>2. missed' = missed
    BY <1>4 DEF Delete
  <2> QED
    BY <1>0, <2>1, <2>2, ChangeTellsTruth
<1>5. ASSUME NEW m \in Memories, Embed(m) PROVE GraphInv'
  <2>1. PICK vec : vec = Subject[mem[m].text]
    OBVIOUS
  <2>2. mem' = [mem EXCEPT ![m].emb = vec, ![m].marked = FALSE]
    BY <1>5, <2>1 DEF Embed
  <2>3. mem'[m].marked = FALSE /\ \A x \in Memories \ {m} : mem'[x] = mem[x]
    BY <1>1, <2>2 DEF MemoryRows
  <2>4. missed \subseteq missed' /\ (m \in Queued => m \in missed')
    BY <1>5 DEF Embed, Suspect
  <2> QED
    BY <1>0, <2>3, <2>4, ChangeTellsTruth
<1>6. ASSUME UNCHANGED <<mem, missed>> PROVE GraphInv'
  <2>1. Queue'
    BY <1>0, <1>6 DEF GraphInv, Queue, FreshRow
  <2>2. \A m : Known(m)' <=> Known(m)
    BY <1>0, <1>6 DEF Known, Source
  <2> QED
    BY <1>0, <1>6, <2>1, <2>2 DEF GraphInv, LinksAreRight
<1>7. Keyholder => \/ \E m \in Memories : \/ \E t \in Texts : Save(m, t)
                                          \/ \E archived \in BOOLEAN : Archive(m, archived)
                                          \/ Delete(m)
                   \/ UNCHANGED <<mem, missed>>
  BY DEF Keyholder, ArchiveShelf, Grant
<1> QED
  BY <1>2, <1>3, <1>4, <1>5, <1>6, <1>7

LEMMA CrashTellsTruth ==
  ASSUME KeeperInv, GraphInv, Crash
  PROVE  GraphInv'
<1>1. UNCHANGED <<mem, missed>> /\ step' = "idle" /\ queue' = <<>>
  BY DEF Crash, Idle
<1>2. CASE step # "link"
  <2>1. UNCHANGED edges
    BY <1>2 DEF Crash
  <2> QED
    BY <1>1, <2>1, RestTellsTruth
<1>3. CASE step = "link"
  <2>1. PICK row : row = Head(queue)
    OBVIOUS
  <2>2. queue # <<>>
    BY <1>3 DEF KeeperInv, QueueTypes
  <2>3. PICK h \in Memories : h = row.name
    BY <2>1, <2>2, HeadIs
  <2>4. FreshRow(row)
    BY <2>1, <2>2, HeadIs DEF GraphInv, Queue
  <2>5. \E part \in SUBSET {{h, m} : m \in Near(row)} :
          edges' \in {edges, (edges \ {e \in edges : h \in e}) \union part}
    BY <1>3, <2>1, <2>3 DEF Crash, EdgesOf
  <2>6. ASSUME NEW m \in Memories, Known(m)' PROVE Known(m) /\ m # h
    BY <1>1, <2>3, <2>4, <2>6 DEF Known, Source, FreshRow
  <2>7. ASSUME NEW m \in Memories, NEW n \in Memories, m # h, n # h
        PROVE  {m, n} \in edges' <=> {m, n} \in edges
    BY <2>5, <2>7
  <2>8. LinksAreRight'
    BY <1>1, <2>6, <2>7 DEF GraphInv, LinksAreRight
  <2>9. DOMAIN <<>> = {}
    OBVIOUS
  <2>10. Queue'
    BY <1>1, <2>9 DEF Queue
  <2> QED
    BY <2>8, <2>10 DEF GraphInv
<1> QED
  BY <1>2, <1>3

LEMMA GraphStep == KeeperInv /\ GraphInv /\ [Next]_vars => GraphInv'
<1> SUFFICES ASSUME KeeperInv, GraphInv, [Next]_vars PROVE GraphInv'
  OBVIOUS
<1>1. CASE Plan \/ Prune \/ Link \/ Mark
  BY <1>1, PlanTellsTruth, PruneTellsTruth, LinkTellsTruth, MarkTellsTruth
<1>2. CASE Group \/ ShelveKnown \/ ShelveNew \/ ShelveNone \/ Swept
  <2>1. UNCHANGED <<mem, edges, missed, queue>> /\ step' # "mark"
    BY <1>2 DEF Group, ShelveKnown, ShelveNew, ShelveNone, Swept, KeepPairs, world
  <2> QED
    BY <2>1, RestTellsTruth
<1>3. CASE \E s \in Shelves : Sweep(s)
  <2>1. UNCHANGED <<mem, edges, missed, queue>> /\ step' # "mark"
    BY <1>3 DEF Sweep
  <2> QED
    BY <2>1, RestTellsTruth
<1>4. CASE SaveLedger \/ \E p \in Pairs : Ask(p) \/ PassOver(p)
  <2>1. /\ UNCHANGED <<mem, edges, missed>> /\ step' # "mark"
        /\ queue' = queue \/ queue' = <<>>
    BY <1>4 DEF Ask, PassOver, SaveLedger, KeepRest, Idle, world
  <2> QED
    BY <2>1, RestTellsTruth
<1>5. CASE Keyholder \/ \E m \in Memories : Embed(m)
  BY <1>5, WorldTellsTruth
<1>6. CASE Crash
  BY <1>6, CrashTellsTruth
<1>7. CASE UNCHANGED vars
  <2>1. UNCHANGED <<mem, edges, missed, queue, step>>
    BY <1>7 DEF vars, tick
  <2>2. Queue'
    BY <2>1 DEF GraphInv, Queue, FreshRow
  <2>3. \A m : Known(m)' <=> Known(m)
    BY <2>1 DEF Known, Source
  <2> QED
    BY <2>1, <2>2, <2>3 DEF GraphInv, LinksAreRight
<1> QED
  BY <1>1, <1>2, <1>3, <1>4, <1>5, <1>6, <1>7 DEF Next, Keeper

LEMMA GraphStarts == Init => GraphInv
<1> SUFFICES ASSUME Init PROVE GraphInv
  OBVIOUS
<1>1. DOMAIN <<>> = {}
  OBVIOUS
<1>2. queue = <<>> /\ step = "idle" /\ \A m \in Memories : ~mem[m].marked
  BY DEF Init
<1> QED
  BY <1>1, <1>2 DEF GraphInv, Queue, LinksAreRight, Known

\* The watermark tells the truth: what is marked has its edges, however ticks are
\* killed and rows change under them.
THEOREM WatermarkTellsTruth == Spec => []WatermarkHonest
<1>1. ASSUME KeeperInv, GraphInv PROVE WatermarkHonest
  <2>1. ASSUME NEW p \in Pairs, \A m \in p : Source(m) /\ mem[m].marked /\ m \notin missed
        PROVE  p \in edges <=> \A m, n \in p : mem[m].emb = mem[n].emb
    <3>1. PICK m \in Memories, n \in Memories : m # n /\ p = {m, n}
      BY PairsAre
    <3>2. Known(m) /\ Known(n)
      BY <2>1, <3>1 DEF Known
    <3>3. p \in edges <=> mem[m].emb = mem[n].emb
      BY <1>1, <3>1, <3>2 DEF GraphInv, LinksAreRight
    <3> QED
      BY <3>1, <3>3
  <2> QED
    BY <2>1 DEF WatermarkHonest
<1>2. KeeperInv /\ GraphInv => WatermarkHonest
  BY <1>1
<1> QED
  BY <1>2, KeeperAlways, GraphStarts, GraphStep, PTL DEF Spec

-----------------------------------------------------------------------------
(* Questions *)

\* A question about a state that is over.
Stale(a) == \E m \in a[1], t \in 0..MaxEvents : <<m, t>> \in a[2] /\ t < mem[m].at

Tells(entry, a) == entry.sig = a[2] /\ (a[3] = "manner" => entry.nudged)

\* The entry that speaks about a question: of the pairs this tick has been
\* through it is the one of the ledger that is being built.
Entry(a) == IF step = "ask" /\ a[1] \notin pairs THEN next[a[1]] ELSE ledger[a[1]]

AskInv ==
  /\ \A m \in Memories : mem[m].at <= events
  /\ \A a \in asked : a[1] \in Pairs /\ (Stale(a) \/ a[2] = Sig(a[1]))
  /\ \A a \in asked : Stale(a) \/ Tells(Entry(a), a)
  /\ step = "shelve" => \A a \in asked : a[1] \in pairs

LEMMA TimesGrow ==
  ASSUME KeeperInv, \A m \in Memories : mem[m].at <= events, Keyholder \/ \E m \in Memories : Embed(m)
  PROVE  \A m \in Memories : /\ mem'[m].at <= events' /\ mem[m].at <= mem'[m].at
                             /\ mem'[m].at \in 0..MaxEvents
<1>1. DOMAIN mem = Memories /\ \A m \in Memories : mem[m] \in MemoryRows
  BY DEF KeeperInv, WorldTypes
<1>2. events \in 0..MaxEvents /\ MaxEvents \in Nat /\ \A m \in Memories : mem[m].at \in 0..MaxEvents
  BY <1>1, KeeperAssumption DEF KeeperInv, WorldTypes, MemoryRows
<1>3. CASE Keyholder
  <2>1. events' = events + 1 /\ events' \in 0..MaxEvents
    BY <1>2, <1>3 DEF Keyholder, Happens
  <2>2. ASSUME NEW m \in Memories, NEW t \in Texts, Save(m, t)
        PROVE  \A x \in Memories : mem'[x].at \in {mem[x].at, events + 1}
    BY <1>1, <2>2 DEF Save, MemoryRows
  <2>3. ASSUME NEW m \in Memories, Delete(m) \/ \E archived \in BOOLEAN : Archive(m, archived)
        PROVE  \A x \in Memories : mem'[x].at \in {mem[x].at, events + 1}
    <3>1. PICK place : mem' = [mem EXCEPT ![m].place = place]
      BY <2>3 DEF Delete, Archive
    <3> QED
      BY <1>1, <3>1 DEF MemoryRows
  <2>4. UNCHANGED mem => \A x \in Memories : mem'[x].at \in {mem[x].at, events + 1}
    OBVIOUS
  <2>5. \A x \in Memories : mem'[x].at \in {mem[x].at, events + 1}
    BY <1>3, <2>2, <2>3, <2>4 DEF Keyholder, ArchiveShelf, Grant
  <2> QED
    BY <1>2, <2>1, <2>5
<1>4. CASE \E m \in Memories : Embed(m)
  <2>1. PICK m \in Memories : Embed(m)
    BY <1>4
  <2>2. PICK vec : mem' = [mem EXCEPT ![m].emb = vec, ![m].marked = FALSE]
    BY <2>1 DEF Embed
  <2>3. \A x \in Memories : mem'[x].at = mem[x].at
    BY <1>1, <2>2 DEF MemoryRows
  <2>4. events' = events
    BY <2>1 DEF Embed
  <2>5. \A x \in Memories : mem[x].at \in Nat /\ mem[x].at <= events
    BY <1>2
  <2> QED
    BY <1>2, <2>3, <2>4, <2>5
<1> QED
  BY <1>3, <1>4

\* What a question spoke of is as it was, or is over.
LEMMA StaleStays ==
  ASSUME KeeperInv,
         \A m \in Memories : mem[m].at <= mem'[m].at /\ mem'[m].at \in 0..MaxEvents,
         NEW a, a[1] \subseteq Memories
  PROVE  /\ Stale(a) => Stale(a)'
         /\ a[2] = Sig(a[1]) => Stale(a)' \/ a[2] = Sig(a[1])'
<1>1. MaxEvents \in Nat /\ \A m \in Memories : mem[m].at \in 0..MaxEvents
  BY KeeperAssumption DEF KeeperInv, WorldTypes, MemoryRows
<1>2. Stale(a) => Stale(a)'
  BY <1>1 DEF Stale
<1>3. ASSUME a[2] = Sig(a[1]), ~Stale(a)' PROVE a[2] = Sig(a[1])'
  <2>1. ASSUME NEW m \in a[1] PROVE mem'[m].at = mem[m].at
    <3>1. <<m, mem[m].at>> \in a[2] /\ mem[m].at \in 0..MaxEvents
      BY <1>1, <1>3 DEF Sig
    <3>2. ~(mem[m].at < mem'[m].at)
      BY <1>3, <3>1 DEF Stale
    <3> QED
      BY <1>1, <3>2
  <2> QED
    BY <1>3, <2>1 DEF Sig
<1> QED
  BY <1>2, <1>3

LEMMA WorldKeepsAnswers ==
  ASSUME KeeperInv, AskInv, Keyholder \/ \E m \in Memories : Embed(m)
  PROVE  AskInv'
<1>1. UNCHANGED <<step, pairs, next, ledger, asked>>
  BY DEF Keyholder, Embed, KeepTick, tick
<1>2. \A m \in Memories : /\ mem'[m].at <= events' /\ mem[m].at <= mem'[m].at
                          /\ mem'[m].at \in 0..MaxEvents
  BY TimesGrow DEF AskInv
<1>3. ASSUME NEW a \in asked
      PROVE  /\ a[1] \in Pairs /\ (Stale(a)' \/ a[2] = Sig(a[1])')
             /\ Stale(a)' \/ Tells(Entry(a), a)
  <2>1. a[1] \in Pairs /\ a[1] \subseteq Memories
    BY DEF AskInv, Pairs
  <2> QED
    BY <1>2, <2>1, StaleStays DEF AskInv
<1>4. \A a : Tells(Entry(a), a)' <=> Tells(Entry(a), a)
  BY <1>1 DEF Tells, Entry
<1> QED
  BY <1>1, <1>2, <1>3, <1>4 DEF AskInv

LEMMA AskKeepsAnswers ==
  ASSUME KeeperInv, AskInv, NEW p \in Pairs, Ask(p) \/ PassOver(p)
  PROVE  AskInv'
<1>1. /\ step = "ask" /\ p \in pairs /\ pairs' = pairs \ {p}
      /\ UNCHANGED <<step, mem, ledger, events>>
  BY DEF Ask, PassOver, KeepRest
<1>2. \A a : (Stale(a)' <=> Stale(a)) /\ Sig(a[1])' = Sig(a[1])
  BY <1>1 DEF Stale, Sig
<1>3. ASSUME NEW a \in asked
      PROVE  /\ a[1] \in Pairs /\ (Stale(a) \/ a[2] = Sig(a[1]))
             /\ Stale(a) \/ Tells(IF a[1] \notin pairs THEN next[a[1]] ELSE ledger[a[1]], a)
  BY <1>1 DEF AskInv, Entry
<1>4. \A a : Entry(a)' = IF a[1] \notin pairs \/ a[1] = p THEN next'[a[1]] ELSE ledger[a[1]]
  BY <1>1 DEF Entry
<1>5. CASE PassOver(p)
  <2>1. next' = next /\ asked' = {a \in asked : a[1] # p}
    BY <1>5 DEF PassOver
  <2>2. ASSUME NEW a \in asked' PROVE Stale(a) \/ Tells(Entry(a)', a)
    BY <1>3, <1>4, <2>1
  <2> QED
    BY <1>1, <1>2, <1>3, <2>1, <2>2 DEF AskInv, Tells
<1>6. CASE Ask(p)
  <2> DEFINE new == [sig |-> Sig(p), count |-> Count(p), nudged |-> Nudged(p) \/ Nudges(p)]
  <2>1. next' = [next EXCEPT ![p] = new] /\ asked' = asked \union Asks(p)
    BY <1>6 DEF Ask, Noted
  <2>2. DOMAIN next = Pairs
    BY DEF KeeperInv, ShelvingTypes
  <2>3. next'[p] = new /\ \A q \in Pairs \ {p} : next'[q] = next[q]
    BY <2>1, <2>2
  <2>4. new.sig = Sig(p) /\ (new.nudged <=> Nudged(p) \/ Nudges(p))
    OBVIOUS
  <2> HIDE DEF new
  <2>5. ASSUME NEW a \in asked, a[1] = p, ~Stale(a) PROVE Tells(new, a)
    <3>1. a[2] = Sig(p) /\ Tells(ledger[p], a)
      BY <1>1, <1>3, <2>5
    <3>2. ledger[p].sig = Sig(p) /\ (a[3] = "manner" => ledger[p].nudged)
      BY <3>1 DEF Tells
    <3>3. a[3] = "manner" => Nudged(p)
      BY <3>2 DEF Nudged, Open
    <3> QED
      BY <2>4, <3>1, <3>3 DEF Tells
  <2>6. ASSUME NEW a \in Asks(p) PROVE a[1] = p /\ a[2] = Sig(p) /\ Tells(new, a)
    <3>1. a = <<p, Sig(p), "pair">> \/ (a = <<p, Sig(p), "manner">> /\ Nudges(p))
      BY DEF Asks
    <3>2. a[1] = p /\ a[2] = Sig(p) /\ (a[3] = "manner" => Nudges(p))
      BY <3>1
    <3> QED
      BY <2>4, <3>2 DEF Tells
  <2>7. ASSUME NEW a \in asked'
        PROVE  /\ a[1] \in Pairs /\ (Stale(a) \/ a[2] = Sig(a[1]))
               /\ Stale(a) \/ Tells(Entry(a)', a)
    <3>1. CASE a \in Asks(p)
      BY <1>4, <2>3, <2>6, <3>1
    <3>2. CASE a \in asked /\ a[1] = p
      BY <1>3, <1>4, <2>3, <2>5, <3>2
    <3>3. CASE a \in asked /\ a[1] # p
      BY <1>3, <1>4, <2>3, <3>3
    <3> QED
      BY <2>1, <3>1, <3>2, <3>3
  <2> QED
    BY <1>1, <1>2, <2>7 DEF AskInv, Tells
<1> QED
  BY <1>5, <1>6

LEMMA SaveKeepsAnswers ==
  ASSUME KeeperInv, AskInv, SaveLedger
  PROVE  AskInv'
<1>1. /\ step = "ask" /\ pairs = {} /\ ledger' = next /\ step' = "idle"
      /\ UNCHANGED <<mem, events, asked>>
  BY DEF SaveLedger, Idle, world
<1>2. \A a : (Stale(a)' <=> Stale(a)) /\ Sig(a[1])' = Sig(a[1])
  BY <1>1 DEF Stale, Sig
<1>3. \A a : Entry(a)' = Entry(a)
  BY <1>1 DEF Entry
<1> QED
  BY <1>1, <1>2, <1>3 DEF AskInv, Tells

LEMMA CrashKeepsAnswers ==
  ASSUME KeeperInv, AskInv, Crash
  PROVE  AskInv'
<1>1. /\ step' = "idle" /\ UNCHANGED <<mem, ledger>> /\ events' = events + 1
      /\ asked' = {a \in asked : ledger[a[1]].sig = a[2] /\ (a[3] = "manner" => ledger[a[1]].nudged)}
  BY DEF Crash, Idle, Happens
<1>2. \A a : (Stale(a)' <=> Stale(a)) /\ Sig(a[1])' = Sig(a[1])
  BY <1>1 DEF Stale, Sig
<1>3. \A a : Entry(a)' = ledger[a[1]]
  BY <1>1 DEF Entry
<1>4. \A a \in asked' : a \in asked /\ Tells(ledger[a[1]], a)
  BY <1>1 DEF Tells
<1>5. \A m \in Memories : mem'[m].at <= events'
  <2>1. events \in Nat /\ \A m \in Memories : mem[m].at \in Nat
    BY KeeperAssumption DEF KeeperInv, WorldTypes, MemoryRows
  <2> QED
    BY <1>1, <2>1 DEF AskInv
<1> QED
  BY <1>1, <1>2, <1>3, <1>4, <1>5 DEF AskInv, Tells

\* The steps before the pairs leave the answers alone: grouping forgets those of
\* pairs that are no pairs any more, and nobody asks before the shelves are done.
LEMMA RestKeepsAnswers ==
  ASSUME AskInv, UNCHANGED <<mem, events, ledger>>, step # "ask",
         asked' \subseteq asked,
         step' = "shelve" => \A a \in asked' : a[1] \in pairs',
         step' = "ask" => \A a \in asked' : a[1] \in pairs'
  PROVE  AskInv'
<1>1. \A a : (Stale(a)' <=> Stale(a)) /\ Sig(a[1])' = Sig(a[1])
  BY DEF Stale, Sig
<1>2. \A a \in asked' : Entry(a)' = Entry(a)
  BY DEF Entry
<1> QED
  BY <1>1, <1>2 DEF AskInv, Tells

LEMMA AskStep == KeeperInv /\ AskInv /\ [Next]_vars => AskInv'
<1> SUFFICES ASSUME KeeperInv, AskInv, [Next]_vars PROVE AskInv'
  OBVIOUS
<1>1. CASE Plan \/ Prune \/ Link \/ Mark
  <2>1. \A m \in Memories : mem'[m].at = mem[m].at
    <3>1. CASE Mark
      <4>1. PICK h : mem' = [mem EXCEPT ![h] = [mem[h] EXCEPT !.marked = TRUE]]
        BY <3>1 DEF Mark, Marked
      <4>2. DOMAIN mem = Memories /\ \A m \in Memories : mem[m] \in MemoryRows
        BY DEF KeeperInv, WorldTypes
      <4> QED
        BY <4>1, <4>2 DEF MemoryRows
    <3> QED
      BY <1>1, <3>1 DEF Plan, Prune, Link, world
  <2>2. /\ step # "ask" /\ step' \notin {"shelve", "ask"} /\ step # "shelve"
        /\ UNCHANGED <<events, ledger, asked>>
    BY <1>1 DEF Plan, Prune, Link, Mark, world
  <2>3. ASSUME NEW a \in asked
        PROVE  (Stale(a)' <=> Stale(a)) /\ Sig(a[1])' = Sig(a[1]) /\ Entry(a)' = Entry(a)
    <3>1. a[1] \subseteq Memories
      BY DEF AskInv, Pairs
    <3> QED
      BY <2>1, <2>2, <3>1 DEF Stale, Sig, Entry
  <2> QED
    BY <2>1, <2>2, <2>3 DEF AskInv, Tells
<1>2. CASE Group
  BY <1>2, RestKeepsAnswers DEF Group, world
<1>3. CASE ShelveKnown \/ ShelveNew \/ ShelveNone
  BY <1>3, RestKeepsAnswers DEF ShelveKnown, ShelveNew, ShelveNone, KeepPairs, AskInv, world
<1>4. CASE Swept \/ \E s \in Shelves : Sweep(s)
  BY <1>4, RestKeepsAnswers DEF Swept, Sweep, AskInv, world
<1>5. CASE \E p \in Pairs : Ask(p) \/ PassOver(p)
  BY <1>5, AskKeepsAnswers
<1>6. CASE SaveLedger
  BY <1>6, SaveKeepsAnswers
<1>7. CASE Keyholder \/ \E m \in Memories : Embed(m)
  BY <1>7, WorldKeepsAnswers
<1>8. CASE Crash
  BY <1>8, CrashKeepsAnswers
<1>9. CASE UNCHANGED vars
  <2>1. UNCHANGED <<mem, events, ledger, asked, step, pairs, next>>
    BY <1>9 DEF vars, tick
  <2>2. \A a : (Stale(a)' <=> Stale(a)) /\ Sig(a[1])' = Sig(a[1]) /\ Entry(a)' = Entry(a)
    BY <2>1 DEF Stale, Sig, Entry
  <2> QED
    BY <2>1, <2>2 DEF AskInv, Tells
<1> QED
  BY <1>1, <1>2, <1>3, <1>4, <1>5, <1>6, <1>7, <1>8, <1>9 DEF Next, Keeper

LEMMA AskStarts == Init => AskInv
BY DEF Init, AskInv

\* Nobody is asked twice about a pair as long as it stays as it is, but where a
\* tick was killed with its answers.
THEOREM AsksOnce == Spec => AskedOnce
<1>1. ASSUME KeeperInv, AskInv, [Next]_vars, NEW p \in pairs, step' = "ask", p \notin pairs', Askable(p)
      PROVE  Asks(p) \intersect asked = {}
  <2>1. Ask(p)
    <3>1. ASSUME pairs' # pairs
          PROVE  Group \/ SaveLedger \/ Crash \/ \E q \in Pairs : Ask(q) \/ PassOver(q)
      BY <1>1, <3>1 DEF Next, Keeper, Plan, Prune, Link, Mark, KeepShelving, ShelveKnown, ShelveNew,
         ShelveNone, KeepPairs, Sweep, Swept, Keyholder, Embed, KeepTick, tick, vars
    <3>2. \E q \in Pairs : Ask(q) \/ PassOver(q)
      BY <1>1, <3>1 DEF Group, SaveLedger, Crash, Idle
    <3> QED
      BY <1>1, <3>2 DEF Ask, PassOver
  <2>2. step = "ask" /\ p \in pairs
    BY <2>1 DEF Ask
  <2>3. ASSUME NEW a \in Asks(p), a \in asked PROVE FALSE
    <3>1. \/ a = <<p, Sig(p), "pair">> /\ ~Open(p)
          \/ a = <<p, Sig(p), "manner">> /\ Nudges(p)
      BY DEF Asks
    <3>2. a[1] = p /\ a[2] = Sig(p)
      BY <3>1
    <3>3. ~Stale(a)
      <4>1. ASSUME NEW m \in p, NEW t, <<m, t>> \in Sig(p) PROVE t = mem[m].at
        BY <4>1 DEF Sig
      <4>2. p \subseteq Memories
        BY <1>1 DEF KeeperInv, ShelvingTypes, Pairs
      <4>3. \A m \in p : mem[m].at \in Nat
        BY <1>1, <4>2, KeeperAssumption DEF KeeperInv, WorldTypes, MemoryRows
      <4>4. ASSUME NEW m \in p, NEW t, <<m, t>> \in Sig(p), t < mem[m].at PROVE FALSE
        BY <4>1, <4>3, <4>4
      <4> QED
        BY <3>2, <4>4 DEF Stale
    <3>4. Tells(ledger[p], a)
      BY <1>1, <2>2, <2>3, <3>2, <3>3 DEF AskInv, Entry
    <3>5. Open(p) /\ (a[3] = "manner" => Nudged(p))
      BY <3>2, <3>4 DEF Tells, Open, Nudged
    <3> QED
      BY <3>1, <3>5 DEF Nudges
  <2> QED
    BY <2>3
<1>2. KeeperInv /\ AskInv /\ [Next]_vars =>
        \A p \in pairs : step' = "ask" /\ p \notin pairs' /\ Askable(p) => Asks(p) \intersect asked = {}
  BY <1>1
<1>3. Spec => [][\A p \in pairs : step' = "ask" /\ p \notin pairs' /\ Askable(p) =>
                   Asks(p) \intersect asked = {}]_vars
  BY <1>2, KeeperAlways, AskStarts, AskStep, PTL DEF Spec
<1> QED
  BY <1>3 DEF AskedOnce

-----------------------------------------------------------------------------
(* Shelves *)

Big(c) == Cardinality(Clear(c)) >= MinShelf

Holds(s, c) == shelf[s].live /\ shelf[s].members = Clear(c)

\* The clusters the tick has been through.
Past == Formed \ clusters

\* A shelf that a cluster has claimed stays unless what is left of the cluster
\* without its crisis rows was found too small.
Keeps(c) == claim[c] # 0 /\ (c \in clusters \/ Big(c))

\* The shelves that this tick made.
Fresh == LiveShelves \ seen

ClaimsOnce ==
  /\ clusters \subseteq Formed /\ DOMAIN claim = Formed
  /\ \A c, d \in Formed : claim[c] = claim[d] /\ claim[c] # 0 => c = d

TakenIsKept ==
  /\ seen \subseteq LiveShelves /\ taken \subseteq seen
  /\ \A s : s \in taken <=> \E c \in Formed : Keeps(c) /\ s = claim[c]

ClaimedAreFull == \A c \in Past : Big(c) /\ claim[c] # 0 => Holds(claim[c], c)

OthersAreMade == \A c \in Past : Big(c) /\ claim[c] = 0 => \E s \in Fresh : Holds(s, c)

FreshAreRight ==
  /\ \A s \in Fresh : \E c \in Past : claim[c] = 0 /\ Big(c) /\ Holds(s, c)
  /\ \A s, t \in Fresh : shelf[s].members = shelf[t].members => s = t

ShelvedRight ==
  /\ ClaimsOnce /\ TakenIsKept /\ ClaimedAreFull /\ OthersAreMade /\ FreshAreRight
  /\ step = "ask" => clusters = {} /\ seen \subseteq taken

ShelfInv == calm /\ step \in {"shelve", "ask"} => ShelvedRight

LEMMA SameComponents ==
  ASSUME UNCHANGED <<mem, edges>>
  PROVE  /\ Formed' = Formed
         /\ \A c : Clear(c)' = Clear(c) /\ (Big(c)' <=> Big(c))
<1>1. Strict' = Strict
  BY DEF Strict, Source
<1>2. \A ms : Closed(ms)' <=> Closed(ms)
  BY <1>1 DEF Closed
<1>3. Components' = Components
  BY <1>1, <1>2 DEF Components
<1>4. \A c : Clear(c)' = Clear(c)
  BY DEF Clear
<1> QED
  BY <1>3, <1>4 DEF Formed, Big

\* A component with enough to shelve is one that formed, and no other has the same
\* on its shelf.
LEMMA BigOnes ==
  ASSUME KeeperInv
  PROVE  /\ \A c \in Components : Big(c) => c \in Formed
         /\ \A c, d \in Components : Big(c) /\ Clear(c) = Clear(d) => c = d
<1>1. \A c \in Components : IsFiniteSet(c)
  BY ComponentsAre, TypesAre
<1>2. ASSUME NEW c \in Components, Big(c)
      PROVE  Cardinality(c) >= MinShelf /\ Clear(c) # {}
  <2>1. Clear(c) \subseteq c
    BY DEF Clear
  <2>2. IsFiniteSet(Clear(c)) /\ Cardinality(Clear(c)) <= Cardinality(c)
    BY <1>1, <2>1, FS_Subset
  <2>3. Cardinality(c) \in Nat /\ Cardinality(Clear(c)) \in Nat
    BY <1>1, <2>2, FS_CardinalityType
  <2> QED
    BY <1>2, <2>2, <2>3, FS_EmptySet, KeeperAssumption DEF Big
<1>3. ASSUME NEW c \in Components, NEW d \in Components, Big(c), Clear(c) = Clear(d) PROVE c = d
  <2>1. c \intersect d # {}
    BY <1>2, <1>3 DEF Clear
  <2> QED
    BY <2>1, ComponentsAre, TypesAre
<1> QED
  BY <1>2, <1>3 DEF Formed

LEMMA GroupShelves ==
  ASSUME KeeperInv, Group
  PROVE  ShelvedRight'
<1>1. UNCHANGED <<mem, edges, shelf>> /\ step' = "shelve" /\ seen' = LiveShelves
  BY DEF Group, world
<1>2. Formed' = Formed /\ LiveShelves' = LiveShelves
  BY <1>1, SameComponents DEF LiveShelves
<1>3. /\ clusters' = Formed /\ DOMAIN claim' = Formed
      /\ \A c \in Formed : claim'[c] \in LiveShelves \union {0}
      /\ \A c, d \in Formed : claim'[c] = claim'[d] /\ claim'[c] # 0 => c = d
      /\ taken' = {claim'[c] : c \in {d \in Formed : claim'[d] # 0}}
  BY GroupIs, TypesAre
<1>4. ClaimsOnce'
  BY <1>2, <1>3 DEF ClaimsOnce
<1>5. TakenIsKept'
  <2>1. taken' \subseteq LiveShelves
    BY <1>3
  <2>2. \A c \in Formed : Keeps(c)' <=> claim'[c] # 0
    BY <1>3 DEF Keeps
  <2> QED
    BY <1>1, <1>2, <1>3, <2>1, <2>2 DEF TakenIsKept
<1>6. Past' = {} /\ Fresh' = {}
  BY <1>1, <1>2, <1>3 DEF Past, Fresh
<1> QED
  BY <1>1, <1>4, <1>5, <1>6 DEF ShelvedRight, ClaimedAreFull, OthersAreMade, FreshAreRight

\* A cluster is taken up: what holds of the shelves as they are while it is.
LEMMA TakeUp ==
  ASSUME KeeperInv, ShelvedRight, ShelveKnown \/ ShelveNew \/ ShelveNone
  PROVE  /\ First \in clusters /\ First \in Formed /\ First \subseteq Memories
         /\ clusters' = clusters \ {First} /\ step' = step /\ step = "shelve"
         /\ UNCHANGED <<mem, edges, claim, seen>> /\ Formed' = Formed
         /\ \A c : Clear(c)' = Clear(c) /\ (Big(c)' <=> Big(c))
         /\ Past' = Past \union {First} /\ First \notin Past
         /\ ClaimsOnce'
<1>1. clusters # {} /\ step = "shelve"
  BY DEF ShelveKnown, ShelveNew, ShelveNone
<1>2. \A c \in clusters : c \in Formed /\ c \subseteq Memories /\ c # {}
  BY ComponentsAre, TypesAre DEF ShelvedRight, ClaimsOnce, Formed
<1>3. First \in clusters /\ First \in Formed /\ First \subseteq Memories
  BY <1>1, <1>2, FirstIs
<1>4. /\ clusters' = clusters \ {First} /\ step' = step
      /\ UNCHANGED <<mem, edges, claim, seen>>
  BY DEF ShelveKnown, ShelveNew, ShelveNone, KeepPairs, world
<1>5. Formed' = Formed /\ \A c : Clear(c)' = Clear(c) /\ (Big(c)' <=> Big(c))
  BY <1>4, SameComponents
<1>6. Past' = Past \union {First} /\ First \notin Past
  BY <1>3, <1>4, <1>5 DEF Past
<1>7. ClaimsOnce'
  BY <1>4, <1>5 DEF ShelvedRight, ClaimsOnce
<1> QED
  BY <1>1, <1>3, <1>4, <1>5, <1>6, <1>7

LEMMA KnownShelves ==
  ASSUME KeeperInv, ShelvedRight, ShelveKnown
  PROVE  ShelvedRight'
<1>1. PICK c \in Formed : c = First
  BY TakeUp
<1>2. /\ c \in clusters /\ clusters' = clusters \ {c} /\ step' = step /\ step = "shelve"
      /\ UNCHANGED <<mem, edges, claim, seen>> /\ Formed' = Formed
      /\ \A d : Clear(d)' = Clear(d) /\ (Big(d)' <=> Big(d))
      /\ Past' = Past \union {c} /\ c \notin Past /\ ClaimsOnce' /\ c \subseteq Memories
  BY <1>1, TakeUp
<1>3. claim[c] # 0 /\ Big(c) /\ taken' = taken
  BY <1>1 DEF ShelveKnown, Big
<1>4. Keeps(c) /\ claim[c] \in taken
  BY <1>2, <1>3 DEF Keeps, ShelvedRight, TakenIsKept
<1>5. PICK s \in Shelves : s = claim[c] /\ s \in seen /\ s \in LiveShelves
  BY <1>4 DEF ShelvedRight, TakenIsKept, LiveShelves
<1>6. /\ shelf'[s].live /\ shelf'[s].members = Clear(c)
      /\ \A t \in Shelves \ {s} : shelf'[t] = shelf[t]
  <2>1. PICK ms \in SUBSET Memories : ms = Clear(c)
    BY <1>2 DEF Clear
  <2>2. \/ shelf' = Written(s, ms)
        \/ shelf[s].members = ms /\ UNCHANGED shelf
    BY <1>1, <1>5, <2>1 DEF ShelveKnown
  <2>3. shelf[s].live
    BY <1>5 DEF LiveShelves
  <2> QED
    BY <2>1, <2>2, <2>3, ShelfWritten DEF KeeperInv
<1>7. LiveShelves' = LiveShelves
  BY <1>5, <1>6 DEF LiveShelves
<1>8. Fresh' = Fresh /\ \A t \in Fresh : t \in Shelves \ {s}
  BY <1>2, <1>5, <1>7 DEF Fresh, LiveShelves
<1>9. \A d \in Formed : Keeps(d)' <=> Keeps(d)
  BY <1>2, <1>3 DEF Keeps
<1>10. TakenIsKept'
  BY <1>2, <1>3, <1>7, <1>9 DEF ShelvedRight, TakenIsKept
<1>11. ASSUME NEW d \in Past', Big(d), claim[d] # 0 PROVE Holds(claim[d], d)'
  <2>1. CASE d = c
    BY <1>2, <1>5, <1>6, <2>1 DEF Holds
  <2>2. CASE d # c
    <3>1. d \in Past /\ d \in Formed /\ Keeps(d)
      BY <1>2, <1>3, <1>11, <2>2 DEF Past, Keeps
    <3>2. claim[d] # claim[c] /\ claim[d] \in taken /\ taken \subseteq seen /\ seen \subseteq LiveShelves
      BY <1>3, <2>2, <3>1 DEF ShelvedRight, ClaimsOnce, TakenIsKept
    <3>3. claim[d] \in Shelves \ {s}
      BY <1>5, <3>2 DEF LiveShelves
    <3>4. Holds(claim[d], d)
      BY <1>11, <3>1 DEF ShelvedRight, ClaimedAreFull
    <3> QED
      BY <1>2, <1>6, <3>3, <3>4 DEF Holds
  <2> QED
    BY <2>1, <2>2
<1>12. ClaimedAreFull'
  BY <1>2, <1>11 DEF ClaimedAreFull
<1>13. \A t \in Fresh : \A d : Holds(t, d)' <=> Holds(t, d)
  BY <1>2, <1>6, <1>8 DEF Holds
<1>14. OthersAreMade'
  BY <1>2, <1>3, <1>8, <1>13 DEF ShelvedRight, OthersAreMade
<1>15. FreshAreRight'
  <2>1. \A t \in Fresh : shelf'[t] = shelf[t]
    BY <1>6, <1>8
  <2> QED
    BY <1>2, <1>8, <1>13, <2>1 DEF ShelvedRight, FreshAreRight
<1> QED
  BY <1>2, <1>10, <1>12, <1>14, <1>15 DEF ShelvedRight

LEMMA NewShelves ==
  ASSUME KeeperInv, ShelvedRight, ShelveNew
  PROVE  ShelvedRight'
<1>1. PICK c \in Formed : c = First
  BY TakeUp
<1>2. /\ c \in clusters /\ clusters' = clusters \ {c} /\ step' = step /\ step = "shelve"
      /\ UNCHANGED <<mem, edges, claim, seen>> /\ Formed' = Formed
      /\ \A d : Clear(d)' = Clear(d) /\ (Big(d)' <=> Big(d))
      /\ Past' = Past \union {c} /\ c \notin Past /\ ClaimsOnce' /\ c \subseteq Memories
  BY <1>1, TakeUp
<1>3. claim[c] = 0 /\ Big(c) /\ taken' = taken
  BY <1>1 DEF ShelveNew, Big
<1>4. PICK s \in Shelves : s = FreeName /\ ~shelf[s].made
  BY FreeNameIs DEF ShelveNew
<1>5. s \notin LiveShelves
  BY <1>4 DEF LiveShelves, KeeperInv, WorldTypes
<1>6. /\ shelf'[s].live /\ shelf'[s].members = Clear(c)
      /\ \A t \in Shelves \ {s} : shelf'[t] = shelf[t]
  <2>1. PICK ms \in SUBSET Memories : ms = Clear(c)
    BY <1>2 DEF Clear
  <2>2. shelf' = Written(s, ms)
    BY <1>1, <1>4, <2>1 DEF ShelveNew
  <2> QED
    BY <2>1, <2>2, ShelfWritten DEF KeeperInv
<1>7. LiveShelves' = LiveShelves \union {s}
  BY <1>5, <1>6 DEF LiveShelves
<1>8. seen \subseteq LiveShelves /\ Fresh' = Fresh \union {s} /\ \A t \in LiveShelves : t \in Shelves \ {s}
  BY <1>2, <1>5, <1>7 DEF Fresh, LiveShelves, ShelvedRight, TakenIsKept
<1>9. \A d \in Formed : Keeps(d)' <=> Keeps(d)
  BY <1>2, <1>3 DEF Keeps
<1>10. TakenIsKept'
  BY <1>2, <1>3, <1>7, <1>9 DEF ShelvedRight, TakenIsKept
<1>11. \A t \in LiveShelves : shelf'[t] = shelf[t] /\ \A d : Holds(t, d)' <=> Holds(t, d)
  BY <1>2, <1>6, <1>8 DEF Holds
<1>12. ClaimedAreFull'
  <2>1. ASSUME NEW d \in Past, Big(d), claim[d] # 0 PROVE claim[d] \in LiveShelves
    BY <2>1 DEF Past, Keeps, ShelvedRight, TakenIsKept
  <2> QED
    BY <1>2, <1>3, <1>11, <2>1 DEF ShelvedRight, ClaimedAreFull
<1>13. Holds(s, c)'
  BY <1>2, <1>6 DEF Holds
<1>14. OthersAreMade'
  BY <1>2, <1>8, <1>11, <1>13 DEF ShelvedRight, OthersAreMade, Fresh
<1>15. ASSUME NEW t \in Fresh PROVE shelf[t].members # Clear(c)
  <2>1. PICK d \in Past : Big(d) /\ Holds(t, d)
    BY DEF ShelvedRight, FreshAreRight
  <2>2. d # c /\ d \in Components /\ c \in Components
    BY <1>2, <2>1 DEF Past, Formed
  <2> QED
    BY <2>1, <2>2, BigOnes DEF Holds
<1>16. FreshAreRight'
  <2>1. \A t \in Fresh : shelf'[t] = shelf[t] /\ \A d : Holds(t, d)' <=> Holds(t, d)
    BY <1>11 DEF Fresh
  <2>2. \A t \in Fresh' : \E d \in Past' : claim'[d] = 0 /\ Big(d)' /\ Holds(t, d)'
    BY <1>2, <1>3, <1>8, <1>13, <2>1 DEF ShelvedRight, FreshAreRight
  <2>3. \A t, u \in Fresh : shelf[t].members = shelf[u].members => t = u
    BY DEF ShelvedRight, FreshAreRight
  <2>4. \A t, u \in Fresh' : shelf'[t].members = shelf'[u].members => t = u
    BY <1>6, <1>8, <1>15, <2>1, <2>3
  <2> QED
    BY <2>2, <2>4 DEF FreshAreRight
<1> QED
  BY <1>2, <1>10, <1>12, <1>14, <1>16 DEF ShelvedRight

LEMMA NoneShelves ==
  ASSUME KeeperInv, ShelvedRight, ShelveNone
  PROVE  ShelvedRight'
<1>1. PICK c \in Formed : c = First
  BY TakeUp
<1>2. /\ c \in clusters /\ clusters' = clusters \ {c} /\ step' = step /\ step = "shelve"
      /\ UNCHANGED <<mem, edges, claim, seen>> /\ Formed' = Formed
      /\ \A d : Clear(d)' = Clear(d) /\ (Big(d)' <=> Big(d))
      /\ Past' = Past \union {c} /\ c \notin Past /\ ClaimsOnce'
  BY <1>1, TakeUp
<1>3. ~Big(c) /\ taken' = taken \ {claim[c]} /\ UNCHANGED shelf
  <2>1. Cardinality(Clear(c)) \in Nat
    <3>1. IsFiniteSet(c) /\ Clear(c) \subseteq c
      BY ComponentsAre, TypesAre DEF Formed, Clear
    <3> QED
      BY <3>1, FS_Subset, FS_CardinalityType
  <2> QED
    BY <1>1, <2>1, KeeperAssumption DEF ShelveNone, Released, Big, world
<1>4. LiveShelves' = LiveShelves /\ Fresh' = Fresh /\ \A t, d : Holds(t, d)' <=> Holds(t, d)
  BY <1>2, <1>3 DEF LiveShelves, Fresh, Holds
<1>5. \A d \in Formed : Keeps(d)' <=> Keeps(d) /\ d # c
  BY <1>2, <1>3 DEF Keeps
<1>6. \A d \in Formed \ {c} : Keeps(d) => claim[d] # claim[c]
  BY DEF Keeps, ShelvedRight, ClaimsOnce
<1>7. TakenIsKept'
  <2>1. \A s : s \in taken' <=> \E d \in Formed' : Keeps(d)' /\ s = claim'[d]
    BY <1>2, <1>3, <1>5, <1>6 DEF ShelvedRight, TakenIsKept
  <2> QED
    BY <1>2, <1>3, <1>4, <2>1 DEF ShelvedRight, TakenIsKept
<1>8. ClaimedAreFull' /\ OthersAreMade' /\ FreshAreRight'
  BY <1>2, <1>3, <1>4 DEF ShelvedRight, ClaimedAreFull, OthersAreMade, FreshAreRight
<1> QED
  BY <1>2, <1>7, <1>8 DEF ShelvedRight

LEMMA SweepShelves ==
  ASSUME KeeperInv, ShelvedRight, NEW s \in Shelves, Sweep(s)
  PROVE  ShelvedRight'
<1>1. /\ UNCHANGED <<step, clusters, claim, taken, mem, edges>> /\ step = "shelve"
      /\ s \in seen \ taken /\ seen' = seen \ {s} /\ shelf' = [shelf EXCEPT ![s].live = FALSE]
  BY DEF Sweep
<1>2. Formed' = Formed /\ \A c : Clear(c)' = Clear(c) /\ (Big(c)' <=> Big(c))
  BY <1>1, SameComponents
<1>3. /\ ~shelf'[s].live /\ \A t \in Shelves \ {s} : shelf'[t] = shelf[t]
  BY <1>1 DEF KeeperInv, WorldTypes
<1>4. LiveShelves' = LiveShelves \ {s}
  BY <1>3 DEF LiveShelves
<1>5. Fresh' = Fresh /\ Past' = Past /\ s \notin Fresh
  BY <1>1, <1>2, <1>4 DEF Fresh, Past
<1>6. \A t \in LiveShelves \ {s} : shelf'[t] = shelf[t] /\ \A c : Holds(t, c)' <=> Holds(t, c)
  BY <1>2, <1>3 DEF LiveShelves, Holds
<1>7. ClaimsOnce'
  BY <1>1, <1>2 DEF ShelvedRight, ClaimsOnce
<1>8. TakenIsKept'
  <2>1. \A c \in Formed : Keeps(c)' <=> Keeps(c)
    BY <1>1, <1>2 DEF Keeps
  <2> QED
    BY <1>1, <1>2, <1>4, <2>1 DEF ShelvedRight, TakenIsKept
<1>9. ClaimedAreFull'
  <2>1. ASSUME NEW d \in Past, Big(d), claim[d] # 0 PROVE claim[d] \in LiveShelves \ {s}
    BY <1>1, <2>1 DEF Past, Keeps, ShelvedRight, TakenIsKept
  <2> QED
    BY <1>1, <1>2, <1>5, <1>6, <2>1 DEF ShelvedRight, ClaimedAreFull
<1>10. \A t \in Fresh : shelf'[t] = shelf[t] /\ \A c : Holds(t, c)' <=> Holds(t, c)
  BY <1>5, <1>6 DEF Fresh
<1>11. OthersAreMade' /\ FreshAreRight'
  BY <1>1, <1>2, <1>5, <1>10 DEF ShelvedRight, OthersAreMade, FreshAreRight
<1> QED
  BY <1>1, <1>7, <1>8, <1>9, <1>11 DEF ShelvedRight

LEMMA ShelvesStay ==
  ASSUME ShelvedRight, UNCHANGED <<mem, edges, shelf, clusters, claim, seen, taken>>,
         step' = "ask" => clusters = {} /\ seen \subseteq taken
  PROVE  ShelvedRight'
<1>1. Formed' = Formed /\ \A c : Clear(c)' = Clear(c) /\ (Big(c)' <=> Big(c))
  BY SameComponents
<1>2. /\ LiveShelves' = LiveShelves /\ Fresh' = Fresh /\ Past' = Past
      /\ \A t, c : Holds(t, c)' <=> Holds(t, c)
      /\ \A c : Keeps(c)' <=> Keeps(c)
  BY <1>1 DEF LiveShelves, Fresh, Past, Holds, Keeps
<1>3. ClaimsOnce' /\ TakenIsKept' /\ ClaimedAreFull'
  BY <1>1, <1>2 DEF ShelvedRight, ClaimsOnce, TakenIsKept, ClaimedAreFull
<1>4. OthersAreMade' /\ FreshAreRight'
  BY <1>1, <1>2 DEF ShelvedRight, OthersAreMade, FreshAreRight
<1> QED
  BY <1>3, <1>4 DEF ShelvedRight

LEMMA ShelfStep == KeeperInv /\ ShelfInv /\ [Next]_vars => ShelfInv'
<1> SUFFICES ASSUME KeeperInv, ShelfInv, [Next]_vars, calm', step' \in {"shelve", "ask"}
             PROVE  ShelvedRight'
  BY DEF ShelfInv
<1>1. CASE Plan \/ Prune \/ Link \/ Mark
  BY <1>1 DEF Plan, Prune, Link, Mark
<1>2. CASE Group
  BY <1>2, GroupShelves
<1>3. CASE ShelveKnown \/ ShelveNew \/ ShelveNone
  <2>1. calm /\ step \in {"shelve", "ask"}
    BY <1>3 DEF ShelveKnown, ShelveNew, ShelveNone, world
  <2> QED
    BY <1>3, <2>1, KnownShelves, NewShelves, NoneShelves DEF ShelfInv
<1>4. CASE \E s \in Shelves : Sweep(s)
  <2>1. calm /\ step \in {"shelve", "ask"}
    BY <1>4 DEF Sweep
  <2> QED
    BY <1>4, <2>1, SweepShelves DEF ShelfInv
<1>5. CASE Swept
  <2>1. calm /\ step \in {"shelve", "ask"}
    BY <1>5 DEF Swept, world
  <2> QED
    BY <1>5, <2>1, ShelvesStay DEF ShelfInv, Swept, world
<1>6. CASE \E p \in Pairs : Ask(p) \/ PassOver(p)
  <2>1. calm /\ step = "ask"
    BY <1>6 DEF Ask, PassOver, KeepRest
  <2>2. clusters = {} /\ seen \subseteq taken /\ ShelvedRight
    BY <2>1 DEF ShelfInv, ShelvedRight
  <2>3. UNCHANGED <<mem, edges, shelf, clusters, claim, seen, taken>>
    BY <1>6 DEF Ask, PassOver, KeepRest
  <2> QED
    BY <2>2, <2>3, ShelvesStay
<1>7. CASE SaveLedger \/ Crash
  BY <1>7 DEF SaveLedger, Crash, Idle
<1>8. CASE Keyholder \/ \E m \in Memories : Embed(m)
  BY <1>8 DEF Keyholder, Embed
<1>9. CASE UNCHANGED vars
  <2>1. UNCHANGED <<mem, edges, shelf, clusters, claim, seen, taken, calm, step>>
    BY <1>9 DEF vars, tick
  <2> QED
    BY <2>1, ShelvesStay DEF ShelfInv, ShelvedRight
<1> QED
  BY <1>1, <1>2, <1>3, <1>4, <1>5, <1>6, <1>7, <1>8, <1>9 DEF Next, Keeper

LEMMA ShelfStarts == Init => ShelfInv
BY DEF Init, ShelfInv

\* After a tick under which nothing happened the shelves are what the graph says,
\* each component once, however the shelves were before and whatever was killed.
THEOREM ShelvesAreTheGraph == Spec => []ShelvesMirrorGraph
<1>1. ASSUME KeeperInv, ShelfInv, step = "ask", calm
      PROVE  /\ {shelf[s].members : s \in LiveShelves} =
                  {Clear(c) : c \in {d \in Components : Cardinality(Clear(d)) >= MinShelf}}
             /\ \A s, t \in LiveShelves : shelf[s].members = shelf[t].members => s = t
  <2>1. ShelvedRight /\ clusters = {} /\ seen = taken /\ Past = Formed
    BY <1>1 DEF ShelfInv, ShelvedRight, TakenIsKept, Past
  <2>2. ASSUME NEW s \in LiveShelves
        PROVE  \/ s \in Fresh /\ \E c \in Formed : claim[c] = 0 /\ Big(c) /\ Holds(s, c)
               \/ s \notin Fresh /\ \E c \in Formed : claim[c] = s /\ s # 0 /\ Big(c) /\ Holds(s, c)
    <3>1. CASE s \in Fresh
      BY <2>1, <3>1 DEF ShelvedRight, FreshAreRight
    <3>2. CASE s \notin Fresh
      <4>1. s \in taken
        BY <2>1, <3>2 DEF Fresh
      <4>2. PICK c \in Formed : Keeps(c) /\ s = claim[c]
        BY <2>1, <4>1 DEF ShelvedRight, TakenIsKept
      <4>3. Big(c) /\ claim[c] # 0
        BY <2>1, <4>2 DEF Keeps
      <4>4. Holds(claim[c], c)
        BY <2>1, <4>3 DEF ShelvedRight, ClaimedAreFull
      <4> QED
        BY <3>2, <4>2, <4>3, <4>4
    <3> QED
      BY <3>1, <3>2
  <2>3. ASSUME NEW c \in Components, Big(c) PROVE \E s \in LiveShelves : shelf[s].members = Clear(c)
    <3>1. c \in Formed
      BY <1>1, <2>3, BigOnes
    <3>2. CASE claim[c] = 0
      BY <2>1, <2>3, <3>1, <3>2 DEF ShelvedRight, OthersAreMade, Fresh, Holds
    <3>3. CASE claim[c] # 0
      <4>1. Holds(claim[c], c)
        BY <2>1, <2>3, <3>1, <3>3 DEF ShelvedRight, ClaimedAreFull
      <4>2. claim[c] \in LiveShelves
        BY <2>1, <2>3, <3>1, <3>3 DEF ShelvedRight, TakenIsKept, Keeps
      <4> QED
        BY <4>1, <4>2 DEF Holds
    <3> QED
      BY <3>2, <3>3
  <2>4. ASSUME NEW s \in LiveShelves PROVE \E c \in Components : Big(c) /\ shelf[s].members = Clear(c)
    BY <2>2 DEF Holds, Formed
  <2>5. ASSUME NEW s \in LiveShelves, NEW t \in LiveShelves, shelf[s].members = shelf[t].members
        PROVE  s = t
    <3>1. CASE s \in Fresh /\ t \in Fresh
      BY <2>1, <2>5, <3>1 DEF ShelvedRight, FreshAreRight
    <3>2. CASE ~(s \in Fresh /\ t \in Fresh)
      <4>1. PICK c \in Formed : /\ Big(c) /\ Holds(s, c)
                                /\ IF s \in Fresh THEN claim[c] = 0 ELSE claim[c] = s /\ s # 0
        BY <2>2
      <4>2. PICK d \in Formed : /\ Big(d) /\ Holds(t, d)
                                /\ IF t \in Fresh THEN claim[d] = 0 ELSE claim[d] = t /\ t # 0
        BY <2>2
      <4>3. c = d
        BY <1>1, <2>5, <4>1, <4>2, BigOnes DEF Holds, Formed
      <4> QED
        BY <3>2, <4>1, <4>2, <4>3
    <3> QED
      BY <3>1, <3>2
  <2>6. {shelf[s].members : s \in LiveShelves} =
          {Clear(c) : c \in {d \in Components : Cardinality(Clear(d)) >= MinShelf}}
    BY <2>3, <2>4 DEF Big
  <2> QED
    BY <2>5, <2>6
<1>2. KeeperInv /\ ShelfInv => ShelvesMirrorGraph
  BY <1>1 DEF ShelvesMirrorGraph
<1> QED
  BY <1>2, KeeperAlways, ShelfStarts, ShelfStep, PTL DEF Spec

\* Whatever happens under a tick and wherever it dies, every variable keeps its
\* shape.
THEOREM TypeCorrect == Spec => []TypeOK
<1>1. KeeperInv => TypeOK
  BY TypesAre
<1> QED
  BY <1>1, KeeperAlways, PTL

=============================================================================
