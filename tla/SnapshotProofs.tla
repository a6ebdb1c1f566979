----------------------------- MODULE SnapshotProofs -----------------------------
(***************************************************************************)
(* Proofs about what snapshots are kept in and what comes back from them.  *)
(* About SnapshotShelf, for any number of callers, any retention and any   *)
(* faults: that retention spares what it is told to spare, that every line *)
(* of the index has its tarball, that the shelf is bounded, and that a     *)
(* tarball goes for a reason.  About ForwardMerge, for any contents, Noses,*)
(* sources, feeders and bounds: no vector of another text but on the ways  *)
(* that are marked, and no way back for what was pruned.                   *)
(***************************************************************************)
EXTENDS ForwardMerge, SnapshotShelf, FiniteSetTheorems, TLAPS

-----------------------------------------------------------------------------
(* Counting along an order *)

\* R is a strict total order of M.
Orders(R, M) ==
  /\ \A x \in M : <<x, x>> \notin R
  /\ \A x, y, z \in M : <<x, y>> \in R /\ <<y, z>> \in R => <<x, z>> \in R
  /\ \A x, y \in M : x # y => <<x, y>> \in R \/ <<y, x>> \in R

\* What comes before x, and what has fewer than k before it.
Under(R, M, x) == {y \in M : <<y, x>> \in R}

Lowest(R, M, k) == {x \in M : Cardinality(Under(R, M, x)) < k}

\* A finite set that is not empty has a first element: of the sets of what comes
\* before an element, one is minimal.
LEMMA FirstExists ==
  ASSUME NEW M, IsFiniteSet(M), NEW R, Orders(R, M), NEW T, T \subseteq M, T # {}
  PROVE  \E x \in T : \A y \in T \ {x} : <<x, y>> \in R
<1> DEFINE down(x) == {y \in T : y = x \/ <<y, x>> \in R}
           downs == {down(x) : x \in T}
<1>1. downs \subseteq FiniteSubsetsOf(M) /\ downs # {}
  <2>1. downs \subseteq SUBSET M /\ downs # {}
    OBVIOUS
  <2> HIDE DEF downs
  <2> QED
    BY <2>1, FS_FiniteSubsetsOfFinite
<1>2. PICK D \in downs : \A E \in downs : <<E, D>> \notin StrictSubsetOrdering(M)
  BY <1>1, WFMin, FS_StrictSubsetOrderingWellFounded
<1>3. PICK x \in T : D = down(x)
  BY <1>2
<1>4. ASSUME NEW y \in T, y # x, <<y, x>> \in R PROVE FALSE
  <2>1. down(y) \subseteq down(x) /\ x \in down(x) /\ x \notin down(y)
    BY <1>4 DEF Orders
  <2>2. <<down(y), down(x)>> \in StrictSubsetOrdering(M)
    BY <2>1 DEF StrictSubsetOrdering
  <2> QED
    BY <1>2, <1>3, <2>2
<1> QED
  BY <1>4 DEF Orders

\* The order backwards is an order.
LEMMA Backwards ==
  ASSUME NEW R, NEW M, Orders(R, M)
  PROVE  Orders({p \in M \X M : <<p[2], p[1]>> \in R}, M)
BY DEF Orders

LEMMA LastExists ==
  ASSUME NEW M, IsFiniteSet(M), NEW R, Orders(R, M), NEW T, T \subseteq M, T # {}
  PROVE  \E x \in T : \A y \in T \ {x} : <<y, x>> \in R
<1> DEFINE B == {p \in M \X M : <<p[2], p[1]>> \in R}
<1>1. \A x, y \in T : <<x, y>> \in B <=> <<y, x>> \in R
  OBVIOUS
<1>2. Orders(B, M)
  BY Backwards
<1> HIDE DEF B
<1>3. \E x \in T : \A y \in T \ {x} : <<x, y>> \in B
  BY <1>2, FirstExists
<1> QED
  BY <1>1, <1>3

\* No more than k elements have fewer than k before them.
LEMMA LowestAreFew ==
  ASSUME NEW M, IsFiniteSet(M), NEW R, Orders(R, M), NEW k \in Nat
  PROVE  /\ IsFiniteSet(Lowest(R, M, k)) /\ Cardinality(Lowest(R, M, k)) \in 0 .. k
<1> DEFINE L == Lowest(R, M, k)
<1>1. L \subseteq M /\ IsFiniteSet(L) /\ Cardinality(L) \in Nat
  BY FS_Subset, FS_CardinalityType DEF Lowest
<1>2. CASE L = {}
  BY <1>1, <1>2, FS_EmptySet
<1>3. CASE L # {}
  <2>1. PICK x \in L : \A y \in L \ {x} : <<y, x>> \in R
    BY <1>1, <1>3, LastExists
  <2> DEFINE U == Under(R, M, x)
  <2>2. U \subseteq M /\ L \subseteq U \union {x} /\ Cardinality(U) < k
    BY <1>1, <2>1 DEF Under, Lowest
  <2> HIDE DEF L, U
  <2>3. IsFiniteSet(U) /\ Cardinality(U) \in Nat
    BY <2>2, FS_Subset, FS_CardinalityType
  <2>4. IsFiniteSet(U \union {x}) /\ Cardinality(U \union {x}) <= Cardinality(U) + 1
    <3>1. Cardinality(U \union {x}) \in {Cardinality(U), Cardinality(U) + 1}
      BY <2>3, FS_AddElement
    <3> QED
      BY <2>3, <3>1, FS_AddElement
  <2>5. Cardinality(L) <= Cardinality(U \union {x}) /\ Cardinality(U \union {x}) \in Nat
    BY <2>2, <2>4, FS_Subset, FS_CardinalityType
  <2> QED
    BY <1>1, <2>2, <2>3, <2>4, <2>5 DEF L
<1> QED
  BY <1>2, <1>3

\* And when there are k elements, k of them have fewer than k before them: below
\* the least k for which it failed there would be one element too few.
LEMMA LowestAreMany ==
  ASSUME NEW M, IsFiniteSet(M), NEW R, Orders(R, M), NEW k \in Nat, k <= Cardinality(M)
  PROVE  Cardinality(Lowest(R, M, k)) = k
<1> DEFINE n == Cardinality(M)
           C(i) == Cardinality(Lowest(R, M, i))
           bad == {i \in 0 .. n : C(i) < i}
<1>n. n \in Nat
  BY FS_CardinalityType
<1>r. \A x \in M : Cardinality(Under(R, M, x)) \in Nat
  BY FS_Subset, FS_CardinalityType DEF Under
<1>1. \A i \in Nat : C(i) \in 0 .. i /\ IsFiniteSet(Lowest(R, M, i))
  BY LowestAreFew
<1>2. ASSUME bad # {} PROVE FALSE
  <2> DEFINE less == {p \in (0 .. n) \X (0 .. n) : p[1] < p[2]}
  <2> HIDE DEF n, C
  <2>1. Orders(less, 0 .. n)
    BY <1>n DEF Orders
  <2>0. IsFiniteSet(0 .. n) /\ bad \subseteq 0 .. n
    BY <1>n, FS_Interval
  <2>7. \A i, j \in 0 .. n : <<i, j>> \in less => i < j
    OBVIOUS
  <2> HIDE DEF bad, less
  <2> DEFINE N == 0 .. n
  <2>2. PICK i \in bad : \A j \in bad \ {i} : <<i, j>> \in less
    <3> IsFiniteSet(N) /\ bad \subseteq N /\ bad # {} /\ Orders(less, N)
      BY <1>2, <2>0, <2>1
    <3> HIDE DEF N
    <3> QED
      BY FirstExists
  <2>3. i \in 1 .. n /\ i - 1 \in 0 .. n /\ i - 1 \notin bad
    <3>1. i \in 0 .. n /\ C(i) < i /\ C(i) \in Nat
      BY <1>1, <2>2 DEF bad
    <3>2. i \in 1 .. n /\ i - 1 \in 0 .. n
      BY <1>n, <3>1
    <3>3. i \in 0 .. n /\ i - 1 # i /\ ~(i < i - 1)
      BY <2>0, <2>2, <3>2
    <3> QED
      BY <2>2, <2>7, <3>2, <3>3
  <2>4. C(i) = i - 1 /\ C(i - 1) = i - 1
    <3>1. C(i) < i /\ ~(C(i - 1) < i - 1) /\ i \in Nat /\ i - 1 \in Nat
      BY <1>n, <2>2, <2>3 DEF bad
    <3>2. C(i - 1) \in 0 .. (i - 1) /\ C(i) \in 0 .. i
      BY <1>1, <3>1
    <3>3. C(i - 1) <= C(i)
      <4>1. Lowest(R, M, i - 1) \subseteq Lowest(R, M, i)
        BY <1>r, <3>1 DEF Lowest
      <4> QED
        BY <1>1, <3>1, <4>1, FS_Subset DEF C
    <3> QED
      BY <3>1, <3>2, <3>3
  <2> DEFINE L == Lowest(R, M, i)
  <2>5. L \subseteq M
    BY DEF Lowest
  <2>6. IsFiniteSet(L) /\ Cardinality(L) = i - 1
    BY <1>1, <2>3, <2>4 DEF C
  <2>8. M \ L # {}
    <3>1. L # M
      BY <1>n, <2>3, <2>6 DEF n
    <3> QED
      BY <2>5, <3>1
  <2> DEFINE T == M \ L
  <2>9. PICK x \in T : \A y \in T \ {x} : <<x, y>> \in R
    <3>1. T \subseteq M /\ T # {}
      BY <2>8
    <3> HIDE DEF T
    <3> QED
      BY <3>1, FirstExists
  <2>10. Under(R, M, x) \subseteq L
    BY <2>5, <2>9 DEF Under, Orders
  <2>11. Cardinality(Under(R, M, x)) <= i - 1 /\ Cardinality(Under(R, M, x)) \in Nat
    <3> HIDE DEF L
    <3>1. Under(R, M, x) \in SUBSET L
      BY <2>10
    <3> QED
      BY <2>6, <3>1, FS_Subset, FS_CardinalityType
  <2>12. x \in L
    BY <2>3, <2>9, <2>11 DEF Lowest
  <2> QED
    BY <2>9, <2>12
<1> QED
  <2>1. C(k) \in 0 .. k /\ ~(C(k) < k)
    BY <1>1, <1>2, <1>n
  <2> QED
    BY <2>1

-----------------------------------------------------------------------------
(* What a retention leaves *)

\* The order in which snapshots go.
Older == {p \in Ids \X Ids : Newer(p[2], p[1])}

LEMMA OlderOrders ==
  ASSUME NEW M, M \subseteq Ids
  PROVE  /\ Orders(Older, M) /\ IsFiniteSet(M)
         /\ \A x \in M : Under(Older, M, x) = {j \in M : Newer(x, j)}
<1>1. Ids \subseteq Int
  BY DEF Ids
<1>2. \A i, j \in Ids : <<i, j>> \in Older <=> Newer(j, i)
  BY DEF Older
<1>3. \A x, y, z \in Ids : /\ ~Newer(x, x)
                           /\ Newer(y, x) /\ Newer(z, y) => Newer(z, x)
                           /\ x # y => Newer(x, y) \/ Newer(y, x)
  BY <1>1 DEF Newer
<1>4. IsFiniteSet(Ids)
  <2>1. 1 \in Int /\ MaxSnaps \in Int
    BY ShelfAssumption
  <2> QED
    BY <2>1, FS_Interval DEF Ids
<1>5. IsFiniteSet(M)
  BY <1>4, FS_Subset
<1>6. Orders(Older, M)
  BY <1>2, <1>3 DEF Orders
<1>7. ASSUME NEW x \in M PROVE Under(Older, M, x) = {j \in M : Newer(x, j)}
  BY <1>2 DEF Under
<1> QED
  BY <1>5, <1>6, <1>7

\* The cap is met, and no snapshot goes for it that did not have to.
LEMMA CapIsMet ==
  ASSUME NEW N, N \subseteq Ids, NEW e, IsFiniteSet(e), Cardinality(e) <= 2
  PROVE  /\ Cardinality(Capped(N, e)) \in 0 .. HardCap
         /\ Capped(N, e) # N => Cardinality(Capped(N, e)) = HardCap
<1> DEFINE M == N \ e
           k == OverCap(N)
           L == Lowest(Older, M, k)
<1>1. IsFiniteSet(N) /\ Cardinality(N) \in Nat /\ Cardinality(e) \in Nat
  BY OlderOrders, FS_CardinalityType
<1>h. HardCap \in Nat /\ HardCap >= 2
  BY ShelfAssumption
<1>2. /\ k \in Nat /\ Cardinality(N) - k <= HardCap
      /\ k = 0 \/ Cardinality(N) - k = HardCap
  BY <1>1, <1>h DEF OverCap
<1>3. M \subseteq N /\ M \subseteq Ids /\ IsFiniteSet(M) /\ Orders(Older, M)
  BY OlderOrders
<1>4. Capped(N, e) = N \ L
  <2>1. {i \in M : Cardinality({j \in M : Newer(i, j)}) < k} = L
    BY <1>3, OlderOrders DEF Lowest
  <2> QED
    BY <2>1 DEF Capped
<1> HIDE DEF k, L
<1>5. Cardinality(M) \in Nat /\ Cardinality(M) >= Cardinality(N) - 2
  <2>1. /\ Cardinality(M) = Cardinality(N) - Cardinality(N \intersect e)
        /\ Cardinality(N \intersect e) <= Cardinality(e)
        /\ IsFiniteSet(N \intersect e)
    BY <1>1, FS_Difference, FS_Intersection
  <2>2. Cardinality(N \intersect e) \in Nat
    BY <2>1, FS_CardinalityType
  <2>3. Cardinality(M) \in Nat
    BY <1>3, FS_CardinalityType
  <2> QED
    BY <1>1, <2>1, <2>2, <2>3
<1> HIDE DEF M
<1>6. k <= Cardinality(M)
  BY <1>1, <1>h, <1>2, <1>5
<1>7. Cardinality(L) = k /\ L \subseteq M /\ IsFiniteSet(L)
  <2>1. L \subseteq M
    BY DEF L, Lowest
  <2> QED
    BY <1>2, <1>3, <1>6, <2>1, LowestAreMany, LowestAreFew DEF L
<1>8. Cardinality(N \ L) = Cardinality(N) - k /\ Cardinality(N \ L) \in Nat
  <2>1. N \intersect L = L
    BY <1>3, <1>7
  <2>2. IsFiniteSet(N \ L) /\ Cardinality(N \ L) = Cardinality(N) - Cardinality(N \intersect L)
    BY <1>1, FS_Difference
  <2> QED
    BY <1>7, <2>1, <2>2, FS_CardinalityType
<1>9. k = 0 => N \ L = N
  BY <1>7, FS_EmptySet
<1> QED
  BY <1>1, <1>2, <1>4, <1>8, <1>9

\* What goes is thinned out of a bucket where a newer one stays, or the cap is
\* reached without it.
LEMMA GoesForAReason ==
  ASSUME Listing \subseteq Ids, NEW e, IsFiniteSet(e), Cardinality(e) <= 2,
         NEW i \in Listing \ Kept(e)
  PROVE  \/ Cardinality(Kept(e)) = HardCap
         \/ Age(i) > RecentDays /\ \E j \in Kept(e) : j > i /\ Bucket(j) = Bucket(i)
<1> DEFINE N == NewestOfBucket(e)
           T == {j \in Listing \ e : Thinnable(j) /\ Bucket(j) = Bucket(i)}
<1>1. N \subseteq Ids
  BY DEF NewestOfBucket
<1>2. CASE Kept(e) # N
  BY <1>1, <1>2, CapIsMet DEF Kept
<1>3. CASE Kept(e) = N
  <2>1. i \notin e /\ Thinnable(i) /\ i \in T /\ T \subseteq Ids
    BY <1>3 DEF NewestOfBucket
  <2>2. PICK j \in T : \A x \in T \ {j} : <<x, j>> \in Older
    <3> HIDE DEF T
    <3> QED
      BY <2>1, OlderOrders, LastExists
  <2>3. \A x \in T \ {j} : Newer(j, x)
    BY <2>2 DEF Older
  <2>4. \A x \in T : ~Newer(x, j)
    <3>1. \A x \in T : x # j => ~Newer(x, j)
      BY <2>1, <2>3 DEF Newer, Ids
    <3> QED
      BY <2>1, <3>1 DEF Newer, Ids
  <2>5. j \in N
    BY <2>4 DEF NewestOfBucket
  <2>6. j # i /\ Newer(j, i)
    BY <1>3, <2>1, <2>3, <2>5
  <2>7. j > i
    BY <2>1, <2>6 DEF Newer, Thinnable
  <2> QED
    BY <1>3, <2>1, <2>5, <2>7 DEF Thinnable
<1> QED
  BY <1>2, <1>3

-----------------------------------------------------------------------------

LEMMA HeadsAreIds ==
  ASSUME lastId \in 0 .. MaxSnaps
  PROVE  /\ lastId \in Nat
         /\ lastId < MaxSnaps => lastId + 1 \in Ids /\ lastId + 1 \in 0 .. MaxSnaps
BY ShelfAssumption DEF Ids

\* What is kept is listed, and what is exempt is kept.
LEMMA KeptIsListed == ASSUME NEW exempt PROVE Kept(exempt) \subseteq Listing
BY DEF Kept, Capped, NewestOfBucket

LEMMA KeptSpares ==
  ASSUME NEW exempt
  PROVE  Listing \intersect exempt \subseteq Kept(exempt)
BY DEF Kept, Capped, NewestOfBucket

-----------------------------------------------------------------------------
(* The invariant: a caller that is under way has a number, and a merge its    *)
(* target; the receipt that is about to be appended is of a tarball that is   *)
(* there, and what is to be unlinked is gone from the index already.          *)

Numbered ==
  \A c \in Callers :
    /\ caller[c].at # "idle" => caller[c].id \in Ids
    /\ caller[c].at = "merge" => caller[c].target \in Ids

Receipted == io.at = "append" => \A c \in io.by : caller[c].id \in tar

OffTheIndex == io.at = "unlink" => io.doomed \intersect index = {}

ShelfInv == ShelfTypeOK /\ Numbered /\ Receipted /\ OffTheIndex /\ ListedMeansThere

LEMMA Records ==
  /\ NoCall \in Calls /\ NoCall.at = "idle"
  /\ NoIO \in IOs /\ NoIO.at = "idle"
BY DEF NoCall, Calls, NoIO, FileOp, IOs

LEMMA FaultCounts == ASSUME faults \in Nat, Fault PROVE faults' \in Nat
BY DEF Fault

LEMMA ShelfStarts == ShelfInit => ShelfInv
<1> SUFFICES ASSUME ShelfInit PROVE ShelfInv
  OBVIOUS
<1>1. ShelfTypeOK
  <2>1. 0 \in 0 .. MaxSnaps /\ 0 \in Nat
    BY ShelfAssumption
  <2>2. began \in [Ids -> Nat]
    BY <2>1 DEF ShelfInit
  <2> QED BY <2>1, <2>2, Records DEF ShelfInit, ShelfTypeOK
<1> QED
  BY <1>1, Records DEF ShelfInit, ShelfInv, Numbered, Receipted, OffTheIndex, ListedMeansThere

\* A step that leaves the files alone, and touches callers only while no file
\* operation is under way.
LEMMA ShelfBegin ==
  ASSUME ShelfInv, NEW c \in Callers, NEW t \in Ids \union {0}, NEW g \in BOOLEAN, Begin(c, t, g)
  PROVE  ShelfInv'
<1> DEFINE n == [at |-> "dump", id |-> lastId + 1, target |-> t, guard |-> g]
<1>1. n \in Calls /\ n.at = "dump" /\ n.id \in Ids /\ caller' = [caller EXCEPT ![c] = n]
  BY HeadsAreIds DEF Begin, Calls, ShelfInv, ShelfTypeOK
<1> HIDE DEF n
<1>2. ShelfTypeOK'
  BY <1>1, HeadsAreIds DEF Begin, ShelfInv, ShelfTypeOK
<1>3. Numbered'
  BY <1>1 DEF ShelfInv, ShelfTypeOK, Numbered
<1>4. io'.at = "idle" /\ UNCHANGED <<index, tar>>
  BY Records DEF Begin
<1> QED BY <1>2, <1>3, <1>4 DEF ShelfInv, Receipted, OffTheIndex, ListedMeansThere

LEMMA ShelfWrite ==
  ASSUME ShelfInv, NEW c \in Callers, Write(c)
  PROVE  ShelfInv'
<1> DEFINE n == FileOp("append", {c}, {}, {})
<1>1. n \in IOs /\ n.at = "append" /\ n.by = {c} /\ io' = n
  BY DEF Write, FileOp, IOs
<1> HIDE DEF n
<1>2. UNCHANGED <<caller, index>> /\ tar' = tar \union {caller[c].id}
  BY DEF Write
<1>3. caller[c].id \in Ids
  <2>1. caller[c].at # "idle"
    BY DEF Write
  <2> QED BY <2>1 DEF ShelfInv, Numbered
<1>4. ShelfTypeOK'
  BY <1>1, <1>2, <1>3 DEF Write, ShelfInv, ShelfTypeOK
<1> QED BY <1>1, <1>2, <1>4 DEF ShelfInv, Numbered, Receipted, OffTheIndex, ListedMeansThere

LEMMA ShelfAppend ==
  ASSUME ShelfInv, NEW c \in Callers, Append(c)
  PROVE  ShelfInv'
<1> DEFINE n == IF caller[c].target = 0 THEN NoCall ELSE [caller[c] EXCEPT !.at = "merge"]
           o == IF caller[c].guard THEN NoIO
                ELSE FileOp("retain", {}, {caller[c].id}, {})
<1>1. caller[c].id \in tar /\ caller[c].id \in Ids /\ caller[c] \in Calls
  BY DEF Append, ShelfInv, Receipted, ShelfTypeOK
<1>2. /\ n \in Calls /\ caller' = [caller EXCEPT ![c] = n]
      /\ n.at # "idle" => n.id \in Ids /\ n.target \in Ids
  BY <1>1, Records DEF Append, Calls
<1>3. o \in IOs /\ o.at \in {"idle", "retain"} /\ io' = o
  BY <1>1, Records DEF Append, FileOp, IOs
<1> HIDE DEF n, o
<1>4. UNCHANGED tar /\ index' \subseteq index \union {caller[c].id}
      /\ undated' \subseteq index'
  BY DEF Append, ShelfInv, ShelfTypeOK
<1>5. ShelfTypeOK'
  BY <1>1, <1>2, <1>3, <1>4 DEF Append, ShelfInv, ShelfTypeOK
<1>6. Numbered'
  BY <1>2 DEF ShelfInv, ShelfTypeOK, Numbered
<1> QED
  BY <1>1, <1>3, <1>4, <1>5, <1>6 DEF ShelfInv, Receipted, OffTheIndex, ListedMeansThere

LEMMA ShelfEndMerge ==
  ASSUME ShelfInv, NEW c \in Callers, EndMerge(c)
  PROVE  ShelfInv'
<1> DEFINE o == FileOp("retain", {}, {caller[c].id, caller[c].target}, {})
<1>1. caller' = [caller EXCEPT ![c] = NoCall] /\ (io' = o \/ io' = io) /\ io = NoIO
      /\ UNCHANGED <<tar, index, undated, torn, day, began, lastId, faults, surplus>>
  BY DEF EndMerge
<1>2. o \in IOs /\ o.at = "retain"
  <2>1. caller[c].at = "merge" /\ caller[c].at # "idle"
    BY DEF EndMerge
  <2>2. caller[c].id \in Ids /\ caller[c].target \in Ids
    BY <2>1 DEF ShelfInv, Numbered
  <2> QED BY <2>2 DEF FileOp, IOs
<1> HIDE DEF o
<1>3. io' \in IOs /\ io'.at \in {"idle", "retain"}
  BY <1>1, <1>2, Records
<1>4. ShelfTypeOK' /\ Numbered'
  BY <1>1, <1>3, Records DEF ShelfInv, ShelfTypeOK, Numbered
<1> QED BY <1>1, <1>3, <1>4 DEF ShelfInv, Receipted, OffTheIndex, ListedMeansThere

LEMMA ShelfRewrite ==
  ASSUME ShelfInv, Rewrite
  PROVE  ShelfInv'
<1> DEFINE kept == Kept(io.exempt)
           o == FileOp("unlink", {}, {}, Listing \ kept)
<1>1. kept \subseteq Listing /\ Listing \subseteq tar /\ tar \subseteq Ids
  BY KeptIsListed DEF Listing, ShelfInv, ListedMeansThere, ShelfTypeOK
<1>2. o \in IOs /\ o.at = "unlink" /\ o.doomed = Listing \ kept
  BY <1>1 DEF FileOp, IOs
<1>3. UNCHANGED <<tar, day, began, lastId, caller, faults>>
      /\ surplus' \in {{}, surplus}
  BY DEF Rewrite
<1>4. CASE kept = Listing
  <2>1. UNCHANGED <<index, undated, torn>> /\ io' = NoIO
    BY <1>4 DEF Rewrite
  <2> QED
    BY <1>3, <2>1, Records
    DEF ShelfInv, ShelfTypeOK, Numbered, Receipted, OffTheIndex, ListedMeansThere
<1>5. CASE kept # Listing
  <2>1. index' = kept /\ undated' \subseteq kept /\ torn' = FALSE /\ io' = o
    BY <1>5 DEF Rewrite
  <2> HIDE DEF kept, o
  <2>2. ShelfTypeOK'
    BY <1>1, <1>2, <1>3, <2>1 DEF ShelfInv, ShelfTypeOK
  <2> QED
    BY <1>1, <1>2, <1>3, <2>1, <2>2
    DEF ShelfInv, Numbered, Receipted, OffTheIndex, ListedMeansThere
<1> QED BY <1>4, <1>5

LEMMA ShelfUnlinked ==
  ASSUME ShelfInv, NEW i \in Ids, NEW off \in BOOLEAN, Unlinked(i, off),
         surplus' \subseteq Ids, faults' \in Nat
  PROVE  ShelfInv'
<1> DEFINE o == [io EXCEPT !.doomed = @ \ {i}]
<1>1. o \in IOs /\ o.at = "unlink" /\ o.doomed = io.doomed \ {i}
  BY DEF Unlinked, ShelfInv, ShelfTypeOK, IOs
<1>2. /\ i \notin index /\ tar \ {i} \subseteq tar' /\ tar' \subseteq tar
      /\ UNCHANGED <<index, undated, torn, day, began, lastId, caller>>
      /\ io' = IF io.doomed = {i} THEN NoIO ELSE o
  BY DEF Unlinked, ShelfInv, OffTheIndex
<1> HIDE DEF o
<1>3. ShelfTypeOK'
  BY <1>1, <1>2, Records DEF ShelfInv, ShelfTypeOK
<1>4. Receipted' /\ OffTheIndex'
  BY <1>1, <1>2, Records DEF ShelfInv, Receipted, OffTheIndex, Unlinked
<1> QED BY <1>2, <1>3, <1>4 DEF ShelfInv, Numbered, ListedMeansThere

\* What goes wrong, and time.
LEMMA ShelfFaults ==
  ASSUME ShelfInv,
         \/ \E c \in Callers : CallFails(c)
         \/ RetentionFails \/ Crash \/ NextDay
  PROVE  ShelfInv'
<1>1. UNCHANGED <<tar, index, undated, began, lastId, surplus>>
  BY DEF CallFails, RetentionFails, Crash, NextDay
<1>2. io' \in IOs /\ io'.at = "idle"
  BY Records DEF CallFails, RetentionFails, Crash, NextDay
<1>3. \A c \in Callers : caller'[c] = caller[c] \/ caller'[c] = NoCall
  BY DEF CallFails, RetentionFails, Crash, NextDay, ShelfInv, ShelfTypeOK
<1>4. caller' \in [Callers -> Calls] /\ torn' \in BOOLEAN
  BY Records DEF CallFails, RetentionFails, Crash, NextDay, ShelfInv, ShelfTypeOK
<1>7. day' \in Nat /\ faults' \in Nat
  <2>1. day \in Nat /\ faults \in Nat
    BY DEF ShelfInv, ShelfTypeOK
  <2>2. day' = day \/ day' = day + 1
    BY DEF CallFails, RetentionFails, Crash, NextDay
  <2>3. faults' = faults \/ Fault
    BY DEF CallFails, RetentionFails, Crash, NextDay
  <2> QED BY <2>1, <2>2, <2>3, FaultCounts
<1>5. ShelfTypeOK'
  BY <1>1, <1>2, <1>4, <1>7 DEF ShelfInv, ShelfTypeOK
<1>6. Numbered'
  BY <1>3, Records DEF ShelfInv, Numbered
<1> QED
  BY <1>1, <1>2, <1>5, <1>6 DEF ShelfInv, Receipted, OffTheIndex, ListedMeansThere

LEMMA ShelfStep == ShelfInv /\ [ShelfNext]_shelfVars => ShelfInv'
<1> SUFFICES ASSUME ShelfInv, [ShelfNext]_shelfVars PROVE ShelfInv'
  OBVIOUS
<1>1. ASSUME NEW c \in Callers, NEW g \in BOOLEAN, Snapshot(c, g) PROVE ShelfInv'
  BY <1>1, ShelfBegin DEF Snapshot
<1>2. ASSUME NEW c \in Callers, NEW t \in Ids, Rollback(c, t) PROVE ShelfInv'
  BY <1>2, ShelfBegin DEF Rollback
<1>3. ASSUME NEW i \in Ids, Unlink(i) PROVE ShelfInv'
  <2>1. surplus' \subseteq Ids /\ faults' \in Nat /\ Unlinked(i, TRUE)
    BY <1>3 DEF Unlink, ShelfInv, ShelfTypeOK
  <2> QED BY <2>1, ShelfUnlinked
<1>4. ASSUME NEW i \in Ids, UnlinkFails(i) PROVE ShelfInv'
  <2>1. surplus' \subseteq Ids /\ faults' \in Nat /\ Unlinked(i, FALSE)
    BY <1>4, FaultCounts DEF UnlinkFails, ShelfInv, ShelfTypeOK
  <2> QED BY <2>1, ShelfUnlinked
<1>5. CASE UNCHANGED shelfVars
  BY <1>5
  DEF shelfVars, ShelfInv, ShelfTypeOK, Numbered, Receipted, OffTheIndex, ListedMeansThere
<1> QED
  BY <1>1, <1>2, <1>3, <1>4, <1>5, ShelfWrite, ShelfAppend, ShelfEndMerge, ShelfRewrite,
     ShelfFaults
  DEF ShelfNext

LEMMA ShelfAlways == ShelfSpec => []ShelfInv
BY ShelfStarts, ShelfStep, PTL DEF ShelfSpec

\* Every variable keeps its shape.
THEOREM TypeCorrect == ShelfSpec => []ShelfTypeOK
<1>1. ShelfInv => ShelfTypeOK
  BY DEF ShelfInv
<1> QED BY <1>1, ShelfAlways, PTL

\* The order of retention, index first and tarballs after it, keeps every
\* promise of the index through crashes at any point of it.
THEOREM ListedIsThere == ShelfSpec => []ListedMeansThere
<1>1. ShelfInv => ListedMeansThere
  BY DEF ShelfInv
<1> QED BY <1>1, ShelfAlways, PTL

\* No retention takes the snapshot that was just written, nor the target and
\* the safety net of the merge that runs it (the line and the tarball).
THEOREM RetentionSpares ==
  ShelfSpec => [][Rewrite => Listing \intersect io.exempt \subseteq Listing' \ io'.doomed]_shelfVars
<1>1. ShelfInv /\ [ShelfNext]_shelfVars =>
        [Rewrite => Listing \intersect io.exempt \subseteq Listing' \ io'.doomed]_shelfVars
  <2> SUFFICES ASSUME ShelfInv, Rewrite
               PROVE  Listing \intersect io.exempt \subseteq Listing' \ io'.doomed
    OBVIOUS
  <2>1. UNCHANGED tar /\ index \subseteq tar
    BY DEF Rewrite, ShelfInv, ListedMeansThere
  <2>2. Listing \subseteq Listing'
    BY <2>1 DEF Listing
  <2>3. io'.doomed \intersect Kept(io.exempt) = {}
    BY DEF Rewrite, FileOp, NoIO
  <2> QED BY <2>2, <2>3, KeptSpares
<1>2. ShelfSpec => [][ShelfNext]_shelfVars
  BY DEF ShelfSpec
<1> QED BY <1>1, <1>2, ShelfAlways, PTL

-----------------------------------------------------------------------------
(* The shelf is bounded, and what goes goes for a reason.                     *)
(*                                                                            *)
(* The number of a snapshot that still dumps is on no tarball and on no       *)
(* surplus, so that its tarball adds one to both.  During the unlinks of a    *)
(* retention the index is what it kept, and whatever else is on the shelf is  *)
(* about to go or is surplus.                                                 *)

Used == tar \union surplus \union io.doomed

Dumping(c) == caller[c].at = "dump" /\ ~(io.at = "append" /\ c \in io.by)

FreshNumbers ==
  /\ \A i \in Used : i <= lastId
  /\ \A c \in Callers : caller[c].at = "dump" => caller[c].id <= lastId
  /\ \A c \in Callers : Dumping(c) => caller[c].id \notin Used
  /\ \A c, d \in Callers : c # d /\ caller[c].at = "dump" /\ caller[d].at = "dump"
                             => caller[c].id # caller[d].id

FewExempt == io.at = "retain" => IsFiniteSet(io.exempt) /\ Cardinality(io.exempt) <= 2

HasReason(i) == \/ Cardinality(index) >= HardCap
                \/ Age(i) > RecentDays /\ \E j \in index : j > i /\ Bucket(j) = Bucket(i)

Unlinking ==
  io.at = "unlink" => /\ Cardinality(index) <= HardCap
                      /\ tar \ index \subseteq io.doomed \union surplus
                      /\ \A i \in io.doomed : HasReason(i)

BoundInv == ShelfInv /\ FreshNumbers /\ FewExempt /\ Unlinking /\ ShelfBounded

\* What is on the shelf, as far as counting goes.
LEMMA Counts ==
  ASSUME ShelfInv
  PROVE  /\ Listing = tar /\ tar \subseteq Ids
         /\ IsFiniteSet(tar) /\ Cardinality(tar) \in Nat
         /\ IsFiniteSet(index) /\ Cardinality(index) \in Nat
         /\ IsFiniteSet(surplus) /\ Cardinality(surplus) \in Nat
<1>1. tar \subseteq Ids /\ index \subseteq Ids /\ surplus \subseteq Ids /\ index \subseteq tar
  BY DEF ShelfInv, ShelfTypeOK, ListedMeansThere
<1>2. IsFiniteSet(tar) /\ IsFiniteSet(index) /\ IsFiniteSet(surplus)
  BY <1>1, OlderOrders
<1> QED
  BY <1>1, <1>2, FS_CardinalityType DEF Listing

LEMMA Pairs ==
  ASSUME NEW a, NEW b
  PROVE  /\ IsFiniteSet({a}) /\ Cardinality({a}) <= 2
         /\ IsFiniteSet({a, b}) /\ Cardinality({a, b}) <= 2
         /\ IsFiniteSet({}) /\ Cardinality({}) <= 2
<1>1. IsFiniteSet({a}) /\ Cardinality({a}) = 1 /\ IsFiniteSet({}) /\ Cardinality({}) = 0
  BY FS_Singleton, FS_EmptySet
<1>2. {a, b} = {a} \union {b}
  OBVIOUS
<1>3. IsFiniteSet({a} \union {b}) /\ Cardinality({a} \union {b}) \in {1, 2}
  BY <1>1, FS_AddElement
<1> QED
  BY <1>1, <1>2, <1>3

\* A step that leaves the shelf alone, and is not an unlink.
LEMMA ShelfUntouched ==
  ASSUME BoundInv, UNCHANGED <<tar, surplus>>, ShelfInv', io'.at # "unlink"
  PROVE  ShelfBounded' /\ Unlinking'
<1>1. Listing' = Listing
  BY DEF BoundInv, ShelfInv, ListedMeansThere, Listing
<1> QED
  BY <1>1 DEF BoundInv, ShelfBounded, Unlinking

LEMMA BoundBegin ==
  ASSUME BoundInv, NEW c \in Callers, NEW t \in Ids \union {0}, NEW g \in BOOLEAN, Begin(c, t, g)
  PROVE  BoundInv'
<1> DEFINE n == [at |-> "dump", id |-> lastId + 1, target |-> t, guard |-> g]
<1>1. /\ n.at = "dump" /\ n.id = lastId + 1 /\ caller' = [caller EXCEPT ![c] = n]
      /\ caller \in [Callers -> Calls] /\ lastId \in Nat /\ caller[c] = NoCall
      /\ UNCHANGED <<tar, index, surplus, io>> /\ io.at = "idle" /\ lastId' = lastId + 1
  BY Records, HeadsAreIds DEF Begin, BoundInv, ShelfInv, ShelfTypeOK
<1> HIDE DEF n
<1>2. ShelfInv'
  BY ShelfBegin DEF BoundInv
<1>3. /\ \A i \in Used : i \in Nat /\ i <= lastId
      /\ \A d \in Callers : caller[d].at = "dump" => caller[d].id \in Nat /\ caller[d].id <= lastId
  <2>1. Used \subseteq Ids
    BY DEF BoundInv, ShelfInv, ShelfTypeOK, IOs, Used
  <2> QED
    BY <2>1 DEF BoundInv, ShelfInv, FreshNumbers, Numbered, Ids
<1>4. Used' = Used
  BY <1>1 DEF Used
<1>5. \A d \in Callers : caller'[d] = IF d = c THEN n ELSE caller[d]
  BY <1>1
<1>6. FreshNumbers'
  <2>1. \A i \in Used : i <= lastId + 1 /\ i # lastId + 1
    BY <1>1, <1>3
  <2>2. \A d \in Callers : caller[d].at = "dump" => caller[d].id <= lastId + 1 /\ caller[d].id # lastId + 1
    BY <1>1, <1>3
  <2>3. \A d \in Callers : caller'[d].at = "dump" => caller'[d].id <= lastId'
    BY <1>1, <1>5, <2>2
  <2>4. \A d \in Callers : Dumping(d)' => caller'[d].id \notin Used'
    BY <1>1, <1>4, <1>5, <2>1 DEF Dumping, BoundInv, FreshNumbers
  <2>5. \A d, e \in Callers : d # e /\ caller'[d].at = "dump" /\ caller'[e].at = "dump"
                                 => caller'[d].id # caller'[e].id
    BY <1>1, <1>5, <2>2 DEF BoundInv, FreshNumbers
  <2>6. \A i \in Used' : i <= lastId'
    BY <1>1, <1>4, <2>1
  <2> QED
    BY <2>3, <2>4, <2>5, <2>6 DEF FreshNumbers
<1> QED
  BY <1>1, <1>2, <1>6, ShelfUntouched DEF BoundInv, FewExempt

\* A step after which fewer calls dump, and no number is newly used.
LEMMA FreshStays ==
  ASSUME FreshNumbers, lastId' = lastId, Used' \subseteq Used,
         \A c \in Callers : caller'[c].at = "dump" => /\ caller'[c] = caller[c]
                                                      /\ Dumping(c) \/ ~Dumping(c)'
  PROVE  FreshNumbers'
BY DEF FreshNumbers, Dumping

LEMMA BoundWrite ==
  ASSUME BoundInv, NEW c \in Callers, Write(c)
  PROVE  BoundInv'
<1> DEFINE id == caller[c].id
<1>1. /\ io' = FileOp("append", {c}, {}, {}) /\ io = NoIO /\ caller[c].at = "dump"
      /\ tar' = tar \union {id} /\ surplus' = surplus \union {id}
      /\ UNCHANGED <<caller, index, lastId>>
  BY DEF Write
<1>2. io'.at = "append" /\ io'.by = {c} /\ io'.doomed = {} /\ io.at = "idle" /\ io.doomed = {}
  BY <1>1 DEF FileOp, NoIO
<1>3. ShelfInv'
  BY ShelfWrite DEF BoundInv
<1>4. id \notin tar /\ id \notin surplus /\ Used' = Used \union {id} /\ id <= lastId
  BY <1>1, <1>2 DEF BoundInv, FreshNumbers, Dumping, Used
<1>5. FreshNumbers'
  BY <1>1, <1>2, <1>4 DEF BoundInv, FreshNumbers, Dumping
<1>6. /\ Cardinality(tar') = Cardinality(tar) + 1
      /\ Cardinality(surplus') = Cardinality(surplus) + 1
  BY <1>1, <1>4, Counts, FS_AddElement DEF BoundInv
<1>7. ShelfBounded'
  <2>1. Listing = tar /\ Listing' = tar'
    BY <1>3 DEF BoundInv, ShelfInv, ListedMeansThere, Listing
  <2>2. Cardinality(tar) \in Nat /\ Cardinality(surplus) \in Nat /\ HardCap \in Nat
    BY Counts, ShelfAssumption DEF BoundInv
  <2> QED
    BY <1>6, <2>1, <2>2 DEF BoundInv, ShelfBounded
<1> QED
  BY <1>2, <1>3, <1>5, <1>7 DEF BoundInv, FewExempt, Unlinking

LEMMA BoundAppend ==
  ASSUME BoundInv, NEW c \in Callers, Append(c)
  PROVE  BoundInv'
<1> DEFINE n == IF caller[c].target = 0 THEN NoCall ELSE [caller[c] EXCEPT !.at = "merge"]
<1>1. /\ caller' = [caller EXCEPT ![c] = n] /\ caller \in [Callers -> Calls]
      /\ UNCHANGED <<tar, lastId, surplus>>
      /\ io' \in {NoIO, FileOp("retain", {}, {caller[c].id}, {})}
      /\ io.at = "append" /\ io.by = {c}
  BY DEF Append, BoundInv, ShelfInv, ShelfTypeOK
<1>2. n.at # "dump"
  BY <1>1, Records DEF Calls
<1> HIDE DEF n
<1>3. io'.at # "unlink" /\ io'.at # "append" /\ io'.doomed = {} /\ FewExempt'
  <2> DEFINE e == {caller[c].id}
  <2>1. IsFiniteSet(e) /\ Cardinality(e) <= 2
    BY Pairs
  <2> HIDE DEF e
  <2>2. io' \in {NoIO, FileOp("retain", {}, e, {})}
    BY <1>1 DEF e
  <2> QED
    BY <1>1, <2>1, <2>2 DEF NoIO, FileOp, FewExempt
<1>4. ShelfInv'
  BY ShelfAppend DEF BoundInv
<1>5. FreshNumbers'
  <2>1. Used' \subseteq Used
    BY <1>1, <1>3 DEF Used
  <2>2. \A d \in Callers : caller'[d].at = "dump" => caller'[d] = caller[d] /\ d # c
    BY <1>1, <1>2
  <2> QED
    BY <1>1, <2>1, <2>2, FreshStays DEF BoundInv, Dumping
<1> QED
  BY <1>1, <1>3, <1>4, <1>5, ShelfUntouched DEF BoundInv

LEMMA BoundEndMerge ==
  ASSUME BoundInv, NEW c \in Callers, EndMerge(c)
  PROVE  BoundInv'
<1>1. /\ caller' = [caller EXCEPT ![c] = NoCall] /\ caller \in [Callers -> Calls]
      /\ UNCHANGED <<tar, lastId, surplus>> /\ io = NoIO
      /\ io' \in {NoIO, FileOp("retain", {}, {caller[c].id, caller[c].target}, {})}
  BY DEF EndMerge, BoundInv, ShelfInv, ShelfTypeOK
<1>2. io'.at # "unlink" /\ io'.at # "append" /\ io'.doomed = {} /\ io.at # "append" /\ FewExempt'
  <2> DEFINE e == {caller[c].id, caller[c].target}
  <2>1. IsFiniteSet(e) /\ Cardinality(e) <= 2
    BY Pairs
  <2> HIDE DEF e
  <2>2. io' \in {NoIO, FileOp("retain", {}, e, {})}
    BY <1>1 DEF e
  <2> QED
    BY <1>1, <2>1, <2>2 DEF NoIO, FileOp, FewExempt
<1>3. ShelfInv'
  BY ShelfEndMerge DEF BoundInv
<1>4. FreshNumbers'
  <2>1. Used' \subseteq Used
    BY <1>1, <1>2 DEF Used
  <2>2. \A d \in Callers : caller'[d].at = "dump" => caller'[d] = caller[d]
    BY <1>1, Records
  <2> QED
    BY <1>1, <1>2, <2>1, <2>2, FreshStays DEF BoundInv, Dumping
<1> QED
  BY <1>1, <1>2, <1>3, <1>4, ShelfUntouched DEF BoundInv

\* A retention that finds nothing to take leaves the shelf within its cap, and
\* one that finds something leaves an index within it.
LEMMA BoundRewrite ==
  ASSUME BoundInv, Rewrite
  PROVE  BoundInv'
<1> DEFINE kept == Kept(io.exempt)
<1>1. /\ UNCHANGED <<tar, lastId, caller, day, began>> /\ io.at = "retain"
      /\ Listing = tar /\ tar \subseteq Ids /\ kept \subseteq Listing
      /\ IsFiniteSet(io.exempt) /\ Cardinality(io.exempt) <= 2
  BY Counts, KeptIsListed DEF Rewrite, BoundInv, FewExempt
<1>2. ShelfInv'
  BY ShelfRewrite DEF BoundInv
<1>3. Cardinality(kept) \in 0 .. HardCap
  <2>1. NewestOfBucket(io.exempt) \subseteq Ids
    BY <1>1 DEF NewestOfBucket
  <2> QED
    BY <1>1, <2>1, CapIsMet DEF Kept
<1>4. surplus' = IF kept = Listing THEN {} ELSE surplus
  BY DEF Rewrite
<1>5. \/ kept = Listing /\ io' = NoIO
      \/ kept # Listing /\ index' = kept /\ io' = FileOp("unlink", {}, {}, Listing \ kept)
  BY DEF Rewrite
<1>6. \A i \in Listing \ kept :
        \/ Cardinality(kept) = HardCap
        \/ Age(i) > RecentDays /\ \E j \in kept : j > i /\ Bucket(j) = Bucket(i)
  <2> DEFINE e == io.exempt
  <2>1. IsFiniteSet(e) /\ Cardinality(e) <= 2 /\ Listing \subseteq Ids
    BY <1>1
  <2> HIDE DEF e
  <2>2. \A i \in Listing \ Kept(e) :
          \/ Cardinality(Kept(e)) = HardCap
          \/ Age(i) > RecentDays /\ \E j \in Kept(e) : j > i /\ Bucket(j) = Bucket(i)
    BY <2>1, GoesForAReason
  <2> QED
    BY <2>2 DEF e
<1> HIDE DEF kept
<1>7. io'.at \in {"idle", "unlink"} /\ io'.doomed \subseteq tar
  BY <1>1, <1>5 DEF NoIO, FileOp
<1>8. FreshNumbers'
  <2>1. Used' \subseteq Used
    BY <1>1, <1>4, <1>7 DEF Used
  <2> QED
    BY <1>1, <2>1, FreshStays DEF BoundInv, Dumping
<1>9. ShelfBounded'
  <2>1. Listing' = tar'
    BY <1>2 DEF ShelfInv, ListedMeansThere, Listing
  <2>2. CASE kept = Listing
    <3>1. surplus' = {} /\ Cardinality(surplus') = 0 /\ Cardinality(Listing') \in 0 .. HardCap
      BY <1>1, <1>3, <1>4, <2>1, <2>2, FS_EmptySet
    <3> QED
      BY <3>1, ShelfAssumption DEF ShelfBounded
  <2>3. CASE kept # Listing
    BY <1>1, <1>4, <2>1, <2>3 DEF BoundInv, ShelfBounded
  <2> QED
    BY <2>2, <2>3
<1>10. Unlinking'
  <2>1. CASE io' = NoIO
    BY <2>1 DEF NoIO, FileOp, Unlinking
  <2>2. CASE kept # Listing /\ index' = kept /\ io' = FileOp("unlink", {}, {}, Listing \ kept)
    <3>1. io'.doomed = Listing \ kept /\ Cardinality(index') = Cardinality(kept)
      BY <2>2 DEF FileOp
    <3>2. \A i : Age(i)' = Age(i) /\ Bucket(i)' = Bucket(i)
      BY <1>1 DEF Age, Bucket
    <3>3. ASSUME NEW i \in io'.doomed PROVE HasReason(i)'
      BY <1>3, <1>6, <2>2, <3>1, <3>2, ShelfAssumption DEF HasReason
    <3>4. tar' = Listing
      BY <1>1
    <3>5. tar' \ index' \subseteq io'.doomed
      BY <2>2, <3>1, <3>4
    <3>6. Cardinality(index') <= HardCap
      BY <1>3, <3>1, ShelfAssumption
    <3> QED
      BY <3>3, <3>5, <3>6 DEF Unlinking
  <2> QED
    BY <1>5, <2>1, <2>2
<1> QED
  BY <1>2, <1>7, <1>8, <1>9, <1>10 DEF BoundInv, FewExempt

\* What holds of both kinds of unlink.
LEMMA UnlinkedSteps ==
  ASSUME BoundInv, NEW i \in Ids, NEW off \in BOOLEAN, Unlinked(i, off), ShelfInv',
         surplus' \subseteq surplus \union {i},
         off \/ surplus' = surplus \union {i},
         io.doomed = {i} \/ surplus \subseteq surplus'
  PROVE  FreshNumbers' /\ FewExempt' /\ Unlinking'
<1>1. /\ UNCHANGED <<index, day, began, lastId, caller>>
      /\ tar' = IF off THEN tar \ {i} ELSE tar
      /\ io.at = "unlink" /\ i \in io.doomed
  BY DEF Unlinked
<1>2. io'.at \in {"idle", "unlink"} /\ io'.doomed = io.doomed \ {i}
  <2>1. CASE io.doomed = {i}
    BY <2>1 DEF Unlinked, NoIO, FileOp
  <2>2. CASE io.doomed # {i}
    BY <2>2 DEF Unlinked, BoundInv, ShelfInv, ShelfTypeOK, IOs
  <2> QED
    BY <2>1, <2>2
<1>3. FreshNumbers'
  <2>1. Used' \subseteq Used
    BY <1>1, <1>2 DEF Used
  <2> QED
    BY <1>1, <2>1, FreshStays DEF BoundInv, Dumping
<1>4. Unlinking'
  <2> SUFFICES ASSUME io'.at = "unlink" PROVE Unlinking'
    BY DEF Unlinking
  <2>1. io.doomed # {i}
    BY DEF Unlinked, NoIO, FileOp
  <2>2. \A j : HasReason(j) => HasReason(j)'
    <3>1. \A j : Age(j)' = Age(j) /\ Bucket(j)' = Bucket(j)
      BY <1>1 DEF Age, Bucket
    <3> QED
      BY <1>1, <3>1 DEF HasReason
  <2>3. tar' \ index' \subseteq io'.doomed \union surplus'
    BY <1>1, <1>2, <2>1 DEF BoundInv, Unlinking
  <2> QED
    BY <1>1, <1>2, <2>2, <2>3 DEF BoundInv, Unlinking
<1> QED
  BY <1>2, <1>3, <1>4 DEF FewExempt

\* The last unlink of a retention forgets the surplus that came before it: what
\* is left on the shelf is the index, and what outlived its unlink.
LEMMA BoundUnlink ==
  ASSUME BoundInv, NEW i \in Ids, Unlink(i)
  PROVE  BoundInv'
<1>1. /\ Unlinked(i, TRUE) /\ tar' = tar \ {i} /\ index' = index /\ io.at = "unlink"
      /\ surplus' = IF io.doomed = {i} THEN surplus \ index ELSE surplus
  BY DEF Unlink, Unlinked
<1>2. ShelfInv'
  <2>1. surplus' \subseteq Ids /\ faults' \in Nat
    BY DEF Unlink, BoundInv, ShelfInv, ShelfTypeOK
  <2> QED
    BY <1>1, <2>1, ShelfUnlinked DEF BoundInv
<1>3. /\ IsFiniteSet(tar) /\ IsFiniteSet(index) /\ IsFiniteSet(surplus)
      /\ Cardinality(index) \in Nat
  BY Counts DEF BoundInv
<1>4. Listing' = tar' /\ Listing = tar
  BY <1>2 DEF BoundInv, ShelfInv, ListedMeansThere, Listing
<1>5. ShelfBounded'
  <2>1. CASE io.doomed = {i}
    <3> DEFINE left == surplus \ index
    <3>1. tar' \subseteq index \union left
      BY <1>1, <2>1 DEF BoundInv, Unlinking
    <3>2. IsFiniteSet(left) /\ surplus' = left
      BY <1>1, <1>3, <2>1, FS_Difference
    <3>3. index \intersect left = {}
      OBVIOUS
    <3> HIDE DEF left
    <3>4. /\ IsFiniteSet(index \union left) /\ Cardinality(left) \in Nat
          /\ Cardinality(index \union left) = Cardinality(index) + Cardinality(left) - Cardinality(index \intersect left)
      BY <1>3, <3>2, FS_Union, FS_CardinalityType
    <3>5. Cardinality(index \intersect left) = 0
      BY <3>3, FS_EmptySet
    <3>6. Cardinality(tar') <= Cardinality(index \union left) /\ IsFiniteSet(tar')
      BY <3>1, <3>4, FS_Subset
    <3>7. Cardinality(index) <= HardCap /\ HardCap \in Nat /\ Cardinality(tar') \in Nat
      BY <1>1, <3>6, ShelfAssumption, FS_CardinalityType DEF BoundInv, Unlinking
    <3> QED
      BY <1>3, <1>4, <3>2, <3>4, <3>5, <3>6, <3>7 DEF ShelfBounded
  <2>2. CASE io.doomed # {i}
    <3>1. tar' \subseteq tar /\ surplus' = surplus
      BY <1>1, <2>2
    <3>2. Cardinality(tar') <= Cardinality(tar) /\ IsFiniteSet(tar')
      BY <1>3, <3>1, FS_Subset
    <3>3. /\ Cardinality(tar) \in Nat /\ Cardinality(tar') \in Nat
          /\ Cardinality(surplus) \in Nat /\ HardCap \in Nat
      BY <1>3, <3>2, ShelfAssumption, FS_CardinalityType
    <3> QED
      BY <1>4, <3>1, <3>2, <3>3 DEF BoundInv, ShelfBounded
  <2> QED
    BY <2>1, <2>2
<1>6. FreshNumbers' /\ FewExempt' /\ Unlinking'
  BY <1>1, <1>2, UnlinkedSteps
<1> QED
  BY <1>2, <1>5, <1>6 DEF BoundInv

LEMMA BoundUnlinkFails ==
  ASSUME BoundInv, NEW i \in Ids, UnlinkFails(i)
  PROVE  BoundInv'
<1>1. /\ Unlinked(i, FALSE) /\ surplus' = surplus \union {i}
      /\ tar' = tar /\ index' = index
  BY DEF UnlinkFails, Unlinked
<1>2. ShelfInv'
  <2>1. surplus' \subseteq Ids /\ faults' \in Nat
    BY FaultCounts DEF UnlinkFails, BoundInv, ShelfInv, ShelfTypeOK
  <2> QED
    BY <1>1, <2>1, ShelfUnlinked DEF BoundInv
<1>3. ShelfBounded'
  <2>1. Listing' = Listing
    BY <1>1 DEF Listing
  <2>2. /\ Cardinality(surplus) \in Nat /\ Cardinality(tar) \in Nat /\ Listing = tar
        /\ Cardinality(surplus') \in {Cardinality(surplus), Cardinality(surplus) + 1}
    BY <1>1, Counts, FS_AddElement DEF BoundInv
  <2> QED
    BY <2>1, <2>2, ShelfAssumption DEF BoundInv, ShelfBounded
<1>4. FreshNumbers' /\ FewExempt' /\ Unlinking'
  BY <1>1, <1>2, UnlinkedSteps
<1> QED
  BY <1>2, <1>3, <1>4 DEF BoundInv

LEMMA BoundFaults ==
  ASSUME BoundInv,
         \/ \E c \in Callers : CallFails(c)
         \/ RetentionFails \/ Crash \/ NextDay
  PROVE  BoundInv'
<1>1. UNCHANGED <<tar, index, lastId, surplus>> /\ io' = NoIO
  BY DEF CallFails, RetentionFails, Crash, NextDay
<1>2. ShelfInv'
  BY ShelfFaults DEF BoundInv
<1>3. \A c \in Callers : caller'[c] = caller[c] \/ caller'[c] = NoCall
  BY DEF CallFails, RetentionFails, Crash, NextDay, BoundInv, ShelfInv, ShelfTypeOK
<1>4. io'.at = "idle" /\ io'.doomed = {}
  BY <1>1 DEF NoIO, FileOp
<1>5. FreshNumbers'
  <2>1. Used' \subseteq Used
    BY <1>1, <1>4 DEF Used
  <2>2. \A c \in Callers : caller'[c].at = "dump" => caller'[c] = caller[c]
    BY <1>3, Records
  <2>3. Crash => \A c \in Callers : caller'[c].at # "dump"
    BY Records DEF Crash
  <2>4. ~Crash => io.at # "append"
    BY DEF CallFails, RetentionFails, NextDay, NoIO, FileOp
  <2> QED
    BY <1>1, <2>1, <2>2, <2>3, <2>4, FreshStays DEF BoundInv, Dumping
<1> QED
  BY <1>1, <1>2, <1>4, <1>5, ShelfUntouched DEF BoundInv, FewExempt

LEMMA BoundStep == BoundInv /\ [ShelfNext]_shelfVars => BoundInv'
<1> SUFFICES ASSUME BoundInv, [ShelfNext]_shelfVars PROVE BoundInv'
  OBVIOUS
<1>1. ASSUME NEW c \in Callers, NEW g \in BOOLEAN, Snapshot(c, g) PROVE BoundInv'
  BY <1>1, BoundBegin DEF Snapshot
<1>2. ASSUME NEW c \in Callers, NEW t \in Ids, Rollback(c, t) PROVE BoundInv'
  BY <1>2, BoundBegin DEF Rollback
<1>3. CASE UNCHANGED shelfVars
  <2>1. ShelfInv'
    BY <1>3, ShelfStep DEF BoundInv
  <2> QED
    BY <1>3, <2>1
    DEF shelfVars, BoundInv, FreshNumbers, Used, Dumping, FewExempt, Unlinking, HasReason,
        Age, Bucket, ShelfBounded, Listing
<1> QED
  BY <1>1, <1>2, <1>3, BoundWrite, BoundAppend, BoundEndMerge, BoundRewrite, BoundUnlink,
     BoundUnlinkFails, BoundFaults
  DEF ShelfNext

LEMMA BoundAlways == ShelfSpec => []BoundInv
<1>1. ShelfInit => BoundInv
  <2> SUFFICES ASSUME ShelfInit PROVE BoundInv
    OBVIOUS
  <2>1. ShelfInv
    BY ShelfStarts
  <2>2. io.at = "idle" /\ Used = {} /\ Listing = {}
    BY DEF ShelfInit, NoIO, FileOp, Used, Listing
  <2>3. \A c \in Callers : caller[c].at # "dump"
    BY Records DEF ShelfInit
  <2>4. Cardinality(Listing) = 0 /\ Cardinality(surplus) = 0
    BY <2>2, FS_EmptySet DEF ShelfInit
  <2> QED
    BY <2>1, <2>2, <2>3, <2>4, ShelfAssumption
    DEF BoundInv, FreshNumbers, Dumping, FewExempt, Unlinking, ShelfBounded
<1> QED
  BY <1>1, BoundStep, PTL DEF ShelfSpec

\* The shelf does not grow without limit: retentions that crash, unlinks that
\* fail and snapshots that are spared are paid back by the next retention.
THEOREM ShelfStaysBounded == ShelfSpec => []ShelfBounded
<1>1. BoundInv => ShelfBounded
  BY DEF BoundInv
<1> QED BY <1>1, BoundAlways, PTL

\* Nothing is taken off the shelf but for the cap, or from a bucket that keeps
\* a newer one, through any number of crashes in the middle of a retention.
THEOREM ReapsForAReason == ShelfSpec => ReapedForAReason
<1> DEFINE Reason(i) == \/ /\ Age(i) > RecentDays
                           /\ \E j \in tar' : j > i /\ Bucket(j) = Bucket(i)
                        \/ Cardinality(index') >= HardCap
<1>1. BoundInv /\ [ShelfNext]_shelfVars => [\A i \in tar \ tar' : Reason(i)]_shelfVars
  <2> SUFFICES ASSUME BoundInv, ShelfNext, NEW i \in tar \ tar' PROVE Reason(i)
    OBVIOUS
  <2>1. Unlink(i)
    BY DEF ShelfNext, Snapshot, Rollback, Begin, Write, Append, EndMerge, CallFails, Rewrite,
           Unlink, UnlinkFails, Unlinked, RetentionFails, Crash, NextDay
  <2>2. /\ io.at = "unlink" /\ i \in io.doomed /\ index' = index /\ tar' = tar \ {i}
    BY <2>1 DEF Unlink, Unlinked
  <2>3. HasReason(i)
    BY <2>2 DEF BoundInv, Unlinking
  <2>4. index \subseteq tar'
    BY <2>2 DEF BoundInv, ShelfInv, ListedMeansThere, OffTheIndex
  <2> QED
    BY <2>2, <2>3, <2>4 DEF HasReason
<1>2. ShelfSpec => [][ShelfNext]_shelfVars
  BY DEF ShelfSpec
<1> QED BY <1>1, <1>2, BoundAlways, PTL DEF ReapedForAReason

-----------------------------------------------------------------------------
(* Scents.  A row is sound or marked, wherever it is kept: in the table, in   *)
(* the transaction of a migration that may be undone, and in the snapshot.    *)

SoundOrMarked(r, mark) == Sound(r) \/ mark = TRUE

SnapShape(s) ==
  /\ s.row \in Memories /\ s.column \in Noses \union {None} /\ s.nose \in Noses
  /\ s.stale \in BOOLEAN

ScentShape ==
  /\ ScentTypeOK /\ now \in Nat
  /\ txn = NoTxn \/ (txn.nose \in Noses /\ txn.new \in Noses)
  /\ \A s \in snap : SnapShape(s)
  /\ \A m \in merge : SnapShape(m.snap)

ScentInv ==
  /\ ScentShape
  /\ SoundOrMarked(row, stale)
  /\ SoundOrMarked(txn.row, txn.stale)
  /\ \A s \in snap : SoundOrMarked(s.row, s.stale)

LEMMA TimesAreNat == Times \subseteq Nat
BY CapturesAssumption DEF Times

LEMMA NothingIsSound ==
  /\ NoMemory \in Memories /\ Sound(NoMemory)
  /\ NoTxn \in Txns /\ NoTxn.row = NoMemory
  /\ NoJob \in Jobs
BY DEF NoMemory, Memories, Sound, NoTxn, Txns, NoJob, Jobs, None

\* A row that was written is sound, or marked since it was before or since the
\* writing is a risk.
LEMMA MarkedIsEnough ==
  ASSUME NEW r, NEW risk \in BOOLEAN, stale \in BOOLEAN, stale' = Marked(r, risk),
         row' = r, ~stale /\ ~risk => Sound(r)
  PROVE  SoundOrMarked(row, stale)' /\ stale' \in BOOLEAN
<1>1. CASE Sound(r)
  BY <1>1 DEF Marked, SoundOrMarked, Sound
<1>2. CASE ~Sound(r)
  <2>1. stale' = TRUE
    BY <1>2 DEF Marked
  <2> QED BY <2>1 DEF SoundOrMarked
<1> QED BY <1>1, <1>2

\* A step of the memory that leaves its transaction and the snapshot alone.
LEMMA RowWritten ==
  ASSUME ScentInv, NEW r \in Memories, NEW risk \in BOOLEAN, row' = r, stale' = Marked(r, risk),
         ~stale /\ ~risk => Sound(r),
         UNCHANGED <<column, nose, job, txn, now, snap, merge>>
  PROVE  ScentInv'
<1>1. SoundOrMarked(row, stale)' /\ stale' \in BOOLEAN
  BY MarkedIsEnough DEF ScentInv, ScentShape, ScentTypeOK
<1> QED BY <1>1 DEF ScentInv, ScentShape, ScentTypeOK, SnapShape

LEMMA KeyholderKeepsScent ==
  ASSUME ScentInv, Memory
  PROVE  ScentInv'
<1> USE DEF ScentInv, ScentShape, ScentTypeOK
<1>1. stale \in BOOLEAN /\ row \in Memories /\ UNCHANGED <<now, snap, merge>> /\ now \in Nat
  BY DEF Memory, captureVars
<1>2. ASSUME NEW c \in Contents, SetMemory(c, now) PROVE ScentInv'
  <2>1. Saved(row, c, now) \in Memories
    BY <1>1 DEF Saved, KeptScent, Memories
  <2>2. ~stale => Sound(Saved(row, c, now))
    BY <1>1 DEF Saved, KeptScent, Sound, SoundOrMarked
  <2> QED BY ONLY <1>1, <1>2, <2>1, <2>2, ScentInv, RowWritten DEF SetMemory
<1>3. ASSUME NEW c \in Contents, NEW at \in Times, ImportMerged(c, at) PROVE ScentInv'
  <2>1. MergeWritten(c, at) \in Memories /\ Sound(MergeWritten(c, at))
    BY TimesAreNat DEF MergeWritten, Memories, Sound
  <2> QED BY ONLY <1>1, <1>3, <2>1, ScentInv, RowWritten DEF ImportMerged
<1>4. ASSUME NEW c \in Contents, NEW at \in Times, NEW overwrite \in BOOLEAN,
             ImportOneShot(c, at, overwrite)
      PROVE ScentInv'
  <2> DEFINE r == [st |-> "live", content |-> c, hash |-> c, scent |-> row.scent, at |-> at]
  <2>1. r \in Memories
    BY <1>1, TimesAreNat DEF Memories
  <2>2. ~stale /\ ~(c # row.content) => Sound(r)
    BY <1>1 DEF Sound, SoundOrMarked
  <2>3. row' = r /\ stale' = Marked(r, c # row.content) /\ UNCHANGED <<column, nose, job, txn>>
    BY <1>4 DEF ImportOneShot
  <2> HIDE DEF r
  <2> QED BY ONLY <1>1, <2>1, <2>2, <2>3, ScentInv, RowWritten
<1>5. ASSUME DeleteMemory PROVE ScentInv'
  <2>1. /\ row' \in Memories
        /\ row'.hash = row.hash /\ row'.content = row.content /\ row'.scent = row.scent
    BY <1>1, <1>5 DEF DeleteMemory, Memories
  <2>2. SoundOrMarked(row, stale)'
    BY <1>5, <2>1 DEF DeleteMemory, Sound, SoundOrMarked
  <2> QED BY <1>1, <1>5, <2>1, <2>2 DEF DeleteMemory, SnapShape
<1>6. ASSUME NEW new \in Noses, BeginMigration(new) PROVE ScentInv'
  <2>1. /\ txn' \in Txns /\ txn'.row = row /\ txn'.stale = stale
        /\ txn'.nose \in Noses /\ txn'.new \in Noses
    BY <1>6, <1>1 DEF BeginMigration, Txns
  <2> QED BY <1>1, <1>6, <2>1 DEF BeginMigration, SnapShape
<1>7. ASSUME MigrationFails PROVE ScentInv'
  <2>1. /\ txn.row \in Memories /\ txn.stale \in BOOLEAN
        /\ txn.column \in Noses \union {None}
    BY DEF Txns
  <2> QED BY <1>1, <1>7, <2>1, NothingIsSound DEF MigrationFails, Undone, SnapShape, SoundOrMarked
<1> QED BY <1>2, <1>3, <1>4, <1>5, <1>6, <1>7 DEF Memory

LEMMA EmbedKeepsScent ==
  ASSUME ScentInv, Embed
  PROVE  ScentInv'
<1> USE DEF ScentInv, ScentShape, ScentTypeOK
<1>1. stale \in BOOLEAN /\ row \in Memories /\ UNCHANGED <<now, snap, merge>>
  BY DEF Embed, captureVars
<1>2. ASSUME TakeJob PROVE ScentInv'
  <2>1. job' \in Jobs
    BY <1>1, <1>2 DEF TakeJob, Jobs, Memories
  <2> QED BY <1>1, <1>2, <2>1 DEF TakeJob, SnapShape
<1>3. ASSUME PutJob PROVE ScentInv'
  <2> DEFINE embedded == [row EXCEPT !.scent = job.content]
  <2>1. /\ embedded \in Memories
        /\ embedded.content = row.content /\ embedded.hash = row.hash
        /\ embedded.scent = job.content
    BY <1>1 DEF Memories, Jobs
  <2>2. ~stale /\ ~(job.content # row.content) => Sound(embedded)
    BY <2>1, <1>1 DEF Sound, SoundOrMarked
  <2>3. CASE row' = embedded /\ stale' = Marked(embedded, job.content # row.content)
    <3>1. SoundOrMarked(row, stale)' /\ stale' \in BOOLEAN
      <4> HIDE DEF embedded
      <4> QED BY ONLY <1>1, <2>2, <2>3, MarkedIsEnough
    <3> QED BY <1>1, <1>3, <2>1, <2>3, <3>1, NothingIsSound DEF PutJob, SnapShape
  <2>4. CASE UNCHANGED <<row, stale>>
    BY <1>1, <1>3, <2>4, NothingIsSound DEF PutJob, SnapShape
  <2> QED BY <1>3, <2>3, <2>4 DEF PutJob
<1> QED BY <1>2, <1>3 DEF Embed

LEMMA MigrateKeepsScent ==
  ASSUME ScentInv, Migrate
  PROVE  ScentInv'
<1> USE DEF ScentInv, ScentShape, ScentTypeOK
<1>1. stale \in BOOLEAN /\ row \in Memories /\ UNCHANGED <<now, snap, merge>>
  BY DEF Migrate, captureVars
<1>2. ASSUME NEW at \in {"dropped", "added", "noted"}, txn # NoTxn,
             txn' = [txn EXCEPT !.at = at]
      PROVE  /\ txn' \in Txns /\ txn'.row = txn.row /\ txn'.stale = txn.stale
             /\ txn'.nose \in Noses /\ txn'.new \in Noses
  BY <1>2 DEF Txns
<1>3. NoTxn.at = "none"
  BY DEF NoTxn
<1>4. ASSUME DropColumn PROVE ScentInv'
  <2>1. txn # NoTxn /\ txn' = [txn EXCEPT !.at = "dropped"]
    BY <1>3, <1>4 DEF DropColumn
  <2>2. /\ [row EXCEPT !.scent = None] \in Memories
        /\ ~stale => Sound([row EXCEPT !.scent = None])
    BY <1>1 DEF Memories, Sound, SoundOrMarked, None
  <2>3. row' = [row EXCEPT !.scent = None] /\ stale' = Marked(row', FALSE)
    BY <1>4 DEF DropColumn
  <2>4. SoundOrMarked(row, stale)' /\ stale' \in BOOLEAN
    BY ONLY <1>1, <2>2, <2>3, MarkedIsEnough
  <2> QED BY <1>1, <1>2, <1>4, <2>1, <2>2, <2>3, <2>4 DEF DropColumn, SnapShape
<1>5. ASSUME AddColumn \/ NoteNose PROVE ScentInv'
  <2>1. txn # NoTxn
    BY <1>3, <1>5 DEF AddColumn, NoteNose
  <2>2. txn' = [txn EXCEPT !.at = "added"] \/ txn' = [txn EXCEPT !.at = "noted"]
    BY <1>5 DEF AddColumn, NoteNose
  <2> QED BY <1>1, <1>2, <1>5, <2>1, <2>2 DEF AddColumn, NoteNose, SnapShape
<1>6. ASSUME Commit PROVE ScentInv'
  BY <1>1, <1>6, NothingIsSound DEF Commit, SnapShape, SoundOrMarked
<1> QED BY <1>4, <1>5, <1>6 DEF Migrate, MigrationStep

\* A step that leaves the memory and its snapshots alone.
LEMMA ScentUntouched ==
  ASSUME ScentInv, now' \in Nat, UNCHANGED <<scentVars, snap>>,
         UNCHANGED merge \/ merge' = {}
  PROVE  ScentInv'
BY DEF ScentInv, ScentShape, ScentTypeOK, SnapShape, scentVars

LEMMA SnapshotKeepsScent ==
  ASSUME ScentInv, TakeSnapshot \/ BeginMerge \/ Replace
  PROVE  ScentInv'
<1> USE DEF ScentInv, ScentShape, ScentTypeOK, SnapShape
<1>1. ASSUME TakeSnapshot PROVE ScentInv'
  BY <1>1 DEF TakeSnapshot, captureVars, scentVars
<1>2. ASSUME BeginMerge PROVE ScentInv'
  BY <1>2 DEF BeginMerge, captureVars, scentVars
<1>3. ASSUME Replace PROVE ScentInv'
  BY <1>3 DEF Replace
<1> QED BY <1>1, <1>2, <1>3

LEMMA MergeKeepsScent ==
  ASSUME ScentInv, CommitMerge
  PROVE  ScentInv'
<1> USE DEF ScentInv, ScentShape, ScentTypeOK, SnapShape
<1>1. PICK m \in merge :
        \/ /\ SnapshotWins(m)
           /\ row' = Restored(m) /\ stale' = Marked(row', TRUE)
        \/ UNCHANGED <<row, stale>>
  BY DEF CommitMerge
<1>2. UNCHANGED <<now, column, nose, job, txn, snap>> /\ merge' = {}
  BY DEF CommitMerge
<1>3. CASE row' = Restored(m) /\ stale' = Marked(row', TRUE)
  <2>1. Restored(m) \in Memories
    BY DEF Restored, Carried, Memories
  <2>2. SoundOrMarked(row, stale)' /\ stale' \in BOOLEAN
    BY ONLY <1>3, MarkedIsEnough, ScentInv
  <2> QED BY <1>2, <1>3, <2>1, <2>2
<1> QED BY <1>1, <1>2, <1>3

LEMMA ScentStep == ScentInv /\ [Next]_vars => ScentInv'
<1> SUFFICES ASSUME ScentInv, [Next]_vars PROVE ScentInv'
  OBVIOUS
<1>1. now \in Nat
  BY DEF ScentInv, ScentShape
<1>2. CASE Capture \/ CaptureStep \/ MergeFails \/ Pass \/ UNCHANGED vars
  <2>1. now' \in Nat
    <3>1. Capture => UNCHANGED now
      BY DEF Capture, Offer, DeleteCaptures, PrunerKilled
    <3>2. CaptureStep => UNCHANGED now
      BY DEF CaptureStep, Store, MarkPruned
    <3>3. MergeFails \/ UNCHANGED vars => UNCHANGED now
      BY DEF MergeFails, vars, captureVars
    <3>4. Pass => now' = now + 1
      BY DEF Pass
    <3> QED BY <1>1, <1>2, <3>1, <3>2, <3>3, <3>4
  <2>2. UNCHANGED <<scentVars, snap>> /\ (UNCHANGED merge \/ merge' = {})
    BY <1>2 DEF Capture, CaptureStep, MergeFails, Pass, vars
  <2> QED BY <2>1, <2>2, ScentUntouched
<1> QED BY <1>2, KeyholderKeepsScent, EmbedKeepsScent, MigrateKeepsScent, SnapshotKeepsScent,
           MergeKeepsScent DEF Next

LEMMA ScentStart == Init => ScentInv
<1> SUFFICES ASSUME Init PROVE ScentInv
  OBVIOUS
<1>1. /\ row = NoMemory /\ job = NoJob /\ txn = NoTxn /\ stale = FALSE /\ now = 1
      /\ column \in Noses /\ nose = column /\ snap = {} /\ merge = {}
  BY DEF Init, CapturesInit, ScentInit
<1> QED BY <1>1, NothingIsSound DEF ScentInv, ScentShape, ScentTypeOK, SoundOrMarked

LEMMA ScentAlways == Spec => []ScentInv
BY ScentStart, ScentStep, PTL DEF Spec

\* A live memory has no vector of another text, but on the ways that are marked:
\* through edits and edits back, embedders that are late, migrations undone
\* under others' saves, merges and replaces.
THEOREM FoundByWhatItSays == Spec => []ScentIsCurrent
<1>1. ScentInv => ScentIsCurrent
  BY DEF ScentInv, ScentIsCurrent, SoundOrMarked, Sound
<1> QED BY <1>1, ScentAlways, PTL

-----------------------------------------------------------------------------
(* Prunes.  What is gone lies under the watermark or is in no snapshot that   *)
(* could bring it back; a replace moves the watermark back, and with it what  *)
(* counts as gone.                                                            *)

EventsOnly(rows) == \A r \in rows : r.event \in Events

Shelved(s) == EventsOnly(s.stream) /\ s.watermark \in Nat

CaptureShape ==
  /\ EventsOnly(stream) /\ gone \subseteq Events
  /\ feeder \in [Feeders -> SUBSET Events]
  /\ pruner \in [until: Nat, pruned: SUBSET Events]
  /\ watermark \in Nat
  /\ \A s \in snap : Shelved(s)
  /\ \A m \in merge : EventsOnly(m.snap.stream)

\* No forward-merge that reads the mark now takes e from these rows.
KeptOut(e, rows) == e.ts <= watermark \/ e \notin HashesOf(rows)

PruneInv ==
  /\ CaptureShape
  /\ PrunedStaysPruned
  /\ \A e \in pruner.pruned : e.ts <= pruner.until
  /\ \A e \in gone, s \in snap : KeptOut(e, s.stream)
  /\ \A e \in gone, m \in merge : KeptOut(e, m.snap.stream)
  /\ \A s, t \in snap : s = t

LEMMA EventStamps == \A e \in Events : e.ts \in Nat
BY TimesAreNat DEF Events

\* What a merge inserts are the captures that are missing.
LEMMA InsertedHashes ==
  ASSUME NEW rows, NEW mark
  PROVE  /\ HashesOf(Inserted(rows, mark)) = Missing(rows, mark)
         /\ EventsOnly(rows) => EventsOnly(Inserted(rows, mark))
<1> DEFINE missing == Missing(rows, mark)
           Id(e) == lastCapture + 1 + Cardinality({f \in missing : ReadBefore(rows, f, e)})
<1>1. Inserted(rows, mark) = {Captured(Id(e), e) : e \in missing}
  BY DEF Inserted
<1>2. EventsOnly(rows) => missing \subseteq Events
  BY DEF Missing, EventsOnly, HashesOf
<1>3. \A n, e : Captured(n, e).event = e
  BY DEF Captured
<1> HIDE DEF Id, missing
<1>4. HashesOf(Inserted(rows, mark)) = missing
  BY <1>1, <1>3 DEF HashesOf
<1>5. \A r \in Inserted(rows, mark) : r.event \in missing
  BY <1>1, <1>3
<1> QED BY <1>2, <1>4, <1>5 DEF EventsOnly, missing

LEMMA HashesOfUnion == \A r, t : HashesOf(r \union t) = HashesOf(r) \union HashesOf(t)
BY DEF HashesOf

LEMMA HashesOfNew ==
  ASSUME NEW fed, NEW id
  PROVE  HashesOf({Captured(id, e) : e \in fed}) = fed
<1>1. \A e : Captured(id, e).event = e
  BY DEF Captured
<1> QED BY <1>1 DEF HashesOf

LEMMA OfferKeeps ==
  ASSUME PruneInv, UNCHANGED <<snap, merge>>,
         NEW p \in Feeders, NEW src \in Sources, NEW ts \in Times, NEW data \in Payloads,
         NEW dup, Offer(p, src, ts, data, dup)
  PROVE  PruneInv'
<1>1. Event(src, ts, data) \in Events
  BY DEF Event, Events
<1>2. feeder' \in [Feeders -> SUBSET Events]
  BY <1>1 DEF Offer, PruneInv, CaptureShape
<1> QED BY <1>2 DEF Offer, PruneInv, CaptureShape, Shelved, PrunedStaysPruned, KeptOut

LEMMA StoreKeeps ==
  ASSUME PruneInv, UNCHANGED <<snap, merge>>, NEW p \in Feeders, Store(p)
  PROVE  PruneInv'
<1> USE DEF PruneInv, CaptureShape
<1> DEFINE new == {Captured(lastCapture + 1, e) : e \in feeder[p]}
<1>1. feeder[p] \subseteq Events /\ HashesOf(new) = feeder[p] /\ EventsOnly(new)
  <2>1. \A n, e : Captured(n, e).event = e
    BY DEF Captured
  <2>2. feeder[p] \subseteq Events
    OBVIOUS
  <2>3. HashesOf(new) = feeder[p]
    BY HashesOfNew
  <2> QED BY <2>1, <2>2, <2>3 DEF EventsOnly
<1>2. /\ stream' = stream \union new /\ gone' = gone \ feeder[p]
      /\ feeder' \in [Feeders -> SUBSET Events]
      /\ UNCHANGED <<pruner, watermark, snap, merge>>
  BY DEF Store
<1>3. HashesOf(stream') = HashesOf(stream) \union feeder[p]
  BY <1>1, <1>2, HashesOfUnion
<1>4. EventsOnly(stream') /\ gone' \subseteq Events /\ PrunedStaysPruned'
  BY <1>1, <1>2, <1>3 DEF EventsOnly, PrunedStaysPruned
<1> QED BY <1>2, <1>4 DEF Shelved, KeptOut

LEMMA DeleteKeeps ==
  ASSUME PruneInv, UNCHANGED <<snap, merge>>,
         NEW until \in Times, NEW srcs, DeleteCaptures(until, srcs)
  PROVE  PruneInv'
<1> USE DEF PruneInv, CaptureShape
<1> DEFINE hit == {r \in stream : r.event.ts <= until /\ r.event.src \in srcs}
<1>1. /\ stream' = stream \ hit
      /\ \/ pruner' = [until |-> until, pruned |-> HashesOf(hit)]
         \/ pruner' = NoPrune
      /\ UNCHANGED <<gone, feeder, watermark, snap, merge>>
  BY DEF DeleteCaptures
<1>2. HashesOf(hit) \subseteq Events /\ \A e \in HashesOf(hit) : e.ts <= until
  BY DEF HashesOf, EventsOnly
<1>3. /\ pruner' \in [until: Nat, pruned: SUBSET Events]
      /\ \A e \in pruner'.pruned : e.ts <= pruner'.until
  BY <1>1, <1>2, TimesAreNat DEF NoPrune
<1>4. HashesOf(stream') \subseteq HashesOf(stream) /\ EventsOnly(stream')
  BY <1>1 DEF HashesOf, EventsOnly
<1> QED BY <1>1, <1>3, <1>4 DEF PrunedStaysPruned, Shelved, KeptOut

LEMMA MarkKeeps ==
  ASSUME PruneInv, UNCHANGED <<snap, merge>>, MarkPruned
  PROVE  PruneInv'
<1> USE DEF PruneInv, CaptureShape
<1>1. /\ watermark' \in Nat /\ watermark' >= watermark /\ watermark' >= pruner.until
      /\ gone' = gone \union (pruner.pruned \ HashesOf(stream))
      /\ pruner' = NoPrune
      /\ UNCHANGED <<stream, feeder, snap, merge>>
  BY DEF MarkPruned, Raised
<1>2. \A e \in gone' : e.ts \in Nat /\ (e.ts <= watermark' \/ (e \in gone /\ e.ts > watermark))
  <2> SUFFICES ASSUME NEW e \in gone'
               PROVE  e.ts \in Nat /\ (e.ts <= watermark' \/ (e \in gone /\ e.ts > watermark))
    OBVIOUS
  <2>1. pruner.until \in Nat /\ pruner.pruned \subseteq Events
    OBVIOUS
  <2>2. e.ts \in Nat
    BY <1>1, <2>1, EventStamps
  <2>3. CASE e \in gone
    BY <1>1, <2>2, <2>3
  <2>4. CASE e \in pruner.pruned
    BY <1>1, <2>1, <2>2, <2>4
  <2> QED BY <1>1, <2>2, <2>3, <2>4
<1>3. /\ \A e \in gone', s \in snap' : KeptOut(e, s.stream)'
      /\ \A e \in gone', m \in merge' : KeptOut(e, m.snap.stream)'
  BY <1>1, <1>2, EventStamps DEF KeptOut
<1>4. pruner' \in [until: Nat, pruned: SUBSET Events] /\ pruner'.pruned = {}
  BY <1>1 DEF NoPrune
<1> QED BY <1>1, <1>3, <1>4 DEF PrunedStaysPruned, Shelved

LEMMA KilledKeeps ==
  ASSUME PruneInv, UNCHANGED <<snap, merge>>, PrunerKilled
  PROVE  PruneInv'
<1>1. NoPrune \in [until: Nat, pruned: SUBSET Events] /\ NoPrune.pruned = {}
  BY DEF NoPrune
<1> QED BY <1>1 DEF PrunerKilled, PruneInv, CaptureShape, Shelved, PrunedStaysPruned, KeptOut

LEMMA SnapshotKeeps ==
  ASSUME PruneInv, TakeSnapshot \/ BeginMerge \/ Replace
  PROVE  PruneInv'
<1> USE DEF PruneInv, CaptureShape, Shelved
<1>1. ASSUME TakeSnapshot PROVE PruneInv'
  BY <1>1 DEF TakeSnapshot, captureVars, PrunedStaysPruned, KeptOut
<1>2. ASSUME BeginMerge PROVE PruneInv'
  BY <1>2 DEF BeginMerge, captureVars, PrunedStaysPruned, KeptOut
<1>3. ASSUME Replace PROVE PruneInv'
  <2>1. PICK s \in snap : /\ stream' = s.stream /\ watermark' = s.watermark
                          /\ gone' = gone \ HashesOf(s.stream)
    BY <1>3 DEF Replace
  <2>2. UNCHANGED <<feeder, pruner, snap, merge>> /\ merge = {}
    BY <1>3 DEF Replace
  <2>3. \A t \in snap : t.stream = s.stream
    OBVIOUS
  <2> QED BY <2>1, <2>2, <2>3 DEF PrunedStaysPruned, KeptOut
<1> QED BY <1>1, <1>2, <1>3

\* With the mark as it is now, what is inserted is not gone; with an older one
\* it counts as fed again.
LEMMA CommitKeeps ==
  ASSUME PruneInv, CommitMerge
  PROVE  PruneInv'
<1> USE DEF PruneInv, CaptureShape, Shelved
<1>1. PICK m \in merge :
        /\ stream' = stream \union Inserted(m.snap.stream, m.mark)
        /\ gone' = IF m.mark = watermark THEN gone
                   ELSE gone \ HashesOf(Inserted(m.snap.stream, m.mark))
  BY DEF CommitMerge
<1>2. UNCHANGED <<watermark, feeder, pruner, snap>> /\ merge' = {}
  BY DEF CommitMerge
<1>3. /\ HashesOf(stream') = HashesOf(stream) \union Missing(m.snap.stream, m.mark)
      /\ EventsOnly(stream')
  BY <1>1, InsertedHashes, HashesOfUnion DEF EventsOnly
<1>4. m.mark = watermark => gone \intersect Missing(m.snap.stream, m.mark) = {}
  BY EventStamps DEF Missing, KeptOut
<1>5. PrunedStaysPruned'
  BY <1>1, <1>3, <1>4, InsertedHashes DEF PrunedStaysPruned
<1>6. gone' \subseteq gone
  BY <1>1
<1> QED BY <1>2, <1>3, <1>5, <1>6 DEF KeptOut

LEMMA PruneStep == PruneInv /\ [Next]_vars => PruneInv'
<1> SUFFICES ASSUME PruneInv, [Next]_vars PROVE PruneInv'
  OBVIOUS
<1>1. CASE Memory \/ Embed \/ Migrate \/ MergeFails \/ Pass \/ UNCHANGED vars
  <2>1. /\ UNCHANGED <<stream, watermark, feeder, pruner, gone, snap>>
        /\ UNCHANGED merge \/ merge' = {}
    BY <1>1 DEF Memory, Embed, Migrate, MergeFails, Pass, vars, captureVars
  <2> QED BY <2>1 DEF PruneInv, CaptureShape, Shelved, PrunedStaysPruned, KeptOut
<1>2. CASE Capture
  BY <1>2, OfferKeeps, DeleteKeeps, KilledKeeps DEF Capture
<1>3. CASE CaptureStep
  BY <1>3, StoreKeeps, MarkKeeps DEF CaptureStep
<1> QED BY <1>1, <1>2, <1>3, SnapshotKeeps, CommitKeeps DEF Next

LEMMA PruneStart == Init => PruneInv
BY DEF Init, CapturesInit, PruneInv, CaptureShape, EventsOnly, NoPrune, PrunedStaysPruned, HashesOf

\* What was pruned by time does not come back with a forward-merge, unless the
\* merge had read the watermark before it was raised.
THEOREM NoWayBack == Spec => []PrunedStaysPruned
<1>1. PruneInv => PrunedStaysPruned
  BY DEF PruneInv
<1>2. Spec => []PruneInv
  BY PruneStart, PruneStep, PTL DEF Spec
<1> QED BY <1>1, <1>2, PTL

=============================================================================
