---------------------------- MODULE MindLadderProofs ----------------------------
(***************************************************************************)
(* Proofs about MindLadder, for any memories, shelves, themes, thresholds  *)
(* and bounds: the types, that a pattern is carried by one shelf at most   *)
(* and keeps its shelf from tick to tick, that the Mind's own writes make  *)
(* the rows agree with the ledger, and that no carried pattern hardens     *)
(* over what the Guard holds back.                                         *)
(***************************************************************************)
EXTENDS MindLadder, FiniteSetTheorems, TLAPS

-----------------------------------------------------------------------------
(* Orders of finite sets, and what a greedy choice along one of them leaves *)

\* R is a strict total order of M.
Orders(R, M) ==
  /\ \A x \in M : <<x, x>> \notin R
  /\ \A x, y, z \in M : <<x, y>> \in R /\ <<y, z>> \in R => <<x, z>> \in R
  /\ \A x, y \in M : x # y => <<x, y>> \in R \/ <<y, x>> \in R

\* A finite set that is not empty has a first element: of the sets of what comes
\* before an element, one is minimal.
LEMMA FirstExists ==
  ASSUME NEW M, IsFiniteSet(M), NEW R, Orders(R, M), NEW T, T \subseteq M, T # {}
  PROVE  \E x \in T : \A y \in T \ {x} : <<x, y>> \in R
<1> DEFINE down(x) == {y \in T : y = x \/ <<y, x>> \in R}
           downs == {down(x) : x \in T}
<1>1. downs \subseteq FiniteSubsetsOf(M) /\ downs # {}
  <2>1. downs \subseteq SUBSET M /\ downs # {}
    OBVIOUS
  <2> HIDE DEF downs
  <2> QED
    BY <2>1, FS_FiniteSubsetsOfFinite
<1>2. PICK D \in downs : \A E \in downs : <<E, D>> \notin StrictSubsetOrdering(M)
  BY <1>1, WFMin, FS_StrictSubsetOrderingWellFounded
<1>3. PICK x \in T : D = down(x)
  BY <1>2
<1>4. ASSUME NEW y \in T, y # x, <<y, x>> \in R PROVE FALSE
  <2>1. down(y) \subseteq down(x) /\ x \in down(x) /\ x \notin down(y)
    BY <1>4 DEF Orders
  <2>2. <<down(y), down(x)>> \in StrictSubsetOrdering(M)
    BY <2>1 DEF StrictSubsetOrdering
  <2> QED
    BY <1>2, <1>3, <2>2
<1> QED
  BY <1>4 DEF Orders

\* Finite sets of numbers have their least and their greatest element.
LEMMA Extremes ==
  ASSUME NEW S \in SUBSET Nat, IsFiniteSet(S), S # {}
  PROVE  /\ Min(S) \in S /\ \A y \in S : Min(S) <= y
         /\ Max(S) \in S /\ \A y \in S : y <= Max(S)
<1> DEFINE Up == {p \in S \X S : p[1] < p[2]}
           Down == {p \in S \X S : p[2] < p[1]}
<1>1. \A x, y \in S : (<<x, y>> \in Up <=> x < y) /\ (<<x, y>> \in Down <=> y < x)
  OBVIOUS
<1>2. \A x \in S : x \in Nat
  OBVIOUS
<1> HIDE DEF Up, Down
<1>3. Orders(Up, S) /\ Orders(Down, S)
  BY <1>1, <1>2 DEF Orders
<1>4. \E x \in S : \A y \in S : x <= y
  <2>1. PICK x \in S : \A y \in S \ {x} : <<x, y>> \in Up
    BY <1>3, FirstExists
  <2>2. ASSUME NEW y \in S PROVE x <= y
    <3>1. y = x \/ <<x, y>> \in Up
      BY <2>1
    <3> QED
      BY <3>1, <1>1, <1>2
  <2> QED
    BY <2>2
<1>5. \E x \in S : \A y \in S : x >= y
  <2>1. PICK x \in S : \A y \in S \ {x} : <<x, y>> \in Down
    BY <1>3, FirstExists
  <2>2. ASSUME NEW y \in S PROVE x >= y
    <3>1. y = x \/ <<x, y>> \in Down
      BY <2>1
    <3> QED
      BY <3>1, <1>1, <1>2
  <2> QED
    BY <2>2
<1>6. Min(S) \in S /\ \A y \in S : Min(S) <= y
  BY <1>4 DEF Min
<1>7. Max(S) \in S /\ \A y \in S : Max(S) >= y
  BY <1>5 DEF Max
<1> QED
  BY <1>2, <1>6, <1>7

\* Along an order R some set W has just what meets nothing of W that comes before
\* it (K: what meets what).  Of the sets that are closed under what comes before
\* and have such a W, a largest one is everything: the first element that it
\* lacked could be decided and added.
LEMMA GreedyExists ==
  ASSUME NEW C, IsFiniteSet(C), NEW R, Orders(R, C), NEW K
  PROVE  \E W \in SUBSET C :
           \A a \in C : a \in W <=> ~\E b \in W : <<b, a>> \in R /\ <<b, a>> \in K
<1> DEFINE Beaten(a, W) == \E b \in W : <<b, a>> \in R /\ <<b, a>> \in K
           Decides(W, U) == W \subseteq U /\ \A a \in U : a \in W <=> ~Beaten(a, W)
           Closed(U) == U \subseteq C /\ \A a \in U, b \in C : <<b, a>> \in R => b \in U
           Good == {U \in SUBSET C : Closed(U) /\ \E W \in SUBSET C : Decides(W, U)}
           Left == {C \ U : U \in Good}
<1>1. {} \in Good
  <2>1. Closed({}) /\ Decides({}, {})
    OBVIOUS
  <2> HIDE DEF Closed, Decides
  <2>2. {} \in SUBSET C /\ \E W \in SUBSET C : Decides(W, {})
    BY <2>1
  <2> QED
    BY <2>1, <2>2
<1>2. Left \subseteq FiniteSubsetsOf(C) /\ Left # {}
  <2>1. Left \subseteq SUBSET C /\ Left # {}
    <3> HIDE DEF Good
    <3> QED
      BY <1>1
  <2> HIDE DEF Left
  <2> QED
    BY <2>1, FS_FiniteSubsetsOfFinite
<1>3. PICK D \in Left : \A E \in Left : <<E, D>> \notin StrictSubsetOrdering(C)
  <2> HIDE DEF Left
  <2> QED
    BY <1>2, WFMin, FS_StrictSubsetOrderingWellFounded
<1>4. PICK U \in Good : D = C \ U
  BY <1>3
<1>5. U \in SUBSET C /\ Closed(U)
  BY <1>4
<1>6. PICK W \in SUBSET C : Decides(W, U)
  BY <1>4
<1>7. ASSUME U # C PROVE FALSE
  <2>1. C \ U \subseteq C /\ C \ U # {}
    BY <1>5, <1>7
  <2>2. PICK a \in C \ U : \A y \in (C \ U) \ {a} : <<a, y>> \in R
    <3> HIDE DEF Good, Left, Closed, Decides
    <3> QED
      BY <2>1, FirstExists
  <2>3. a \in C /\ a \notin U
    BY <2>2
  <2> DEFINE V == U \union {a}
             X == IF Beaten(a, W) THEN W ELSE W \union {a}
  <2>4. \A b \in C : <<b, a>> \in R => b \in U
    BY <2>2, <2>3 DEF Orders
  <2>5. Closed(V)
    BY <1>5, <2>3, <2>4
  <2>6. \A c \in U : <<a, c>> \notin R
    BY <1>5, <2>3
  <2>7. <<a, a>> \notin R
    BY <2>3 DEF Orders
  <2>8. \A c \in V : Beaten(c, X) <=> Beaten(c, W)
    BY <2>6, <2>7
  <2>9. Decides(X, V)
    BY <1>6, <2>3, <2>8
  <2>10. V \in Good
    <3>1. V \in SUBSET C /\ X \in SUBSET C
      BY <1>5, <1>6, <2>3
    <3> HIDE DEF V, X
    <3> QED
      BY <3>1, <2>5, <2>9
  <2>11. C \ V \in Left
    BY <2>10
  <2>12. <<C \ V, D>> \in StrictSubsetOrdering(C)
    <3>1. C \ V \subseteq C /\ D \subseteq C /\ C \ V \subseteq D /\ C \ V # D
      BY <1>4, <2>3
    <3> QED
      BY <3>1 DEF StrictSubsetOrdering
  <2> QED
    <3> HIDE DEF Left, V
    <3> QED
      BY <1>3, <2>11, <2>12
<1>8. Decides(W, C)
  BY <1>6, <1>7
<1> QED
  BY <1>8
-----------------------------------------------------------------------------
(* The invariant *)

\* A tick has a copy of the ledger, and a pattern in hand from its first write
\* to its last.
Ticking ==
  /\ step = "idle" => draft = NoDraft /\ todo = {}
  /\ step \in {"idle", "pick"} => cur = 0
  /\ step \in {"archive", "save"} => cur \in todo
  /\ step = "archive" => draft[cur].status = "retired" /\ draft[cur].knowledge # 0

\* A hardened pattern has a row.
HasRow(p) == p.status = "hardened" => p.knowledge # 0

HaveRows == \A i \in Shelves : HasRow(ledger[i]) /\ HasRow(draft[i])

Agrees(i, p) ==
  /\ p.status = "hardened" => rows[p.knowledge] = [of |-> i, archived |-> FALSE]
  /\ p.status = "retired" /\ p.knowledge # 0 =>
       rows[p.knowledge] = [of |-> i, archived |-> TRUE]

\* The rows agree with the ledger but for the pattern in hand, and with the copy
\* of what is still to come and of what is about to be saved; and the row that is
\* about to be archived is the pattern's.  Loose patterns are left out.
Settled ==
  /\ \A i \in Shelves \ loose : i # cur => Agrees(i, ledger[i])
  /\ \A i \in todo \ loose : i # cur \/ step = "save" => Agrees(i, draft[i])
  /\ step = "archive" /\ cur \notin loose => rows[draft[cur].knowledge].of = cur

\* The verdict on a carried pattern is about the refs that it has.
Judged == \A i \in todo : Carried(i) => draft[i].guard = Held(draft[i].refs)

\* A shelf that carries another's pattern has none of its own, and is an alias
\* where the tick, or else the ledger, still has that pattern.
Recorded(s, i) ==
  /\ ledger[s].status = "none" /\ s \notin todo
  /\ IF i \in todo THEN s \in draft[i].aliases
     ELSE ledger[i].status = "none" \/ s \in ledger[i].aliases

Followed == \A s \in Shelves : carry[s] \in {0, s} \/ Recorded(s, carry[s])

LadderInv ==
  /\ TypeOK /\ Ticking /\ HaveRows /\ Settled /\ Judged /\ Followed /\ OneCarrier

-----------------------------------------------------------------------------
(* Evidence and confidence *)

LEMMA EvidenceCounts ==
  ASSUME NEW ms \in SUBSET Memories
  PROVE  /\ Evidence(ms) \in SUBSET Memories
         /\ IsFiniteSet(Evidence(ms)) /\ Cardinality(Evidence(ms)) \in Nat
<1>1. Evidence(ms) \in SUBSET Memories
  BY DEF Evidence
<1> QED
  BY <1>1, MindAssumption, FS_Subset, FS_CardinalityType

\* A candidate has evidence, and so a first and a last time.
LEMMA CandidateHasTimes ==
  ASSUME TypeOK, NEW s \in Candidates
  PROVE  /\ s \in Shelves
         /\ Evidence(shelf[s].members) \in SUBSET Memories
         /\ Min(Times(s)) \in Days /\ Max(Times(s)) \in Days
<1>1. s \in Shelves /\ shelf[s].members \in SUBSET Memories
  BY DEF TypeOK, Candidates
<1> DEFINE ev == Evidence(shelf[s].members)
<1>2. ev \in SUBSET Memories /\ Cardinality(ev) >= MinPatternN /\ Cardinality(ev) \in Nat
  BY <1>1, EvidenceCounts DEF Candidates
<1> HIDE DEF ev
<1>3. ev # {}
  BY <1>2, MindAssumption, FS_EmptySet
<1>4. Times(s) \in SUBSET Days /\ Times(s) # {}
  BY <1>2, <1>3 DEF ev, Times, TypeOK
<1>5. IsFiniteSet(Days) /\ Days \subseteq Nat
  BY MindAssumption, FS_Interval DEF Days
<1> HIDE DEF Days
<1>6. Times(s) \in SUBSET Nat /\ IsFiniteSet(Times(s))
  BY <1>4, <1>5, FS_Subset
<1>7. Min(Times(s)) \in Times(s) /\ Max(Times(s)) \in Times(s)
  BY <1>4, <1>6, Extremes
<1> QED
  BY <1>1, <1>2, <1>4, <1>7 DEF ev

LEMMA ProductsGrow ==
  ASSUME NEW a \in Nat, NEW b \in Nat, NEW c \in Nat, NEW d \in Nat, a <= b, c <= d
  PROVE  a * c <= b * d /\ a * c \in Nat /\ b * d \in Nat
<1>1. a * c <= b * c /\ b * c <= b * d
  OBVIOUS
<1> QED
  BY <1>1

LEMMA QuotientBelow ==
  ASSUME NEW x \in Nat, NEW y \in Nat \ {0}, NEW k \in Nat, x < k * y
  PROVE  x \div y \in 0 .. k - 1
<1> DEFINE q == x \div y
<1>1. q \in Nat /\ q * y <= x
  OBVIOUS
<1> HIDE DEF q
<1>2. ASSUME k <= q PROVE FALSE
  <2>1. k * y <= q * y /\ k * y \in Nat /\ q * y \in Nat
    BY <1>1, <1>2, ProductsGrow
  <2> QED
    BY <1>1, <2>1
<1> QED
  BY <1>1, <1>2 DEF q

\* n \in Nat may well be above TargetN, and last after now.
LEMMA ConfidenceInRange ==
  ASSUME now \in Nat, NEW n \in Nat, NEW last \in Days
  PROVE  Confidence(n, last) \in 0 .. 100
<1> DEFINE d == now - last
           span == HorizonDays - FreshDays
           part == IF d <= FreshDays THEN span
                   ELSE IF d >= HorizonDays THEN 0 ELSE HorizonDays - d
           m == Least(n, TargetN)
<1>1. span \in Nat \ {0} /\ part \in Nat /\ part <= span
  BY MindAssumption DEF Days
<1>2. m \in Nat /\ m <= TargetN /\ TargetN \in Nat \ {0}
  BY MindAssumption DEF Least
<1>3. Confidence(n, last) = (200 * m * part + TargetN * span) \div (2 * TargetN * span)
  BY DEF Confidence
<1> HIDE DEF span, part, m
<1> DEFINE a == m * part
           b == TargetN * span
<1>4. a \in Nat /\ b \in Nat /\ a <= b
  BY <1>1, <1>2, ProductsGrow
<1>5. b # 0
  BY <1>1, <1>2
<1>6. 200 * m * part = 200 * a /\ 2 * TargetN * span = 2 * b
  BY <1>1, <1>2
<1> HIDE DEF a, b
<1> DEFINE x == 200 * a + b
           y == 2 * b
<1>7. x \in Nat /\ y \in Nat \ {0} /\ x < 101 * y
  BY <1>4, <1>5
<1>8. Confidence(n, last) = x \div y
  BY <1>3, <1>6 DEF b
<1> HIDE DEF x, y
<1>9. x \div y \in 0 .. 101 - 1
  BY <1>7, QuotientBelow
<1> QED
  BY <1>8, <1>9

-----------------------------------------------------------------------------
(* Which pattern a live shelf continues: one at most, and no two the same *)

Claims == ByEvidence \union ByTheme

LEMMA ClaimsAreFinite ==
  ASSUME TypeOK
  PROVE  /\ Claims \subseteq Unrecognized \X Orphans
         /\ Unrecognized \subseteq Candidates /\ Orphans \subseteq Known
         /\ Candidates \subseteq Shelves /\ Known \subseteq Shelves
         /\ IsFiniteSet(Claims)
<1>1. Claims \subseteq Unrecognized \X Orphans
  BY DEF Claims, ByEvidence, ByTheme
<1>2. /\ Unrecognized \subseteq Candidates /\ Orphans \subseteq Known
      /\ Candidates \subseteq Shelves /\ Known \subseteq Shelves
  BY DEF Unrecognized, Orphans, Candidates, Known
<1>3. IsFiniteSet(Shelves \X Shelves)
  BY MindAssumption, FS_Product
<1>4. Claims \subseteq Shelves \X Shelves
  BY <1>1, <1>2
<1> QED
  BY <1>1, <1>2, <1>3, <1>4, FS_Subset

\* Two claims are never as good as each other: they are told apart by their names.
LEMMA BetterOrders ==
  ASSUME TypeOK
  PROVE  Orders({p \in Claims \X Claims : Better(p[1], p[2])}, Claims)
<1> DEFINE R == {p \in Claims \X Claims : Better(p[1], p[2])}
<1>1. ASSUME NEW a \in Claims
      PROVE  Score(a) \in Nat /\ a[1] \in Nat /\ a[2] \in Nat /\ a = <<a[1], a[2]>>
  <2>1. a[1] \in Shelves /\ a[2] \in Shelves /\ a = <<a[1], a[2]>>
    BY ClaimsAreFinite
  <2>2. Overlap(a[1], a[2]) \in Nat
    <3>1. /\ Evidence(ledger[a[2]].refs) \in SUBSET Memories
          /\ IsFiniteSet(Evidence(ledger[a[2]].refs))
      <4>1. ledger[a[2]].refs \in SUBSET Memories
        BY <2>1 DEF TypeOK, Patterns
      <4> QED
        BY <4>1, EvidenceCounts
    <3> QED
      BY <3>1, FS_Intersection, FS_CardinalityType DEF Overlap
  <2> QED
    BY <2>1, <2>2, MindAssumption DEF Score
<1>2. \A a, b \in Claims : <<a, b>> \in R <=> Better(a, b)
  OBVIOUS
<1> HIDE DEF R
<1>3. \A a \in Claims : ~Better(a, a)
  BY <1>1 DEF Better
<1>4. \A a, b, c \in Claims : Better(a, b) /\ Better(b, c) => Better(a, c)
  BY <1>1 DEF Better
<1>5. ASSUME NEW a \in Claims, NEW b \in Claims, a # b PROVE Better(a, b) \/ Better(b, a)
  <2>1. a[1] # b[1] \/ a[2] # b[2]
    BY <1>1, <1>5
  <2>2. Score(a) \in Nat /\ Score(b) \in Nat /\ {a[1], a[2], b[1], b[2]} \subseteq Nat
    BY <1>1
  <2> QED
    BY <2>1, <2>2 DEF Better
<1>6. Orders(R, Claims)
  BY <1>2, <1>3, <1>4, <1>5 DEF Orders
<1> QED
  BY <1>6 DEF R

\* adoptionClaims has an outcome, and that outcome is one to one.
LEMMA AdoptionIsDecided ==
  ASSUME TypeOK
  PROVE  /\ Adopted \subseteq Claims
         /\ \A a, b \in Adopted : a[1] = b[1] \/ a[2] = b[2] => a = b
<1> DEFINE R == {p \in Claims \X Claims : Better(p[1], p[2])}
           K == {p \in Claims \X Claims : p[1][1] = p[2][1] \/ p[1][2] = p[2][2]}
           Wins(W) == \A a \in Claims :
                        a \in W <=> ~\E b \in W : Better(b, a) /\ (a[1] = b[1] \/ a[2] = b[2])
<1>1. Orders(R, Claims)
  BY BetterOrders
<1>2. \A a, b \in Claims : /\ <<b, a>> \in R <=> Better(b, a)
                           /\ <<b, a>> \in K <=> (a[1] = b[1] \/ a[2] = b[2])
  OBVIOUS
<1> HIDE DEF R, K
<1>3. PICK W \in SUBSET Claims :
        \A a \in Claims : a \in W <=> ~\E b \in W : <<b, a>> \in R /\ <<b, a>> \in K
  <2>1. IsFiniteSet(Claims)
    BY ClaimsAreFinite
  <2> HIDE DEF Wins
  <2> QED
    BY <1>1, <2>1, GreedyExists, Zenon
<1>4. Wins(W)
  BY <1>2, <1>3
<1>5. Adopted = CHOOSE won \in SUBSET Claims : Wins(won)
  BY DEF Adopted, Claims
<1>6. Adopted \in SUBSET Claims /\ Wins(Adopted)
  <2> HIDE DEF Wins
  <2> QED
    BY <1>4, <1>5
<1>7. \A a, b \in Claims : a # b => Better(a, b) \/ Better(b, a)
  BY <1>1, <1>2 DEF Orders
<1> QED
  BY <1>6, <1>7

Resolved == Direct \union Adopted

LEMMA ResolvedOneToOne ==
  ASSUME TypeOK
  PROVE  /\ Resolved \subseteq Candidates \X Known
         /\ \A a, b \in Resolved : a[1] = b[1] \/ a[2] = b[2] => a = b
         /\ \A s \in ById : <<s, s>> \in Resolved
         /\ Aliased \subseteq Resolved
<1> DEFINE Own == {<<s, s>> : s \in ById}
<1>1. ById \subseteq Candidates /\ ById \subseteq Known
  BY DEF ById
<1>2. /\ Aliased \subseteq (Candidates \ ById) \X (Known \ ById)
      /\ \A a \in Aliased : a[2] = Max(Namesakes(a[1]))
      /\ \A a, b \in Aliased : a[2] = b[2] => a[1] <= b[1]
  BY DEF Aliased, ByAlias
<1>3. Candidates \subseteq Nat
  BY MindAssumption DEF Candidates
<1>4. \A a \in Own : a[1] \in ById /\ a[2] = a[1] /\ a = <<a[1], a[2]>>
  OBVIOUS
<1>5. \A a \in Aliased : /\ a[1] \in Candidates \ ById /\ a[2] \in Known \ ById
                         /\ a = <<a[1], a[2]>>
  BY <1>2
<1>6. /\ Adopted \subseteq Unrecognized \X Orphans
      /\ \A a, b \in Adopted : a[1] = b[1] \/ a[2] = b[2] => a = b
  BY AdoptionIsDecided, ClaimsAreFinite
<1>7. \A a \in Adopted : /\ a[1] \in Candidates /\ a[2] \in Known /\ a = <<a[1], a[2]>>
                         /\ \A b \in Direct : a[1] # b[1] /\ a[2] # b[2]
  BY <1>6 DEF Unrecognized, Orphans
<1>8. Direct = Own \union Aliased
  BY DEF Direct
<1> HIDE DEF Own
<1>9. ASSUME NEW a \in Direct, NEW b \in Direct, a[1] = b[1] \/ a[2] = b[2] PROVE a = b
  <2>1. CASE a \in Own /\ b \in Own
    BY <1>4, <1>9, <2>1
  <2>2. CASE a \in Own /\ b \in Aliased
    BY <1>4, <1>5, <1>9, <2>2
  <2>3. CASE a \in Aliased /\ b \in Own
    BY <1>4, <1>5, <1>9, <2>3
  <2>4. CASE a \in Aliased /\ b \in Aliased
    <3>1. a[2] = b[2]
      BY <1>2, <1>9, <2>4
    <3>2. a[1] <= b[1] /\ b[1] <= a[1] /\ a[1] \in Nat /\ b[1] \in Nat
      BY <1>2, <1>3, <1>5, <2>4, <3>1
    <3> QED
      BY <1>5, <2>4, <3>1, <3>2
  <2> QED
    BY <1>8, <1>9, <2>1, <2>2, <2>3, <2>4
<1>10. \A a, b \in Resolved : a[1] = b[1] \/ a[2] = b[2] => a = b
  BY <1>6, <1>7, <1>9 DEF Resolved
<1>11. \A a \in Resolved : a[1] \in Candidates /\ a[2] \in Known /\ a = <<a[1], a[2]>>
  BY <1>1, <1>4, <1>5, <1>7, <1>8 DEF Resolved
<1>12. \A s \in ById : <<s, s>> \in Resolved
  BY <1>8 DEF Resolved, Own
<1> QED
  BY <1>8, <1>10, <1>11, <1>12 DEF Resolved

LEMMA CarrierIs ==
  ASSUME TypeOK
  PROVE  /\ \A s \in Shelves : Carrier(s, Resolved) \in Shelves \union {0}
         /\ \A s \in Shelves \ Candidates : Carrier(s, Resolved) = 0
         /\ \A s, i \in Shelves : <<s, i>> \in Resolved =>
              s \in Candidates /\ i \in Known /\ Carrier(s, Resolved) = i
         /\ \A s \in Candidates : (\A i \in Shelves : <<s, i>> \notin Resolved) =>
              Carrier(s, Resolved) = s /\ s \notin Known
<1>1. /\ Resolved \subseteq Candidates \X Known
      /\ \A a, b \in Resolved : a[1] = b[1] \/ a[2] = b[2] => a = b
      /\ \A s \in ById : <<s, s>> \in Resolved
  BY ResolvedOneToOne
<1>2. Candidates \subseteq Shelves /\ Known \subseteq Shelves
  BY DEF Candidates, Known
<1>3. \A s \in Shelves \ Candidates : Carrier(s, Resolved) = 0
  BY DEF Carrier
<1>4. ASSUME NEW s \in Shelves, NEW i \in Shelves, <<s, i>> \in Resolved
      PROVE  s \in Candidates /\ i \in Known /\ Carrier(s, Resolved) = i
  <2>1. s \in Candidates /\ i \in Known
    BY <1>1, <1>4
  <2>2. \A j \in Shelves : <<s, j>> \in Resolved => j = i
    BY <1>1, <1>4
  <2>3. i = CHOOSE j \in Shelves : <<s, j>> \in Resolved
    BY <1>4, <2>2
  <2> QED
    BY <1>4, <2>1, <2>3 DEF Carrier
<1>5. ASSUME NEW s \in Candidates, \A i \in Shelves : <<s, i>> \notin Resolved
      PROVE  Carrier(s, Resolved) = s /\ s \notin Known
  BY <1>1, <1>2, <1>5 DEF Carrier, ById
<1>6. \A s \in Shelves : Carrier(s, Resolved) \in Shelves \union {0}
  BY <1>2, <1>3, <1>4, <1>5
<1> QED
  BY <1>3, <1>4, <1>5, <1>6

\* No two shelves carry the same pattern.
LEMMA CarrierOneToOne ==
  ASSUME TypeOK, NEW s \in Shelves, NEW t \in Shelves,
         Carrier(s, Resolved) = Carrier(t, Resolved), Carrier(s, Resolved) # 0
  PROVE  s = t
<1>1. s \in Candidates /\ t \in Candidates
  BY CarrierIs
<1> DEFINE Alone(x) == \A i \in Shelves : <<x, i>> \notin Resolved
<1>2. CASE Alone(s) /\ Alone(t)
  BY <1>1, <1>2, CarrierIs
<1>3. ASSUME NEW x \in Candidates, NEW y \in Candidates, Alone(x), ~Alone(y),
             Carrier(x, Resolved) = Carrier(y, Resolved)
      PROVE  FALSE
  <2>1. x \in Shelves /\ y \in Shelves
    BY DEF Candidates
  <2>2. Carrier(x, Resolved) = x /\ x \notin Known
    BY <1>3, CarrierIs
  <2>3. Carrier(y, Resolved) \in Known
    BY <1>3, <2>1, CarrierIs
  <2> QED
    BY <1>3, <2>2, <2>3
<1>4. CASE ~Alone(s) /\ ~Alone(t)
  <2>1. PICK i \in Shelves : <<s, i>> \in Resolved
    BY <1>4
  <2>2. PICK j \in Shelves : <<t, j>> \in Resolved
    BY <1>4
  <2>3. i = j
    BY <2>1, <2>2, CarrierIs
  <2>4. <<s, i>> = <<t, j>>
    BY <2>1, <2>2, <2>3, ResolvedOneToOne
  <2> QED
    BY <2>4
<1> QED
  BY <1>1, <1>2, <1>3, <1>4

-----------------------------------------------------------------------------
(* A tick *)

LEMMA NoPatternIs ==
  /\ NoPattern \in Patterns /\ NoPattern.status = "none" /\ NoPattern.knowledge = 0
  /\ NoDraft \in [Shelves -> Patterns] /\ \A i \in Shelves : NoDraft[i] = NoPattern
  /\ NoGrade \in [Shelves -> [n : Nat, conf : 0 .. 100]]
<1>1. NoPattern \in Patterns /\ NoPattern.status = "none" /\ NoPattern.knowledge = 0
  BY MindAssumption DEF NoPattern, Patterns, Statuses, Days
<1> QED
  BY <1>1 DEF NoDraft, NoGrade

LEMMA UpsertedIs ==
  ASSUME TypeOK, NEW i \in Shelves, NEW s \in Candidates, NEW adopted,
         NEW p, p = Upserted(i, s, adopted)
  PROVE  /\ p \in Patterns
         /\ (p.status = ledger[i].status /\ p.status # "none") \/ p.status = "forming"
         /\ p.knowledge = ledger[i].knowledge
         /\ p.refs = Evidence(shelf[s].members)
         /\ p.aliases = ledger[i].aliases \union (IF <<s, i>> \in adopted THEN {s} ELSE {})
         /\ p.guard = Held(shelf[s].members)
<1>1. ledger[i] \in Patterns
  BY DEF TypeOK
<1>2. /\ s \in Shelves /\ Evidence(shelf[s].members) \in SUBSET Memories
      /\ Min(Times(s)) \in Days /\ Max(Times(s)) \in Days
  BY CandidateHasTimes
<1>3. shelf[s].theme \in Themes
  BY <1>2 DEF TypeOK
<1>4. Held(shelf[s].members) \in BOOLEAN
  BY DEF Held
<1>5. Aliases(i, s, adopted) \in SUBSET Shelves
  BY <1>1, <1>2 DEF Aliases, Patterns
<1> DEFINE ev == Evidence(shelf[s].members)
           first == Min(Times(s))
           recent == Max(Times(s))
           old == ledger[i]
           revived == old.status = "retired" /\ recent > old.last
           status == IF old.status = "none" \/ revived THEN "forming" ELSE old.status
           born == IF old.status = "none" THEN first ELSE Least(old.born, first)
           soft == old.soft /\ ~revived
           aliases == Aliases(i, s, adopted)
           held == Held(shelf[s].members)
           theme == shelf[s].theme
<1>6. p = [old EXCEPT !.status = status, !.aliases = aliases, !.refs = ev, !.born = born,
                      !.last = recent, !.soft = soft, !.guard = held, !.sig = theme]
  BY DEF Upserted, Verdict
<1>7. status \in Statuses /\ soft \in BOOLEAN
  BY <1>1 DEF Patterns, Statuses
<1>8. born \in Days
  BY <1>1, <1>2 DEF Least, Patterns
<1>9. (status = old.status /\ status # "none") \/ status = "forming"
  OBVIOUS
<1> HIDE DEF ev, recent, status, born, soft, aliases, held, theme, old
<1>10. old \in Patterns /\ aliases \in SUBSET Shelves /\ ev \in SUBSET Memories
       /\ recent \in Days /\ held \in BOOLEAN /\ theme \in Themes
  BY <1>1, <1>2, <1>3, <1>4, <1>5 DEF old, aliases, ev, recent, held, theme
<1>11. /\ p \in Patterns /\ p.status = status /\ p.knowledge = old.knowledge
       /\ p.refs = ev /\ p.aliases = aliases /\ p.guard = held
  BY <1>6, <1>7, <1>8, <1>10 DEF Patterns
<1> QED
  BY <1>9, <1>11 DEF old, ev, aliases, held, Aliases

\* What a tick finds for each shelf and each pattern.
LEMMA TickFinds ==
  ASSUME TypeOK, Tick
  PROVE  /\ carry' = [s \in Shelves |-> Carrier(s, Resolved)]
         /\ carry' \in [Shelves -> Shelves \union {0}]
         /\ draft' = [i \in Shelves |->
                        IF \E s \in Shelves : carry'[s] = i
                        THEN Upserted(i, CHOOSE s \in Shelves : carry'[s] = i, Adopted)
                        ELSE ledger[i]]
         /\ \A i, s \in Shelves : carry'[s] = i =>
              s \in Candidates /\ draft'[i] = Upserted(i, s, Adopted)
         /\ \A i \in Shelves : (\A s \in Shelves : carry'[s] # i) => draft'[i] = ledger[i]
<1>1. carry' = [s \in Shelves |-> Carrier(s, Resolved)]
  BY DEF Tick, Resolved
<1>2. \A s \in Shelves : carry'[s] = Carrier(s, Resolved)
  BY <1>1
<1>3. carry' \in [Shelves -> Shelves \union {0}]
  BY <1>1, CarrierIs
<1>4. draft' = [i \in Shelves |->
                  IF \E s \in Shelves : carry'[s] = i
                  THEN Upserted(i, CHOOSE s \in Shelves : carry'[s] = i, Adopted)
                  ELSE ledger[i]]
  BY DEF Tick
<1>5. \A s \in Shelves : carry'[s] # 0 => s \in Candidates
  BY <1>2, CarrierIs
<1>6. 0 \notin Shelves
  BY MindAssumption
<1>7. \A s, t \in Shelves : carry'[s] = carry'[t] /\ carry'[s] # 0 => s = t
  BY <1>2, CarrierOneToOne
<1>8. ASSUME NEW i \in Shelves, NEW s \in Shelves, carry'[s] = i
      PROVE  s \in Candidates /\ draft'[i] = Upserted(i, s, Adopted)
  <2>1. (CHOOSE t \in Shelves : carry'[t] = i) = s
    BY <1>6, <1>7, <1>8
  <2>2. draft'[i] = Upserted(i, CHOOSE t \in Shelves : carry'[t] = i, Adopted)
    BY <1>4, <1>8
  <2> QED
    BY <1>5, <1>6, <1>8, <2>1, <2>2
<1>9. \A i \in Shelves : (\A s \in Shelves : carry'[s] # i) => draft'[i] = ledger[i]
  BY <1>4
<1> QED
  BY <1>1, <1>3, <1>4, <1>8, <1>9

LEMMA TickTypes ==
  ASSUME TypeOK, Tick
  PROVE  TypeOK'
<1>1. carry' \in [Shelves -> Shelves \union {0}]
  BY TickFinds
<1>2. draft' \in [Shelves -> Patterns]
  <2>1. ASSUME NEW i \in Shelves PROVE draft'[i] \in Patterns
    <3>1. CASE \E s \in Shelves : carry'[s] = i
      <4>1. PICK s \in Shelves : carry'[s] = i
        BY <3>1
      <4>2. s \in Candidates /\ draft'[i] = Upserted(i, s, Adopted)
        BY <4>1, TickFinds
      <4>3. PICK a, p : a = Adopted /\ p = draft'[i]
        OBVIOUS
      <4>4. p = Upserted(i, s, a)
        BY <4>2, <4>3
      <4>5. p \in Patterns
        BY <4>2, <4>4, UpsertedIs
      <4> QED
        BY <4>3, <4>5
    <3>2. CASE \A s \in Shelves : carry'[s] # i
      BY <3>2, TickFinds DEF TypeOK
    <3> QED
      BY <3>1, <3>2
  <2>2. draft' = [i \in Shelves |->
                    IF \E s \in Shelves : carry'[s] = i
                    THEN Upserted(i, CHOOSE s \in Shelves : carry'[s] = i, Adopted)
                    ELSE ledger[i]]
    BY TickFinds
  <2>3. draft' = [i \in Shelves |-> draft'[i]]
    BY <2>2
  <2> QED
    BY <2>1, <2>3
<1>3. grade' \in [Shelves -> [n : Nat, conf : 0 .. 100]]
  <2>1. ASSUME NEW i \in Shelves
        PROVE  /\ Cardinality(Evidence(draft'[i].refs)) \in Nat
               /\ Confidence(Cardinality(Evidence(draft'[i].refs)), draft'[i].last) \in 0 .. 100
    <3>1. draft'[i].refs \in SUBSET Memories /\ draft'[i].last \in Days
      BY <1>2 DEF Patterns
    <3>2. Cardinality(Evidence(draft'[i].refs)) \in Nat
      BY <3>1, EvidenceCounts
    <3>3. now \in Nat
      BY MindAssumption DEF TypeOK, Days
    <3> QED
      BY <3>1, <3>2, <3>3, ConfidenceInRange
  <2>2. grade' = [i \in Shelves |->
                    [n |-> Cardinality(Evidence(draft'[i].refs)),
                     conf |-> Confidence(Cardinality(Evidence(draft'[i].refs)), draft'[i].last)]]
    BY DEF Tick, Counted
  <2> QED
    BY <2>1, <2>2
<1>4. todo' \subseteq Shelves
  BY DEF Tick
<1> QED
  BY <1>1, <1>2, <1>3, <1>4 DEF Tick, TypeOK

LEMMA TickUpserts ==
  ASSUME TypeOK, Tick, NEW i \in Shelves, NEW s \in Shelves, carry'[s] = i
  PROVE  /\ s \in Candidates
         /\ (draft'[i].status = ledger[i].status /\ draft'[i].status # "none")
            \/ draft'[i].status = "forming"
         /\ draft'[i].knowledge = ledger[i].knowledge
         /\ draft'[i].refs = Evidence(shelf[s].members)
         /\ ledger[i].aliases \subseteq draft'[i].aliases
         /\ <<s, i>> \in Adopted => s \in draft'[i].aliases
         /\ draft'[i].guard = Held(shelf[s].members)
<1>1. s \in Candidates /\ draft'[i] = Upserted(i, s, Adopted)
  BY TickFinds
<1>2. PICK a, p : a = Adopted /\ p = draft'[i]
  OBVIOUS
<1>3. p = Upserted(i, s, a)
  BY <1>1, <1>2
<1>4. /\ (p.status = ledger[i].status /\ p.status # "none") \/ p.status = "forming"
      /\ p.knowledge = ledger[i].knowledge
      /\ p.refs = Evidence(shelf[s].members)
      /\ p.aliases = ledger[i].aliases \union (IF <<s, i>> \in a THEN {s} ELSE {})
      /\ p.guard = Held(shelf[s].members)
  BY <1>1, <1>3, UpsertedIs
<1> QED
  BY <1>1, <1>2, <1>4

\* An alias continues a pattern that has it for an alias.
LEMMA AliasedIsAlias ==
  ASSUME TypeOK, NEW a \in Aliased
  PROVE  a[1] \in ledger[a[2]].aliases
<1> DEFINE N == Namesakes(a[1])
<1>1. N # {} /\ a[2] = Max(N)
  BY DEF Aliased, ByAlias
<1>2. N \in SUBSET Shelves
  BY DEF Namesakes, Known
<1>3. N \in SUBSET Nat /\ IsFiniteSet(N)
  BY <1>2, MindAssumption, FS_Subset
<1>4. Max(N) \in N
  BY <1>1, <1>3, Extremes
<1> QED
  BY <1>1, <1>4 DEF Namesakes

LEMMA TickKeeps ==
  ASSUME LadderInv, Tick
  PROVE  LadderInv'
<1>1. TypeOK /\ TypeOK'
  BY TickTypes DEF LadderInv
<1>2. /\ carry' = [s \in Shelves |-> Carrier(s, Resolved)]
      /\ \A i \in Shelves : (\A s \in Shelves : carry'[s] # i) => draft'[i] = ledger[i]
  BY <1>1, TickFinds
<1>3. /\ step = "idle" /\ step' = "pick" /\ cur' = 0 /\ todo = {} /\ loose' = loose
      /\ ledger' = ledger /\ rows' = rows /\ mem' = mem
      /\ todo' = {i \in Shelves : draft'[i].status # "none"}
  BY DEF Tick, LadderInv, Ticking
<1>4. 0 \notin Shelves
  BY MindAssumption
<1>5. ASSUME NEW i \in Shelves
      PROVE  /\ draft'[i].knowledge = ledger[i].knowledge
             /\ draft'[i].status = ledger[i].status \/ draft'[i].status = "forming"
  <2>1. CASE \E s \in Shelves : carry'[s] = i
    BY <1>1, <2>1, TickUpserts
  <2>2. CASE \A s \in Shelves : carry'[s] # i
    BY <1>2, <2>2
  <2> QED
    BY <2>1, <2>2
<1>6. Ticking'
  BY <1>3 DEF Ticking
<1>7. HaveRows'
  BY <1>3, <1>5 DEF LadderInv, HaveRows, HasRow
<1>8. Settled'
  <2>1. \A i \in Shelves \ loose : Agrees(i, ledger[i])
    BY <1>3, <1>4 DEF LadderInv, Settled, Ticking
  <2>2. \A i \in Shelves \ loose : Agrees(i, ledger[i])' /\ Agrees(i, draft[i])'
    BY <1>3, <1>5, <2>1 DEF Agrees
  <2> QED
    BY <1>3, <2>2 DEF Settled
<1>9. Judged'
  <2>1. ASSUME NEW i \in Shelves, NEW s \in Shelves, carry'[s] = i
        PROVE  draft'[i].guard = Held(draft[i].refs)'
    <3>1. /\ draft'[i].refs = Evidence(shelf[s].members)
          /\ draft'[i].guard = Held(shelf[s].members)
      BY <1>1, <2>1, TickUpserts
    <3> QED
      BY <1>3, <3>1 DEF Held, Evidence, IsEvidence
  <2>2. todo' \subseteq Shelves
    BY <1>3
  <2> QED
    BY <2>1, <2>2 DEF Judged, Carried
<1>10. Followed'
  <2>1. SUFFICES ASSUME NEW s \in Shelves, NEW i, i = carry'[s], i # 0, i # s
                 PROVE  Recorded(s, i)'
    BY DEF Followed
  <2>2. i \in Shelves /\ i = Carrier(s, Resolved)
    BY <1>1, <1>2, <2>1 DEF TypeOK
  <2>3. <<s, i>> \in Resolved /\ s \in Candidates
    <3>1. s \in Candidates
      BY <1>1, <2>1, <2>2, CarrierIs
    <3>2. PICK j \in Shelves : <<s, j>> \in Resolved
      BY <1>1, <2>1, <2>2, <3>1, CarrierIs
    <3> QED
      BY <1>1, <2>2, <3>1, <3>2, CarrierIs
  <2>4. s \notin ById /\ s \notin Known
    <3>1. s \notin ById
      BY <1>1, <2>1, <2>2, CarrierIs, ResolvedOneToOne
    <3> QED
      BY <2>3, <3>1 DEF ById
  <2>5. \A t \in Shelves : carry'[t] # s
    <3> SUFFICES ASSUME NEW t \in Shelves, carry'[t] = s PROVE FALSE
      OBVIOUS
    <3>1. t # s /\ Carrier(t, Resolved) = s
      BY <1>2, <2>1
    <3>2. t \in Candidates
      BY <1>1, <1>4, <3>1, CarrierIs
    <3>3. PICK j \in Shelves : <<t, j>> \in Resolved
      BY <1>1, <3>1, <3>2, CarrierIs
    <3>4. j \in Known /\ j = s
      BY <1>1, <3>1, <3>3, CarrierIs
    <3> QED
      BY <2>4, <3>4
  <2>6. ledger[s].status = "none" /\ draft'[s] = ledger[s]
    BY <1>2, <2>4, <2>5 DEF Known
  <2>7. s \in draft'[i].aliases /\ i \in todo'
    <3>1. /\ (draft'[i].status = ledger[i].status /\ draft'[i].status # "none")
             \/ draft'[i].status = "forming"
          /\ ledger[i].aliases \subseteq draft'[i].aliases
          /\ <<s, i>> \in Adopted => s \in draft'[i].aliases
      BY <1>1, <2>1, <2>2, TickUpserts
    <3>2. CASE <<s, i>> \in Aliased
      <4>1. s \in ledger[i].aliases
        BY <1>1, <3>2, AliasedIsAlias
      <4> QED
        BY <1>3, <2>2, <3>1, <4>1
    <3>3. CASE <<s, i>> \in Adopted
      BY <1>3, <2>2, <3>1, <3>3
    <3>4. <<s, i>> \in Aliased \/ <<s, i>> \in Adopted
      BY <2>1, <2>3 DEF Resolved, Direct
    <3> QED
      BY <3>2, <3>3, <3>4
  <2>8. ledger'[s].status = "none" /\ s \notin todo'
    BY <1>3, <2>6
  <2> QED
    BY <2>7, <2>8 DEF Recorded
<1>11. OneCarrier'
  <2>1. \A s \in Shelves : carry'[s] = Carrier(s, Resolved)
    BY <1>2
  <2> QED
    BY <1>1, <2>1, CarrierOneToOne DEF OneCarrier
<1> QED
  BY <1>1, <1>6, <1>7, <1>8, <1>9, <1>10, <1>11 DEF LadderInv

-----------------------------------------------------------------------------
(* The writes of a tick *)

RowSet == [of : Shelves \union {0}, archived : BOOLEAN]

\* A row that is written is the only one, and not that of a pattern that does not
\* go by it.
LEMMA OneRow ==
  ASSUME LadderInv, NEW k \in 1 .. MaxRows, NEW row \in RowSet,
         rows' = [rows EXCEPT ![k] = row]
  PROVE  /\ rows' \in [1 .. MaxRows -> RowSet] /\ rows'[k] = row
         /\ \A j \in Shelves \ Users(k) : \A q \in {ledger[j], draft[j]} :
              q.knowledge # 0 => rows'[q.knowledge] = rows[q.knowledge]
<1>1. rows \in [1 .. MaxRows -> RowSet]
  BY DEF LadderInv, TypeOK, RowSet
<1>2. ASSUME NEW j \in Shelves \ Users(k), NEW q \in {ledger[j], draft[j]}, q.knowledge # 0
      PROVE  rows'[q.knowledge] = rows[q.knowledge]
  <2>1. q \in Patterns
    BY <1>2 DEF LadderInv, TypeOK
  <2>2. q.knowledge \in 1 .. MaxRows
    BY <1>2, <2>1, MindAssumption DEF Patterns
  <2>3. q.knowledge # k
    BY <1>2 DEF Users
  <2> QED
    BY <1>1, <2>2, <2>3
<1> QED
  BY <1>1, <1>2

\* A pattern is taken in hand, and whoever else goes by its row is loose.
LEMMA HandledKeeps ==
  ASSUME LadderInv, NEW i \in todo, NEW p \in Patterns, NEW place \in {"save", "archive"},
         step = "pick", Becomes(i, p, place),
         p.aliases = draft[i].aliases, p.refs = draft[i].refs, p.guard = draft[i].guard,
         rows' \in [1 .. MaxRows -> RowSet], loose' \subseteq Shelves,
         \A j \in Shelves \ {i} : j \notin loose' =>
           /\ j \notin loose
           /\ \A q \in {ledger[j], draft[j]} :
                q.knowledge # 0 => rows'[q.knowledge] = rows[q.knowledge],
         p.status = "hardened" => p.knowledge # 0,
         place = "archive" =>
           /\ p.status = "retired" /\ p.knowledge # 0
           /\ i \notin loose' => rows'[p.knowledge].of = i,
         place = "save" /\ i \notin loose' =>
           /\ p.status = "hardened" => rows'[p.knowledge] = [of |-> i, archived |-> FALSE]
           /\ p.status = "retired" /\ p.knowledge # 0 =>
                rows'[p.knowledge] = [of |-> i, archived |-> TRUE]
  PROVE  LadderInv'
<1>1. /\ i \in Shelves /\ todo \subseteq Shelves /\ i # 0 /\ cur = 0
      /\ draft \in [Shelves -> Patterns]
  BY MindAssumption DEF LadderInv, TypeOK, Ticking
<1>2. /\ draft' = [draft EXCEPT ![i] = p] /\ cur' = i /\ step' = place
      /\ ledger' = ledger /\ todo' = todo /\ carry' = carry /\ mem' = mem
      /\ now' = now /\ shelf' = shelf /\ grade' = grade /\ events' = events
  BY DEF Becomes, KeepWorld
<1>3. draft'[i] = p /\ \A j \in Shelves \ {i} : draft'[j] = draft[j]
  BY <1>1, <1>2
<1>4. TypeOK'
  BY <1>1, <1>2 DEF LadderInv, TypeOK, RowSet
<1>5. Ticking'
  BY <1>2, <1>3 DEF Ticking
<1>6. HaveRows'
  BY <1>1, <1>2, <1>3 DEF LadderInv, HaveRows, HasRow
<1>8. Settled'
  <2>1. ASSUME NEW j \in Shelves \ {i}, j \notin loose' PROVE Agrees(j, ledger[j])'
    <3>1. Agrees(j, ledger[j]) /\ HasRow(ledger[j])
      BY <1>1, <2>1, MindAssumption DEF LadderInv, Settled, HaveRows
    <3> QED
      BY <1>2, <2>1, <3>1 DEF Agrees, HasRow
  <2>2. ASSUME NEW j \in todo \ {i}, j \notin loose' PROVE Agrees(j, draft[j])'
    <3>1. Agrees(j, draft[j]) /\ HasRow(draft[j])
      BY <1>1, <2>2, MindAssumption DEF LadderInv, Settled, HaveRows
    <3> QED
      BY <1>1, <1>3, <2>2, <3>1 DEF Agrees, HasRow
  <2>3. place = "save" /\ i \notin loose' => Agrees(i, draft[i])'
    BY <1>3 DEF Agrees
  <2>4. place = "archive" /\ i \notin loose' => rows'[draft'[i].knowledge].of = i
    BY <1>3
  <2> QED
    BY <1>2, <2>1, <2>2, <2>3, <2>4 DEF Settled
<1>9. Judged'
  <2>1. ASSUME NEW j \in todo, Carried(j)' PROVE draft'[j].guard = Held(draft[j].refs)'
    <3>1. draft[j].guard = Held(draft[j].refs)
      BY <1>2, <2>1 DEF LadderInv, Judged, Carried
    <3>2. draft'[j].guard = draft[j].guard /\ draft'[j].refs = draft[j].refs
      BY <1>1, <1>3
    <3> QED
      BY <1>2, <3>1, <3>2 DEF Held, Evidence, IsEvidence
  <2> QED
    BY <1>2, <2>1 DEF Judged
<1>10. Followed'
  <2>1. \A j \in Shelves : draft'[j].aliases = draft[j].aliases
    BY <1>3
  <2> QED
    BY <1>1, <1>2, <2>1 DEF LadderInv, Followed, Recorded
<1>11. OneCarrier'
  BY <1>2 DEF LadderInv, OneCarrier
<1> QED
  BY <1>4, <1>5, <1>6, <1>8, <1>9, <1>10, <1>11 DEF LadderInv

\* What is known of a pattern that is next.
LEMMA NextIs ==
  ASSUME LadderInv, NEW i \in todo, step = "pick"
  PROVE  /\ i \in Shelves /\ i # 0 /\ draft[i] \in Patterns /\ HasRow(draft[i])
         /\ i \notin loose => Agrees(i, draft[i])
         /\ rows \in [1 .. MaxRows -> RowSet] /\ loose \subseteq Shelves
         /\ draft[i].knowledge # 0 => draft[i].knowledge \in 1 .. MaxRows
<1>1. /\ i \in Shelves /\ i # 0 /\ draft[i] \in Patterns /\ HasRow(draft[i])
      /\ rows \in [1 .. MaxRows -> RowSet] /\ loose \subseteq Shelves /\ cur = 0
  BY MindAssumption DEF LadderInv, TypeOK, HaveRows, Ticking, RowSet
<1>2. i \notin loose => Agrees(i, draft[i])
  BY <1>1 DEF LadderInv, Settled
<1>3. draft[i].knowledge # 0 => draft[i].knowledge \in 1 .. MaxRows
  BY <1>1, MindAssumption DEF Patterns
<1> QED
  BY <1>1, <1>2, <1>3

\* What the Mind's write of a row leaves.
LEMMA WrittenIs ==
  ASSUME LadderInv, NEW i \in Shelves, NEW k \in 1 .. MaxRows, WriteRow(k, i)
  PROVE  /\ rows' \in [1 .. MaxRows -> RowSet] /\ loose' \subseteq Shelves
         /\ rows'[k] = [of |-> i, archived |-> FALSE]
         /\ \A j \in Shelves \ {i} : j \notin loose' =>
              /\ j \notin loose
              /\ \A q \in {ledger[j], draft[j]} :
                   q.knowledge # 0 => rows'[q.knowledge] = rows[q.knowledge]
<1> DEFINE row == [of |-> i, archived |-> FALSE]
<1>1. rows' = [rows EXCEPT ![k] = row] /\ loose' = (loose \ {i}) \union (Users(k) \ {i})
  BY DEF WriteRow
<1>2. loose' \subseteq Shelves
  BY <1>1 DEF LadderInv, TypeOK, Users
<1>3. row \in RowSet
  BY DEF RowSet
<1> HIDE DEF row
<1>4. /\ rows' \in [1 .. MaxRows -> RowSet] /\ rows'[k] = row
      /\ \A j \in Shelves \ Users(k) : \A q \in {ledger[j], draft[j]} :
           q.knowledge # 0 => rows'[q.knowledge] = rows[q.knowledge]
  BY <1>1, <1>3, OneRow
<1>5. \A j \in Shelves \ {i} : j \notin loose' => j \notin loose /\ j \notin Users(k)
  BY <1>1
<1> QED
  BY <1>2, <1>4, <1>5 DEF row

LEMMA PromoteKeeps ==
  ASSUME LadderInv, NEW i \in todo, step = "pick", Promote(i)
  PROVE  LadderInv'
<1> DEFINE p == draft[i]
           k == IF p.knowledge # 0 THEN p.knowledge ELSE NewRow
           q == [p EXCEPT !.status = "hardened", !.knowledge = k, !.soft = FALSE]
<1>1. WriteRow(k, i) /\ Becomes(i, q, "save") /\ (p.knowledge # 0 \/ Free # {})
  BY DEF Promote
<1>2. i \in Shelves /\ p \in Patterns /\ (p.knowledge # 0 => p.knowledge \in 1 .. MaxRows)
  BY NextIs
<1>3. k \in 1 .. MaxRows /\ k # 0
  <2>1. CASE p.knowledge # 0
    BY <1>2, <2>1
  <2>2. CASE p.knowledge = 0
    <3>1. Free \in SUBSET (1 .. MaxRows) /\ Free # {}
      BY <1>1, <2>2 DEF Free
    <3>2. IsFiniteSet(1 .. MaxRows) /\ 1 .. MaxRows \subseteq Nat
      BY MindAssumption, FS_Interval
    <3>3. Free \in SUBSET Nat /\ IsFiniteSet(Free)
      BY <3>1, <3>2, FS_Subset
    <3>4. NewRow \in Free
      BY <3>1, <3>3, Extremes DEF NewRow
    <3> QED
      BY <2>2, <3>4 DEF Free
  <2> QED
    BY <2>1, <2>2
<1> HIDE DEF k
<1>4. /\ rows' \in [1 .. MaxRows -> RowSet] /\ loose' \subseteq Shelves
      /\ rows'[k] = [of |-> i, archived |-> FALSE]
      /\ \A j \in Shelves \ {i} : j \notin loose' =>
           /\ j \notin loose
           /\ \A r \in {ledger[j], draft[j]} :
                r.knowledge # 0 => rows'[r.knowledge] = rows[r.knowledge]
  BY <1>1, <1>2, <1>3, WrittenIs
<1>5. /\ q \in Patterns /\ q.status = "hardened" /\ q.knowledge = k
      /\ q.aliases = p.aliases /\ q.refs = p.refs /\ q.guard = p.guard
  <2>1. p \in Patterns /\ k \in 0 .. MaxRows
    BY <1>2, <1>3
  <2> HIDE DEF p
  <2> QED
    BY <2>1 DEF Patterns, Statuses
<1> HIDE DEF q
<1> QED
  BY <1>1, <1>3, <1>4, <1>5, HandledKeeps

\* HoldBack, Recover and Stay leave the rows alone.
LEMMA QuietKeeps ==
  ASSUME LadderInv, NEW i \in todo, step = "pick", HoldBack(i) \/ Recover(i) \/ Stay(i)
  PROVE  LadderInv'
<1>1. /\ i \in Shelves /\ draft[i] \in Patterns /\ HasRow(draft[i])
      /\ i \notin loose => Agrees(i, draft[i])
      /\ rows \in [1 .. MaxRows -> RowSet] /\ loose \subseteq Shelves
  BY NextIs
<1>2. PICK soft \in BOOLEAN : Becomes(i, [draft[i] EXCEPT !.soft = soft], "save")
  <2>1. CASE Recover(i)
    BY <2>1 DEF Recover
  <2>2. CASE HoldBack(i) \/ Stay(i)
    <3>1. draft[i] = [draft[i] EXCEPT !.soft = draft[i].soft] /\ draft[i].soft \in BOOLEAN
      BY <1>1 DEF Patterns
    <3> QED
      BY <2>2, <3>1 DEF HoldBack, Stay
  <2> QED
    BY <2>1, <2>2
<1>3. rows' = rows /\ loose' = loose
  BY DEF HoldBack, Recover, Stay
<1> DEFINE q == [draft[i] EXCEPT !.soft = soft]
<1>4. /\ q \in Patterns /\ q.status = draft[i].status /\ q.knowledge = draft[i].knowledge
      /\ q.aliases = draft[i].aliases /\ q.refs = draft[i].refs /\ q.guard = draft[i].guard
  BY <1>1 DEF Patterns
<1>5. Becomes(i, q, "save")
  BY <1>2
<1> HIDE DEF q
<1>6. q.status = "hardened" => q.knowledge # 0
  BY <1>1, <1>4 DEF HasRow
<1>7. i \notin loose' =>
        /\ q.status = "hardened" => rows'[q.knowledge] = [of |-> i, archived |-> FALSE]
        /\ q.status = "retired" /\ q.knowledge # 0 =>
             rows'[q.knowledge] = [of |-> i, archived |-> TRUE]
  BY <1>1, <1>3, <1>4 DEF Agrees
<1> QED
  BY <1>1, <1>3, <1>4, <1>5, <1>6, <1>7, HandledKeeps

\* Retire and Revise write the row again, which brings it back and out of the
\* archive.
LEMMA RewriteKeeps ==
  ASSUME LadderInv, NEW i \in todo, step = "pick", Retire(i) \/ Revise(i)
  PROVE  LadderInv'
<1> DEFINE p == draft[i]
           k == p.knowledge
<1>1. i \in Shelves /\ p \in Patterns /\ HasRow(p) /\ (k # 0 => k \in 1 .. MaxRows)
  BY NextIs
<1>2. p.status = "hardened" /\ WriteRow(k, i)
  BY DEF Retire, Revise
<1>3. k \in 1 .. MaxRows /\ k # 0
  BY <1>1, <1>2 DEF HasRow
<1>4. /\ rows' \in [1 .. MaxRows -> RowSet] /\ loose' \subseteq Shelves
      /\ rows'[k] = [of |-> i, archived |-> FALSE]
      /\ \A j \in Shelves \ {i} : j \notin loose' =>
           /\ j \notin loose
           /\ \A r \in {ledger[j], draft[j]} :
                r.knowledge # 0 => rows'[r.knowledge] = rows[r.knowledge]
  BY <1>1, <1>2, <1>3, WrittenIs
<1>8. CASE Retire(i)
  <2> DEFINE q == [p EXCEPT !.status = "retired"]
  <2>1. Becomes(i, q, "archive")
    BY <1>8 DEF Retire
  <2>2. /\ q \in Patterns /\ q.status = "retired" /\ q.knowledge = k
        /\ q.aliases = p.aliases /\ q.refs = p.refs /\ q.guard = p.guard
    BY <1>1 DEF Patterns, Statuses
  <2>3. rows'[k].of = i
    BY <1>4
  <2> HIDE DEF q
  <2> QED
    BY <1>3, <1>4, <2>1, <2>2, <2>3, HandledKeeps, Zenon
<1>9. CASE Revise(i)
  <2> DEFINE q == [p EXCEPT !.soft = TRUE]
  <2>1. Becomes(i, q, "save")
    BY <1>9 DEF Revise
  <2>2. /\ q \in Patterns /\ q.status = "hardened" /\ q.knowledge = k
        /\ q.aliases = p.aliases /\ q.refs = p.refs /\ q.guard = p.guard
    BY <1>1, <1>2 DEF Patterns
  <2> HIDE DEF q
  <2> QED
    BY <1>3, <1>4, <2>1, <2>2, HandledKeeps
<1> QED
  BY <1>8, <1>9

LEMMA CullKeeps ==
  ASSUME LadderInv, NEW i \in todo, step = "pick", Cull(i)
  PROVE  LadderInv'
<1>1. /\ i \in Shelves /\ todo \subseteq Shelves /\ cur = 0 /\ 0 \notin Shelves
      /\ ledger \in [Shelves -> Patterns]
  BY MindAssumption DEF LadderInv, TypeOK, Ticking
<1>2. /\ ledger' = [ledger EXCEPT ![i] = NoPattern] /\ todo' = todo \ {i}
      /\ rows' = rows /\ step' = step /\ cur' = cur /\ draft' = draft /\ loose' = loose
      /\ now' = now /\ mem' = mem /\ shelf' = shelf /\ carry' = carry
      /\ grade' = grade /\ events' = events
  BY DEF Cull, KeepWorld
<1>3. ledger'[i] = NoPattern /\ \A j \in Shelves \ {i} : ledger'[j] = ledger[j]
  BY <1>1, <1>2
<1>4. TypeOK'
  <2>1. ledger' \in [Shelves -> Patterns]
    BY <1>1, <1>2, NoPatternIs
  <2> QED
    BY <1>2, <2>1 DEF LadderInv, TypeOK
<1>5. Ticking'
  BY <1>1, <1>2 DEF LadderInv, Ticking
<1>6. HaveRows'
  BY <1>2, <1>3, NoPatternIs DEF LadderInv, HaveRows, HasRow
<1>7. Settled'
  <2>1. \A j \in Shelves \ loose : Agrees(j, ledger[j])'
    BY <1>1, <1>2, <1>3, NoPatternIs DEF LadderInv, Settled, Agrees
  <2>2. \A j \in todo' \ loose : Agrees(j, draft[j])'
    BY <1>1, <1>2 DEF LadderInv, Settled, Agrees
  <2> QED
    BY <1>2, <2>1, <2>2 DEF Settled
<1>8. Judged'
  BY <1>2 DEF LadderInv, Judged, Carried, Held, Evidence, IsEvidence
<1>9. Followed'
  <2>1. ASSUME NEW s \in Shelves, carry[s] \notin {0, s} PROVE Recorded(s, carry[s])'
    <3>1. Recorded(s, carry[s]) /\ carry[s] \in Shelves
      BY <2>1 DEF LadderInv, Followed, TypeOK
    <3>2. s # i
      BY <3>1 DEF Recorded
    <3> QED
      BY <1>2, <1>3, <3>1, <3>2, NoPatternIs DEF Recorded
  <2> QED
    BY <1>2, <2>1 DEF Followed
<1>10. OneCarrier'
  BY <1>2 DEF LadderInv, OneCarrier
<1> QED
  BY <1>4, <1>5, <1>6, <1>7, <1>8, <1>9, <1>10 DEF LadderInv

LEMMA ArchiveKeeps ==
  ASSUME LadderInv, Archive
  PROVE  LadderInv'
<1> DEFINE p == draft[cur]
           k == p.knowledge
           row == Archived(rows[k])
<1>1. /\ step = "archive" /\ cur \in todo /\ cur \in Shelves /\ cur # 0
      /\ p.status = "retired" /\ k # 0
      /\ p \in Patterns /\ rows \in [1 .. MaxRows -> RowSet] /\ loose \subseteq Shelves
  BY MindAssumption DEF Archive, LadderInv, TypeOK, Ticking, RowSet
<1>2. /\ rows' = [rows EXCEPT ![k] = row] /\ step' = "save"
      /\ loose' = loose \union (Users(k) \ {cur})
      /\ ledger' = ledger /\ cur' = cur /\ todo' = todo /\ draft' = draft
      /\ now' = now /\ mem' = mem /\ shelf' = shelf /\ carry' = carry
      /\ grade' = grade /\ events' = events
  BY DEF Archive, KeepWorld
<1>3. k \in 1 .. MaxRows
  BY <1>1, MindAssumption DEF Patterns
<1>4. row \in RowSet /\ (rows[k].of = cur => row = [of |-> cur, archived |-> TRUE])
  <2>1. rows[k] \in RowSet
    BY <1>1, <1>3
  <2> QED
    BY <2>1 DEF Archived, RowSet
<1> HIDE DEF row
<1>5. /\ rows' \in [1 .. MaxRows -> RowSet] /\ rows'[k] = row
      /\ \A j \in Shelves \ Users(k) : \A q \in {ledger[j], draft[j]} :
           q.knowledge # 0 => rows'[q.knowledge] = rows[q.knowledge]
  BY <1>2, <1>3, <1>4, OneRow
<1>6. TypeOK'
  <2>1. loose' \subseteq Shelves
    BY <1>1, <1>2 DEF Users
  <2> QED
    BY <1>2, <1>5, <2>1 DEF LadderInv, TypeOK, RowSet
<1>7. Ticking'
  BY <1>1, <1>2 DEF Ticking
<1>8. HaveRows'
  BY <1>2 DEF LadderInv, HaveRows, HasRow
<1>9. Settled'
  <2>1. ASSUME NEW j \in Shelves \ {cur}, j \notin loose'
        PROVE  Agrees(j, ledger[j])' /\ (j \in todo => Agrees(j, draft[j])')
    <3>1. /\ Agrees(j, ledger[j]) /\ HasRow(ledger[j]) /\ HasRow(draft[j])
          /\ (j \in todo => Agrees(j, draft[j])) /\ j \notin Users(k)
      BY <1>2, <2>1 DEF LadderInv, Settled, HaveRows
    <3> QED
      BY <1>2, <1>5, <3>1 DEF Agrees, HasRow
  <2>2. cur \notin loose' => Agrees(cur, draft[cur])'
    <3>1. cur \notin loose => rows[k].of = cur
      BY <1>1 DEF LadderInv, Settled
    <3> QED
      BY <1>1, <1>2, <1>4, <1>5, <3>1 DEF Agrees
  <2>3. todo \subseteq Shelves
    BY DEF LadderInv, TypeOK
  <2> QED
    BY <1>2, <2>1, <2>2, <2>3 DEF Settled
<1>10. Judged'
  BY <1>2 DEF LadderInv, Judged, Carried, Held, Evidence, IsEvidence
<1>11. Followed' /\ OneCarrier'
  BY <1>2 DEF LadderInv, Followed, Recorded, OneCarrier
<1> QED
  BY <1>6, <1>7, <1>8, <1>9, <1>10, <1>11 DEF LadderInv

LEMMA SaveKeeps ==
  ASSUME LadderInv, Save
  PROVE  LadderInv'
<1>1. /\ cur \in todo /\ todo \subseteq Shelves /\ 0 \notin Shelves /\ draft[cur] \in Patterns
      /\ ledger \in [Shelves -> Patterns]
  BY MindAssumption DEF Save, LadderInv, TypeOK, Ticking
<1>2. /\ step = "save" /\ ledger' = [ledger EXCEPT ![cur] = draft[cur]] /\ todo' = todo \ {cur}
      /\ step' = "pick" /\ cur' = 0 /\ rows' = rows /\ draft' = draft /\ loose' = loose
      /\ now' = now /\ mem' = mem /\ shelf' = shelf /\ carry' = carry
      /\ grade' = grade /\ events' = events
  BY DEF Save, KeepWorld
<1>3. ledger'[cur] = draft[cur] /\ \A j \in Shelves \ {cur} : ledger'[j] = ledger[j]
  BY <1>1, <1>2
<1>4. TypeOK'
  BY <1>1, <1>2 DEF LadderInv, TypeOK
<1>5. Ticking'
  BY <1>2 DEF Ticking
<1>6. HaveRows'
  BY <1>2, <1>3 DEF LadderInv, HaveRows, HasRow
<1>7. Settled'
  <2>1. ASSUME NEW j \in Shelves \ loose PROVE Agrees(j, ledger[j])'
    <3>1. Agrees(j, ledger'[j])
      BY <1>1, <1>2, <1>3, <2>1 DEF LadderInv, Settled
    <3> QED
      BY <1>2, <3>1 DEF Agrees
  <2>2. \A j \in todo' \ loose : Agrees(j, draft[j])'
    BY <1>2 DEF LadderInv, Settled, Agrees
  <2> QED
    BY <1>2, <2>1, <2>2 DEF Settled
<1>8. Judged'
  BY <1>2 DEF LadderInv, Judged, Carried, Held, Evidence, IsEvidence
<1>9. Followed'
  <2>1. ASSUME NEW s \in Shelves, carry[s] \notin {0, s} PROVE Recorded(s, carry[s])'
    <3>1. Recorded(s, carry[s]) /\ carry[s] \in Shelves
      BY <2>1 DEF LadderInv, Followed, TypeOK
    <3>2. s # cur
      BY <1>1, <3>1 DEF Recorded
    <3> QED
      BY <1>1, <1>2, <1>3, <3>1, <3>2 DEF Recorded
  <2> QED
    BY <1>2, <2>1 DEF Followed
<1>10. OneCarrier'
  BY <1>2 DEF LadderInv, OneCarrier
<1> QED
  BY <1>4, <1>5, <1>6, <1>7, <1>8, <1>9, <1>10 DEF LadderInv

\* What a kill leaves, and the end of a tick.
LEMMA EndKeeps ==
  ASSUME LadderInv, Done \/ Crash
  PROVE  LadderInv'
<1>1. /\ step' = "idle" /\ cur' = 0 /\ todo' = {} /\ draft' = NoDraft /\ grade' = NoGrade
      /\ ledger' = ledger /\ rows' = rows /\ now' = now /\ mem' = mem /\ shelf' = shelf
      /\ loose \subseteq loose' /\ loose' \subseteq Shelves /\ events' \in 0 .. MaxEvents
      /\ \A i \in Shelves : i # cur \/ i \in loose'
  <2>1. /\ cur \in Shelves \union {0} /\ loose \subseteq Shelves /\ 0 \notin Shelves
        /\ events \in 0 .. MaxEvents /\ MaxEvents \in Nat
    BY MindAssumption DEF LadderInv, TypeOK
  <2>2. CASE Done
    <3>1. cur = 0 /\ loose' = loose /\ todo = {}
      BY <2>2 DEF Done, LadderInv, Ticking
    <3> QED
      BY <2>1, <2>2, <3>1 DEF Done
  <2>3. CASE Crash
    <3>1. loose' = loose \union ({cur} \ {0}) /\ events < MaxEvents /\ events' = events + 1
      BY <2>3 DEF Crash, Happens
    <3>2. loose \subseteq loose' /\ loose' \subseteq Shelves /\ events' \in 0 .. MaxEvents
      BY <2>1, <3>1
    <3>3. \A i \in Shelves : i # cur \/ i \in loose'
      BY <2>1, <3>1
    <3> QED
      BY <2>3, <3>2, <3>3 DEF Crash
  <2> QED
    BY <2>2, <2>3
<1>2. /\ carry' \in [Shelves -> Shelves \union {0}]
      /\ \A s \in Shelves : carry'[s] = 0 \/ (carry'[s] = carry[s] /\ carry[s] \notin todo)
  BY DEF Done, Crash, LadderInv, TypeOK
<1>3. TypeOK'
  BY <1>1, <1>2, NoPatternIs DEF LadderInv, TypeOK
<1>4. Ticking'
  BY <1>1 DEF Ticking
<1>5. HaveRows'
  BY <1>1, NoPatternIs DEF LadderInv, HaveRows, HasRow
<1>6. Settled'
  BY <1>1 DEF LadderInv, Settled, Agrees
<1>7. Judged'
  BY <1>1 DEF Judged
<1>8. Followed'
  BY <1>1, <1>2 DEF LadderInv, Followed, Recorded
<1>9. OneCarrier'
  BY <1>2 DEF LadderInv, OneCarrier
<1> QED
  BY <1>3, <1>4, <1>5, <1>6, <1>7, <1>8, <1>9 DEF LadderInv

LEMMA WorldKeeps ==
  ASSUME LadderInv, World
  PROVE  LadderInv'
<1>1. KeepMind /\ step = "idle" /\ events' \in 0 .. MaxEvents
  BY MindAssumption DEF World, Happens, Day, Withdraw, Write, Shelve, SetShelf, LadderInv, TypeOK
<1>2. /\ now' \in Days
      /\ mem' \in [Memories -> [here : BOOLEAN, at : Days, touchy : BOOLEAN]]
      /\ shelf' \in [Shelves -> [made : BOOLEAN, live : BOOLEAN, members : SUBSET Memories,
                                 theme : Themes]]
  <2>0. /\ now \in Days /\ 0 \in Days
        /\ mem \in [Memories -> [here : BOOLEAN, at : Days, touchy : BOOLEAN]]
        /\ shelf \in [Shelves -> [made : BOOLEAN, live : BOOLEAN, members : SUBSET Memories,
                                  theme : Themes]]
    BY MindAssumption DEF LadderInv, TypeOK, Days
  <2>1. CASE Day
    BY <2>0, <2>1, MindAssumption DEF Day, Days
  <2>2. ASSUME NEW m \in Memories, Withdraw(m) PROVE <1>2!1 /\ <1>2!2 /\ <1>2!3
    BY <2>0, <2>2 DEF Withdraw
  <2>3. ASSUME NEW m \in Memories, NEW touchy \in Touchy, Write(m, touchy)
        PROVE <1>2!1 /\ <1>2!2 /\ <1>2!3
    BY <2>0, <2>3, MindAssumption DEF Write
  <2>4. ASSUME NEW s \in Shelves, NEW ms \in SUBSET Memories, NEW theme \in Themes,
               Shelve(s, ms, theme)
        PROVE <1>2!1 /\ <1>2!2 /\ <1>2!3
    BY <2>0, <2>4 DEF Shelve
  <2>5. ASSUME NEW s \in Shelves, NEW live \in BOOLEAN, SetShelf(s, live)
        PROVE <1>2!1 /\ <1>2!2 /\ <1>2!3
    BY <2>0, <2>5 DEF SetShelf
  <2> QED
    BY <2>1, <2>2, <2>3, <2>4, <2>5 DEF World
<1>3. TypeOK'
  BY <1>1, <1>2 DEF KeepMind, LadderInv, TypeOK
<1>4. Ticking' /\ HaveRows' /\ Settled' /\ Followed' /\ OneCarrier'
  BY <1>1 DEF KeepMind, LadderInv, Ticking, HaveRows, HasRow, Settled, Agrees, Followed,
              Recorded, OneCarrier
<1>5. Judged'
  BY <1>1 DEF KeepMind, LadderInv, Ticking, Judged
<1> QED
  BY <1>3, <1>4, <1>5 DEF LadderInv

\* Whoever goes by the row that the keyholder acts on is loose.
LEMMA KeyholderKeeps ==
  ASSUME LadderInv, Keyholder
  PROVE  LadderInv'
<1>1. PICK k \in 1 .. MaxRows, row \in RowSet : SetRow(k, row)
  <2>1. rows \in [1 .. MaxRows -> RowSet]
    BY DEF LadderInv, TypeOK, RowSet
  <2>2. \A k \in 1 .. MaxRows : /\ \A archived \in BOOLEAN :
                                   [rows[k] EXCEPT !.archived = archived] \in RowSet
                              /\ [rows[k] EXCEPT !.of = 0] \in RowSet
    BY <2>1 DEF RowSet
  <2> QED
    BY <2>2 DEF Keyholder
<1>2. /\ rows' = [rows EXCEPT ![k] = row] /\ loose' = loose \union Users(k)
      /\ now' = now /\ mem' = mem /\ shelf' = shelf /\ ledger' = ledger /\ step' = step
      /\ cur' = cur /\ todo' = todo /\ draft' = draft /\ grade' = grade /\ carry' = carry
  BY <1>1 DEF SetRow
<1>3. events' \in 0 .. MaxEvents
  BY MindAssumption DEF Keyholder, Happens, LadderInv, TypeOK
<1>4. /\ rows' \in [1 .. MaxRows -> RowSet]
      /\ \A j \in Shelves \ Users(k) : \A q \in {ledger[j], draft[j]} :
           q.knowledge # 0 => rows'[q.knowledge] = rows[q.knowledge]
  BY <1>2, OneRow
<1>5. TypeOK'
  <2>1. loose' \subseteq Shelves
    BY <1>2 DEF LadderInv, TypeOK, Users
  <2> QED
    BY <1>2, <1>3, <1>4, <2>1 DEF LadderInv, TypeOK, RowSet
<1>6. Ticking' /\ HaveRows'
  BY <1>2 DEF LadderInv, Ticking, HaveRows, HasRow
<1>7. Settled'
  <2>1. ASSUME NEW j \in Shelves, j \notin loose'
        PROVE  /\ j # cur => Agrees(j, ledger[j])'
               /\ j \in todo /\ (j # cur \/ step = "save") => Agrees(j, draft[j])'
    <3>1. /\ j # cur => Agrees(j, ledger[j])
          /\ j \in todo /\ (j # cur \/ step = "save") => Agrees(j, draft[j])
          /\ HasRow(ledger[j]) /\ HasRow(draft[j]) /\ j \notin Users(k)
      BY <1>2, <2>1 DEF LadderInv, Settled, HaveRows
    <3> QED
      BY <1>2, <1>4, <3>1 DEF Agrees, HasRow
  <2>2. step = "archive" /\ cur \notin loose' => rows'[draft[cur].knowledge].of = cur
    <3> SUFFICES ASSUME step = "archive", cur \notin loose'
                 PROVE  rows'[draft[cur].knowledge].of = cur
      OBVIOUS
    <3>1. cur \in Shelves /\ draft[cur].knowledge # 0 /\ rows[draft[cur].knowledge].of = cur
      BY <1>2 DEF LadderInv, Ticking, Settled, TypeOK
    <3> QED
      BY <1>2, <1>4, <3>1
  <2>3. todo \subseteq Shelves
    BY DEF LadderInv, TypeOK
  <2> QED
    BY <1>2, <2>1, <2>2, <2>3 DEF Settled
<1>8. Judged' /\ Followed' /\ OneCarrier'
  BY <1>2 DEF LadderInv, Judged, Carried, Held, Evidence, IsEvidence, Followed, Recorded,
              OneCarrier
<1> QED
  BY <1>5, <1>6, <1>7, <1>8 DEF LadderInv

LEMMA LadderStep == LadderInv /\ [Next]_vars => LadderInv'
<1> SUFFICES ASSUME LadderInv, [Next]_vars PROVE LadderInv'
  OBVIOUS
<1>1. CASE Pick
  <2>1. PICK i \in todo : \/ Promote(i) \/ HoldBack(i) \/ Retire(i) \/ Revise(i)
                          \/ Recover(i) \/ Cull(i) \/ Stay(i)
    BY <1>1 DEF Pick
  <2>2. step = "pick"
    BY <1>1 DEF Pick
  <2> QED
    BY <2>1, <2>2, PromoteKeeps, QuietKeeps, RewriteKeeps, CullKeeps
<1>2. CASE UNCHANGED vars
  BY <1>2 DEF vars, LadderInv, TypeOK, Ticking, HaveRows, HasRow, Settled, Agrees, Judged,
              Carried, Held, Evidence, IsEvidence, Followed, Recorded, OneCarrier
<1> QED
  BY <1>1, <1>2, TickKeeps, ArchiveKeeps, SaveKeeps, EndKeeps, WorldKeeps, KeyholderKeeps DEF Next, Mind

LEMMA LadderStarts == Init => LadderInv
<1> SUFFICES ASSUME Init PROVE LadderInv
  OBVIOUS
<1>1. TypeOK
  BY MindAssumption, NoPatternIs DEF Init, TypeOK, Days, Absent
<1>2. Ticking /\ HaveRows /\ Settled /\ Judged /\ Followed /\ OneCarrier
  BY NoPatternIs DEF Init, Ticking, HaveRows, HasRow, Settled, Agrees, Judged, Followed, OneCarrier
<1> QED
  BY <1>1, <1>2 DEF LadderInv

LEMMA LadderAlways == Spec => []LadderInv
BY LadderStarts, LadderStep, PTL DEF Spec

-----------------------------------------------------------------------------

\* Whatever ticks, kills, memories and shelves come, every variable keeps its
\* shape; and confidence is a percentage (Confidence, mindTick).
THEOREM TypeCorrect == Spec => []TypeOK
<1>1. LadderInv => TypeOK
  BY DEF LadderInv
<1> QED
  BY <1>1, LadderAlways, PTL

\* One pattern is carried by one shelf at most: what adoptionClaims decides, what
\* aliases say and what a shelf's own name says never give one pattern to two.
THEOREM CarriedByOne == Spec => []OneCarrier
<1>1. LadderInv => OneCarrier
  BY DEF LadderInv
<1> QED
  BY <1>1, LadderAlways, PTL

\* Between ticks a hardened pattern's row is there, its own and out of the archive,
\* and a retired one's is its own and in it, from the Mind's last write of that row
\* (Promote, Revise, Retire) until a kill, the keyholder or another pattern comes
\* between; and the Mind's next write of it makes them agree again.
THEOREM RowsAgree == Spec => []RowsMatchLedger
<1>1. LadderInv => RowsMatchLedger
  <2> SUFFICES ASSUME LadderInv, step = "idle", NEW i \in Shelves \ loose
               PROVE  Agrees(i, ledger[i]) /\ HasRow(ledger[i])
    BY DEF RowsMatchLedger, Agrees, HasRow
  <2>1. i # cur
    BY MindAssumption DEF LadderInv, Ticking
  <2> QED
    BY <2>1 DEF LadderInv, Settled, HaveRows
<1> QED
  BY <1>1, LadderAlways, PTL

\* A shelf keeps its pattern from tick to tick unless another shelf of that
\* pattern's is back: the ledger has it as an alias (Recorded), and so far as no
\* other pattern does, it is the one that the tick finds.
THEOREM IdentityIsStable == Spec => StableIdentity
<1> DEFINE Stays(s, i) ==
      (/\ i \in Known /\ \A j \in Known \ {i} : s \notin ledger[j].aliases
       /\ \A t \in Candidates \ {s} : t # i /\ t \notin ledger[i].aliases)
      => carry'[s] = i
<1>1. LadderInv /\ [Next]_vars => [Tick => \A s \in Candidates : Stays(s, carry[s])]_vars
  <2> SUFFICES ASSUME LadderInv, Tick, NEW s \in Candidates, NEW i, i = carry[s],
                      i \in Known, \A j \in Known \ {i} : s \notin ledger[j].aliases,
                      \A t \in Candidates \ {s} : t # i /\ t \notin ledger[i].aliases
               PROVE  carry'[s] = i
    OBVIOUS
  <2>1. s \in Shelves /\ i \in Shelves /\ i # 0
    BY MindAssumption DEF Candidates, Known
  <2>2. TypeOK /\ carry'[s] = Carrier(s, Resolved)
    BY <2>1, TickFinds DEF LadderInv
  <2>3. CASE s = i
    <3>1. s \in ById
      BY <2>3 DEF ById
    <3>2. <<s, i>> \in Resolved
      BY <2>2, <2>3, <3>1, ResolvedOneToOne
    <3> QED
      BY <2>1, <2>2, <3>2, CarrierIs
  <2>4. CASE s # i
    <3>1. s \notin Known /\ s \in ledger[i].aliases
      <4>1. Recorded(s, i) /\ todo = {}
        BY <2>1, <2>4 DEF LadderInv, Followed, Ticking, Tick
      <4> QED
        BY <4>1 DEF Recorded, Known
    <3>2. s \in Candidates \ ById /\ i \in Known \ ById
      BY <2>4, <3>1 DEF ById
    <3>3. Namesakes(s) = {i}
      BY <3>1 DEF Namesakes
    <3>4. {i} \in SUBSET Nat /\ IsFiniteSet({i})
      BY <2>1, MindAssumption, FS_Singleton
    <3>5. Max({i}) = i
      BY <3>4, Extremes
    <3>6. <<s, i>> \in ByAlias
      BY <3>2, <3>3, <3>5 DEF ByAlias
    <3>7. ASSUME NEW other \in ByAlias, other[2] = i PROVE other[1] = s
      <4>1. other[1] \in Candidates /\ Namesakes(other[1]) # {} /\ i = Max(Namesakes(other[1]))
        BY <3>7 DEF ByAlias
      <4>2. Namesakes(other[1]) \in SUBSET Shelves
        BY DEF Namesakes, Known
      <4>3. Namesakes(other[1]) \in SUBSET Nat /\ IsFiniteSet(Namesakes(other[1]))
        BY <4>2, MindAssumption, FS_Subset
      <4>4. i \in Namesakes(other[1])
        BY <4>1, <4>3, Extremes
      <4> QED
        BY <4>1, <4>4 DEF Namesakes
    <3>8. s <= s
      BY <2>1, MindAssumption
    <3>9. <<s, i>> \in Aliased
      BY <3>6, <3>7, <3>8 DEF Aliased
    <3>10. <<s, i>> \in Resolved
      BY <3>9 DEF Resolved, Direct
    <3> QED
      BY <2>1, <2>2, <3>10, CarrierIs
  <2> QED
    BY <2>3, <2>4
<1>2. Spec => [][Next]_vars
  BY PTL DEF Spec
<1>3. Spec => [][Tick => \A s \in Candidates : Stays(s, carry[s])]_vars
  BY <1>1, <1>2, LadderAlways, PTL
<1> QED
  BY <1>3 DEF StableIdentity

\* A pattern that a live shelf carries never hardens over evidence that the Guard
\* holds back: its verdict is derived from that shelf in the same tick.
THEOREM GuardsWhatIsCarried == Spec => CarriedAreGuarded
<1>1. LadderInv /\ [Next]_vars =>
        [\A i \in Shelves : Hardens(i) /\ Carried(i) => ~Held(draft[i].refs)]_vars
  <2> SUFFICES ASSUME LadderInv, Next, NEW i \in Shelves, Hardens(i), Carried(i)
               PROVE  ~Held(draft[i].refs)
    OBVIOUS
  <2>1. draft[i].status = "forming" /\ draft'[i].status = "hardened"
    BY DEF Hardens
  <2>2. PICK j \in todo : step = "pick" /\ Promote(j) /\ j = i
    <3>1. draft' # draft /\ draft'[i] # NoPattern
      BY <2>1, NoPatternIs
    <3>2. step # "idle"
      BY <2>1, NoPatternIs DEF LadderInv, Ticking
    <3>3. Pick
      BY <3>1, <3>2, NoPatternIs DEF Next, Mind, Tick, Archive, Save, Done, Crash, World, KeepMind,
                                Keyholder, SetRow
    <3>4. PICK j \in todo : \/ Promote(j) \/ HoldBack(j) \/ Retire(j) \/ Revise(j)
                            \/ Recover(j) \/ Cull(j) \/ Stay(j)
      BY <3>3 DEF Pick
    <3>5. j \in Shelves /\ draft \in [Shelves -> Patterns]
      BY DEF LadderInv, TypeOK
    <3>6. j = i
      BY <2>1, <3>4, <3>5 DEF Promote, HoldBack, Retire, Revise, Recover, Cull, Stay, Becomes
    <3>7. ~(HoldBack(j) \/ Retire(j) \/ Revise(j) \/ Recover(j) \/ Cull(j) \/ Stay(j))
      BY <2>1, <3>5, <3>6 DEF HoldBack, Retire, Revise, Recover, Cull, Stay, Becomes, Patterns
    <3> QED
      BY <3>3, <3>4, <3>6, <3>7 DEF Pick
  <2>3. ~draft[i].guard /\ draft[i].guard = Held(draft[i].refs)
    BY <2>2 DEF Promote, LadderInv, Judged
  <2> QED
    BY <2>3
<1>2. Spec => [][Next]_vars
  BY PTL DEF Spec
<1>3. Spec => [][\A i \in Shelves : Hardens(i) /\ Carried(i) => ~Held(draft[i].refs)]_vars
  BY <1>1, <1>2, LadderAlways, PTL
<1> QED
  BY <1>3 DEF CarriedAreGuarded
=============================================================================
