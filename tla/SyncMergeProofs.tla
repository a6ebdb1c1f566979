--------------------------- MODULE SyncMergeProofs ---------------------------
(***************************************************************************)
(* Proofs about SyncMerge for any number of devices, contents, writers and *)
(* edits.                                                                  *)
(***************************************************************************)
EXTENDS SyncMerge, TLAPS

-----------------------------------------------------------------------------
(* Version vectors *)

\* The join of two histories is a history that includes both, and no matter
\* which device computes it, it is the same.
LEMMA JoinIncludes ==
  ASSUME NEW a \in Vectors, NEW b \in Vectors
  PROVE  /\ Join(a, b) \in Vectors
         /\ Includes(Join(a, b), a) /\ Includes(Join(a, b), b)
         /\ Join(a, b) = Join(b, a)
<1>1. \A d \in Devices : a[d] \in Nat /\ b[d] \in Nat
  BY DEF Vectors
<1> QED
  BY <1>1 DEF Join, Includes, Vectors

\* Nothing smaller includes both: a merge invents no history.
LEMMA JoinLeast ==
  ASSUME NEW a \in Vectors, NEW b \in Vectors, NEW c \in Vectors,
         Includes(c, a), Includes(c, b)
  PROVE  Includes(c, Join(a, b))
  BY DEF Join, Includes, Vectors

\* Two histories that include each other are one.
LEMMA IncludesBoth ==
  ASSUME NEW a \in Vectors, NEW b \in Vectors, Includes(a, b), Includes(b, a)
  PROVE  a = b
<1>1. \A d \in Devices : a[d] \in Nat /\ b[d] \in Nat
  BY DEF Vectors
<1>2. ASSUME NEW d \in Devices PROVE a[d] = b[d]
  <2>1. a[d] <= b[d] /\ b[d] <= a[d]
    BY DEF Includes
  <2> QED
    BY <1>1, <2>1
<1> QED
  BY <1>2 DEF Vectors

\* An edit is one more event, and only of its own device.
LEMMA BumpIncludes ==
  ASSUME NEW a \in Vectors, NEW d \in Devices
  PROVE  /\ Bump(a, d) \in Vectors
         /\ Includes(Bump(a, d), a)
         /\ \A e \in Devices \ {d} : Bump(a, d)[e] = a[e]
<1>1. \A e \in Devices : a[e] \in Nat
  BY DEF Vectors
<1> QED
  BY <1>1 DEF Bump, Includes, Vectors

-----------------------------------------------------------------------------
(* Merging one row *)

\* A merge makes a row of two rows.
LEMMA MergedType ==
  ASSUME NEW ex \in Rows, NEW in \in Rows, NEW policy
  PROVE  /\ Received(in, policy) \in Rows
         /\ Merged(ex, in, policy) \in Rows
<1>1. ImportTier(in.tier, policy) \in Tiers
  BY DEF ImportTier, Rows, Tiers
<1>2. Received(in, policy) \in Rows
  BY <1>1 DEF Received, Rows
<1>3. Join(ex.vv, in.vv) \in Vectors
  BY JoinIncludes DEF Rows
<1>4. \A r \in Rows : [r EXCEPT !.vv = Join(ex.vv, in.vv)] \in Rows /\ Survivor(r, ex, in) \in Rows
  BY <1>3 DEF Rows, Survivor
<1> QED
  BY <1>2, <1>4 DEF Merged

\* A row that comes in stays in some form, and so does the row it meets.
LEMMA MergedPresent ==
  ASSUME NEW ex \in Rows, NEW in \in Rows, NEW policy, Present(in)
  PROVE  Present(Merged(ex, in, policy))
<1>1. Received(in, policy).st = in.st /\ Received(in, policy) \in Rows
  BY MergedType DEF Received, Rows
<1>2. \A r \in Rows : Survivor(r, ex, in).st = "live"
  BY DEF Survivor, Rows
<1>3. CASE IncomingAhead(ex, in)
  <2>1. ~Diverged(ex, in)
    BY <1>3 DEF IncomingAhead, Diverged, Dominates, Concurrent
  <2> QED
    BY <1>1, <1>3, <2>1 DEF Merged, Present
<1>4. CASE ~IncomingAhead(ex, in) /\ Diverged(ex, in) /\ ~SameOutcome(ex, in)
  BY <1>1, <1>2, <1>4 DEF Merged, Present
<1>5. CASE ~IncomingAhead(ex, in) /\ ~(Diverged(ex, in) /\ ~SameOutcome(ex, in))
  <2>1. Present(ex)
    BY <1>5 DEF IncomingAhead
  <2>2. [ex EXCEPT !.vv = Join(ex.vv, in.vv)].st = ex.st
    BY DEF Rows
  <2> QED
    BY <1>5, <2>1, <2>2 DEF Merged, Present
<1> QED
  BY <1>3, <1>4, <1>5

\* Under a divergence both histories are taken over, whoever wins.
LEMMA MergedJoins ==
  ASSUME NEW ex \in Rows, NEW in \in Rows, NEW policy,
         ~IncomingAhead(ex, in), Diverged(ex, in)
  PROVE  Merged(ex, in, policy).vv = Join(ex.vv, in.vv)
<1>1. Received(in, policy) \in Rows
  BY MergedType
<1>2. \A r \in Rows : /\ [r EXCEPT !.vv = Join(ex.vv, in.vv)].vv = Join(ex.vv, in.vv)
                      /\ Survivor(r, ex, in).vv = Join(ex.vv, in.vv)
  BY DEF Rows, Survivor
<1> QED
  BY <1>1, <1>2 DEF Merged

\* What a merge does with the vectors: the result includes the local history,
\* and knows of nothing that neither side knew.
LEMMA MergedVector ==
  ASSUME NEW ex \in Rows, NEW in \in Rows, NEW policy,
         Present(ex) \/ ex.vv = Zero
  PROVE  /\ Merged(ex, in, policy).vv \in {ex.vv, in.vv, Join(ex.vv, in.vv)}
         /\ Includes(Merged(ex, in, policy).vv, ex.vv)
<1> DEFINE m == Merged(ex, in, policy)
<1>1. ex.vv \in Vectors /\ in.vv \in Vectors
  BY DEF Rows
<1>2. Includes(ex.vv, ex.vv) /\ Includes(Join(ex.vv, in.vv), ex.vv)
  BY <1>1, JoinIncludes DEF Includes, Vectors
<1>3. CASE IncomingAhead(ex, in)
  <2>1. m.vv = in.vv
    <3>1. ~Diverged(ex, in)
      BY <1>3 DEF IncomingAhead, Diverged, Dominates, Concurrent
    <3>2. m = Received(in, policy)
      BY <1>3, <3>1 DEF Merged
    <3> QED
      BY <3>2 DEF Received, Rows
  <2>2. Includes(in.vv, ex.vv)
    <3>1. CASE ex.vv = Zero
      <4> SUFFICES ASSUME NEW d \in Devices PROVE ex.vv[d] <= in.vv[d]
        BY DEF Includes
      <4>1. in.vv[d] \in Nat
        BY <1>1 DEF Vectors
      <4>2. ex.vv[d] = 0
        BY <3>1 DEF Zero
      <4> QED
        BY <4>1, <4>2
    <3>2. CASE Dominates(in.vv, ex.vv)
      BY <3>2 DEF Dominates
    <3> QED
      BY <1>3, <3>1, <3>2 DEF IncomingAhead
  <2> QED
    BY <2>1, <2>2
<1>4. CASE Diverged(ex, in) /\ ~IncomingAhead(ex, in)
  <2>1. m.vv = Join(ex.vv, in.vv)
    BY <1>4, MergedJoins
  <2> QED
    BY <2>1, <1>2
<1>5. CASE ~Diverged(ex, in) /\ ~IncomingAhead(ex, in)
  <2>1. m = ex
    BY <1>5 DEF Merged
  <2> QED
    BY <2>1, <1>2
<1> QED
  BY <1>3, <1>4, <1>5

\* Two devices that merge each other's row end up with the same winner, the
\* same liveness and the same vector, unless the two vectors are the same.
THEOREM MergeIsSymmetric ==
  ASSUME NEW x \in Rows, NEW y \in Rows, NEW p, NEW q,
         Present(x), Present(y), x.vv # y.vv
  PROVE  Agree(Merged(x, y, p), Merged(y, x, q))
<1>1. x.vv \in Vectors /\ y.vv \in Vectors
  BY DEF Rows
<1>2. Received(y, p).st = y.st /\ Received(y, p).content = y.content /\ Received(y, p).vv = y.vv
  BY DEF Received, Rows
<1>3. Received(x, q).st = x.st /\ Received(x, q).content = x.content /\ Received(x, q).vv = x.vv
  BY DEF Received, Rows
<1>4. Join(x.vv, y.vv) = Join(y.vv, x.vv)
  BY <1>1, JoinIncludes
<1>5. ~(Includes(x.vv, y.vv) /\ Includes(y.vv, x.vv))
  BY <1>1, IncludesBoth
<1>6. CASE Dominates(y.vv, x.vv)
  <2>1. Merged(x, y, p) = Received(y, p)
    BY <1>6 DEF Merged, IncomingAhead, Diverged, Dominates, Concurrent
  <2>2. Merged(y, x, q) = y
    BY <1>6 DEF Merged, IncomingAhead, Diverged, Dominates, Concurrent
  <2> QED
    BY <2>1, <2>2, <1>2 DEF Agree
<1>7. CASE Dominates(x.vv, y.vv)
  <2>1. Merged(y, x, q) = Received(x, q)
    BY <1>7 DEF Merged, IncomingAhead, Diverged, Dominates, Concurrent
  <2>2. Merged(x, y, p) = x
    BY <1>7 DEF Merged, IncomingAhead, Diverged, Dominates, Concurrent
  <2> QED
    BY <2>1, <2>2, <1>3 DEF Agree
<1>8. CASE Concurrent(x.vv, y.vv)
  <2> DEFINE j == Join(x.vv, y.vv)
  <2>1. ~IncomingAhead(x, y) /\ ~IncomingAhead(y, x) /\ Diverged(x, y) /\ Diverged(y, x)
    BY <1>8 DEF IncomingAhead, Diverged, Dominates, Concurrent
  <2>2. CASE SameOutcome(x, y)
    <3>1. Merged(x, y, p) = [x EXCEPT !.vv = j] /\ Merged(y, x, q) = [y EXCEPT !.vv = j]
      BY <2>1, <2>2, <1>4 DEF Merged, SameOutcome
    <3> QED
      BY <3>1, <2>2 DEF Agree, SameOutcome, Rows
  <2>3. CASE ~SameOutcome(x, y)
    <3>1. ~SameOutcome(y, x)
      BY <2>3 DEF SameOutcome
    <3>2. IncomingWins(x, y) <=> ~IncomingWins(y, x)
      BY <2>3 DEF IncomingWins, SameOutcome, Rows, Live, Present, Contents
    <3>3. Merged(x, y, p) = Survivor(IF IncomingWins(x, y) THEN Received(y, p) ELSE x, x, y)
      BY <2>1, <2>3 DEF Merged
    <3>4. Merged(y, x, q) = Survivor(IF IncomingWins(y, x) THEN Received(x, q) ELSE y, y, x)
      BY <2>1, <3>1 DEF Merged
    <3>5. \A r, s \in Rows : r.content = s.content => Agree(Survivor(r, x, y), Survivor(s, y, x))
      BY <1>4 DEF Agree, Survivor, Rows
    <3>6. Received(y, p) \in Rows /\ Received(x, q) \in Rows
      BY MergedType
    <3>7. CASE IncomingWins(x, y)
      BY <3>2, <3>3, <3>4, <3>5, <3>6, <3>7, <1>2
    <3>8. CASE ~IncomingWins(x, y)
      BY <3>2, <3>3, <3>4, <3>5, <3>6, <3>8, <1>3
    <3> QED
      BY <3>7, <3>8
  <2> QED
    BY <2>2, <2>3
<1> QED
  BY <1>5, <1>6, <1>7, <1>8 DEF Dominates, Concurrent

-----------------------------------------------------------------------------
(* Every variable keeps its shape *)

\* A table merged with a table is a table.
LEMMA ImportedType ==
  ASSUME NEW table \in Tables, NEW in \in Tables, NEW policy
  PROVE  Imported(table, in, policy) \in Tables
<1> DEFINE ex == table[Base]
           b == in[Base]
           kept == WithLoserKept(table, b, policy)
           after == IF Present(b) THEN [kept EXCEPT ![Base] = Merged(ex, b, policy)] ELSE table
<1>1. ex \in Rows /\ b \in Rows
  BY DEF Tables, Keys
<1>2. kept \in Tables
  <2> DEFINE loser == IF IncomingWins(ex, b) THEN ex ELSE b
  <2>1. loser \in Rows
    BY <1>1
  <2>2. Received(loser, policy) \in Rows
    BY <2>1, <1>1, MergedType
  <2>3. [Received(loser, policy) EXCEPT !.st = "live"] \in Rows
    BY <2>2 DEF Rows
  <2> HIDE DEF loser
  <2>4. kept = table \/ kept = [table EXCEPT ![loser.content] = [Received(loser, policy) EXCEPT !.st = "live"]]
    BY DEF WithLoserKept, loser
  <2> QED
    BY <2>3, <2>4 DEF Tables
<1>3. Merged(ex, b, policy) \in Rows
  BY <1>1, MergedType
<1> HIDE DEF kept
<1>4. after \in Tables
  BY <1>2, <1>3 DEF Tables
<1> HIDE DEF after
<1>5. \A k \in Keys : after[k] \in Rows /\ Merged(after[k], in[k], policy) \in Rows
  BY <1>4, MergedType DEF Tables
<1>6. Imported(table, in, policy) =
        [k \in Keys |-> IF k # Base /\ Present(in[k]) THEN Merged(after[k], in[k], policy) ELSE after[k]]
  BY DEF Imported, after, kept
<1> QED
  BY <1>5, <1>6 DEF Tables

\* One step of any caller keeps the shapes.
LEMMA TypeStep == TypeOK /\ [Next]_vars => TypeOK'
<1> SUFFICES ASSUME TypeOK, [Next]_vars PROVE TypeOK'
  OBVIOUS
<1> USE DEF TypeOK
<1>1. \A d \in Devices : db[d] \in Tables /\ soul[d] \in Tables
  OBVIOUS
<1>2. \A d \in Devices, k \in Keys : db[d][k] \in Rows /\ db[d][k].vv \in Vectors
  BY <1>1 DEF Tables, Rows
<1>3. Base \in Keys /\ Base = 0 /\ \A c \in Contents : c \in Keys
  BY DEF Keys, Base
<1>4. Idle \in Calls
  BY <1>3 DEF Idle, Calls, Zero, Vectors
<1>5. ASSUME NEW d \in Devices, Export(d)
      PROVE  TypeOK'
  BY <1>1, <1>5 DEF Export
<1>6. ASSUME NEW d \in Devices, NEW w \in Writers, NEW c \in Contents, StartSet(d, w, c)
      PROVE  TypeOK'
  <2>1. Bump(db[d][Base].vv, d) \in Vectors
    BY <1>2, <1>3, BumpIncludes
  <2>2. \A vv \in Vectors, ev \in BOOLEAN :
           [kind |-> "set", key |-> Base, content |-> c, event |-> ev, vv |-> vv] \in Calls
    BY <1>3 DEF Calls
  <2>3. PICK call \in Calls : pend' = [pend EXCEPT ![d][w] = call]
    BY <1>6, <1>2, <1>3, <2>1, <2>2 DEF StartSet
  <2> QED
    BY <1>6, <2>3 DEF StartSet
<1>7. ASSUME NEW d \in Devices, NEW w \in Writers, NEW k \in Keys, StartDelete(d, w, k)
      PROVE  TypeOK'
  <2>1. Bump(db[d][k].vv, d) \in Vectors
    BY <1>2, BumpIncludes
  <2>2. [kind |-> "delete", key |-> k, content |-> 0, event |-> TRUE,
         vv |-> Bump(db[d][k].vv, d)] \in Calls
    BY <2>1 DEF Calls
  <2> QED
    BY <1>7, <2>2 DEF StartDelete
<1>8. ASSUME NEW d \in Devices, NEW w \in Writers, FinishSet(d, w)
      PROVE  TypeOK'
  <2> DEFINE p == pend[d][w]
             new == [st |-> "live", content |-> p.content, vv |-> p.vv, tier |-> db[d][Base].tier]
  <2>1. p.vv \in Vectors /\ p.content \in Contents \union {0}
    BY DEF Calls
  <2>2. new \in Rows
    BY <2>1, <1>2, <1>3 DEF Rows
  <2>3. db' = [db EXCEPT ![d][Base] = new]
    BY <1>8, <1>1, <1>3 DEF FinishSet, Tables
  <2> HIDE DEF new
  <2>4. db' \in [Devices -> Tables]
    BY <2>2, <2>3 DEF Tables
  <2>5. edits' \subseteq [dev: Devices, vv: Vectors, content: Contents \union {0}]
    BY <1>8, <2>1 DEF FinishSet
  <2> QED
    BY <1>8, <1>4, <2>4, <2>5 DEF FinishSet
<1>9. ASSUME NEW d \in Devices, NEW w \in Writers, FinishDelete(d, w)
      PROVE  TypeOK'
  <2> DEFINE p == pend[d][w]
             r == db[d][p.key]
             new == [r EXCEPT !.st = "dead", !.vv = p.vv]
  <2>1. p.vv \in Vectors /\ p.key \in Keys
    BY DEF Calls
  <2>2. new \in Rows
    BY <2>1, <1>2 DEF Rows
  <2>3. db' = [db EXCEPT ![d][p.key] = new]
    BY <1>9, <1>1, <2>1 DEF FinishDelete, Tables
  <2> HIDE DEF new
  <2>4. db' \in [Devices -> Tables]
    BY <2>2, <2>3 DEF Tables
  <2>5. edits' \subseteq [dev: Devices, vv: Vectors, content: Contents \union {0}]
    BY <1>9, <2>1 DEF FinishDelete
  <2> QED
    BY <1>9, <1>4, <2>4, <2>5 DEF FinishDelete
<1>10. ASSUME NEW d \in Devices, NEW w \in Writers, NEW e \in Devices, NEW policy \in Policies,
              Import(d, w, e, policy)
       PROVE  TypeOK'
  BY <1>1, <1>10, ImportedType DEF Import
<1>11. CASE UNCHANGED vars
  BY <1>11 DEF vars
<1> QED
  BY <1>5, <1>6, <1>7, <1>8, <1>9, <1>10, <1>11 DEF Next

\* TypeOK: every variable keeps its shape.
THEOREM TypeCorrect == Spec => []TypeOK
<1>1. Init => TypeOK
  BY DEF Init, TypeOK, EmptyTable, NoRow, Tables, Rows, Zero, Vectors, Tiers, Idle, Calls, Keys, Base
<1> QED
  BY <1>1, TypeStep, PTL DEF Spec

\* MergeAgrees, for any pair of rows that devices can come to hold.
THEOREM MergesAgree == Spec => []MergeAgrees
<1>1. TypeOK => MergeAgrees
  <2> SUFFICES ASSUME TypeOK, NEW d \in Devices, NEW e \in Devices, NEW policy \in Policies,
                      Present(db[d][Base]), Present(db[e][Base]),
                      db[d][Base].vv # db[e][Base].vv
               PROVE  Agree(Merged(db[d][Base], db[e][Base], policy),
                            Merged(db[e][Base], db[d][Base], policy))
    BY DEF MergeAgrees
  <2>1. db[d][Base] \in Rows /\ db[e][Base] \in Rows
    BY DEF TypeOK, Tables, Keys
  <2> QED
    BY <2>1, MergeIsSymmetric
<1> QED
  BY <1>1, TypeCorrect, PTL

-----------------------------------------------------------------------------
(* With serial calls on every device, histories only grow *)

Serial == \A v, w \in Writers : v = w

\* A call that is about to write the base key has the row's vector, plus its
\* own event.
CallCurrent(d, call) ==
  /\ call.kind = "set" => call.key = Base
  /\ call.kind # "idle" /\ call.key = Base =>
       /\ Includes(call.vv, db[d][Base].vv)
       /\ \A e \in Devices \ {d} : call.vv[e] = db[d][Base].vv[e]

\* The inductive invariant: an absent row has no history, calls are current,
\* and no device is known for more than it did.
Current ==
  /\ \A d \in Devices : Present(db[d][Base]) \/ db[d][Base].vv = Zero
  /\ \A d \in Devices, w \in Writers : CallCurrent(d, pend[d][w])
  /\ OwnCounterLeads

\* An import touches the base key by merging it, or not at all.
LEMMA ImportedBase ==
  ASSUME NEW table \in Tables, NEW in \in Tables, NEW policy
  PROVE  Imported(table, in, policy)[Base] =
           IF Present(in[Base]) THEN Merged(table[Base], in[Base], policy) ELSE table[Base]
<1> DEFINE kept == WithLoserKept(table, in[Base], policy)
           m == Merged(table[Base], in[Base], policy)
           after == IF Present(in[Base]) THEN [kept EXCEPT ![Base] = m] ELSE table
<1>1. DOMAIN kept = Keys /\ Base \in Keys
  BY DEF WithLoserKept, Tables, Keys
<1> HIDE DEF kept, m
<1>2. after[Base] = IF Present(in[Base]) THEN m ELSE table[Base]
  BY <1>1
<1>3. Imported(table, in, policy)[Base] = after[Base]
  BY <1>1 DEF Imported, kept, m
<1> QED
  BY <1>2, <1>3 DEF m

\* A device may raise its own counter, and for the rest take over what other
\* devices really did.
LEMMA LeadsStep ==
  ASSUME TypeOK, OwnCounterLeads, NEW d \in Devices, NEW vv \in Vectors,
         Includes(vv, db[d][Base].vv),
         \A x \in Devices \ {d} : vv[x] <= db[x][Base].vv[x],
         soul' = soul,
         \A x \in Devices : db'[x][Base].vv = IF x = d THEN vv ELSE db[x][Base].vv
  PROVE  OwnCounterLeads'
<1>1. \A x, y \in Devices : /\ db[x][Base].vv[y] \in Nat
                            /\ soul[x][Base].vv[y] \in Nat
                            /\ vv[y] \in Nat
  BY DEF TypeOK, Tables, Rows, Vectors, Keys
<1>2. \A x \in Devices : db[x][Base].vv[x] <= db'[x][Base].vv[x]
  <2> SUFFICES ASSUME NEW x \in Devices PROVE db[x][Base].vv[x] <= db'[x][Base].vv[x]
    OBVIOUS
  <2>1. CASE x = d
    BY <2>1 DEF Includes
  <2>2. CASE x # d
    BY <2>2, <1>1
  <2> QED
    BY <2>1, <2>2
<1>3. ASSUME NEW x \in Devices, NEW y \in Devices
      PROVE  /\ db'[y][Base].vv[x] <= db'[x][Base].vv[x]
             /\ soul[y][Base].vv[x] <= db'[x][Base].vv[x]
  <2>1. db'[x][Base].vv[x] \in Nat
    BY <1>1
  <2>2. db[y][Base].vv[x] <= db[x][Base].vv[x] /\ soul[y][Base].vv[x] <= db[x][Base].vv[x]
    BY DEF OwnCounterLeads
  <2>3. CASE y # d
    BY <1>1, <1>2, <2>1, <2>2, <2>3
  <2>4. CASE y = d /\ x # d
    BY <1>1, <1>2, <2>1, <2>2, <2>4
  <2>5. CASE y = d /\ x = d
    BY <1>1, <1>2, <2>1, <2>2, <2>5
  <2> QED
    BY <2>3, <2>4, <2>5
<1> QED
  BY <1>3 DEF OwnCounterLeads

\* What every step of a system with serial calls does to the base rows.
LEMMA CurrentStep ==
  ASSUME Serial
  PROVE  TypeOK /\ TypeOK' /\ Current /\ [Next]_vars =>
           /\ Current'
           /\ \A d \in Devices : Includes(db'[d][Base].vv, db[d][Base].vv)
<1> SUFFICES ASSUME TypeOK, TypeOK', Current, [Next]_vars
             PROVE  /\ Current'
                    /\ \A d \in Devices : Includes(db'[d][Base].vv, db[d][Base].vv)
  OBVIOUS
<1>v. \A d \in Devices : /\ db[d] \in Tables /\ soul[d] \in Tables
                         /\ db[d][Base] \in Rows /\ soul[d][Base] \in Rows
                         /\ db[d][Base].vv \in Vectors /\ soul[d][Base].vv \in Vectors
  BY DEF TypeOK, Tables, Rows, Keys
<1>n. \A d, e \in Devices : db[d][Base].vv[e] \in Nat /\ soul[d][Base].vv[e] \in Nat
  BY <1>v DEF Vectors
<1>r. \A d \in Devices : Includes(db[d][Base].vv, db[d][Base].vv)
  BY <1>n DEF Includes
<1>b. Base \in Keys
  BY DEF Keys
<1>i. Idle.kind = "idle"
  BY DEF Idle
<1>w. \A d \in Devices, w \in Writers : pend[d][w] \in Calls /\ CallCurrent(d, pend[d][w])
  BY DEF TypeOK, Current
<1> DEFINE quiet == \A x \in Devices : db'[x][Base].vv = db[x][Base].vv
           grown == \A d \in Devices : Includes(db'[d][Base].vv, db[d][Base].vv)
<1>1. ASSUME NEW d \in Devices, Export(d)
      PROVE  Current' /\ grown
  <2>1. db' = db /\ pend' = pend /\ soul' = [soul EXCEPT ![d] = db[d]]
    BY <1>1 DEF Export
  <2>2. \A y \in Devices : soul'[y][Base].vv = soul[y][Base].vv \/ soul'[y][Base].vv = db[d][Base].vv
    BY <2>1 DEF TypeOK
  <2>3. OwnCounterLeads'
    BY <2>1, <2>2 DEF OwnCounterLeads, Current
  <2> QED
    BY <2>1, <2>3, <1>r DEF Current, CallCurrent
<1>2. ASSUME NEW d \in Devices, NEW w \in Writers, NEW c \in Contents, StartSet(d, w, c)
      PROVE  Current' /\ grown
  <2> DEFINE vv == db[d][Base].vv
             call == [kind |-> "set", key |-> Base, content |-> c,
                      event |-> ~Unchanged(db[d][Base], c),
                      vv |-> IF Unchanged(db[d][Base], c) THEN vv ELSE Bump(vv, d)]
  <2>1. db' = db /\ soul' = soul /\ pend' = [pend EXCEPT ![d][w] = call]
    BY <1>2 DEF StartSet
  <2>2. Includes(Bump(vv, d), vv) /\ \A e \in Devices \ {d} : Bump(vv, d)[e] = vv[e]
    BY <1>v, BumpIncludes
  <2>3. CallCurrent(d, call)
    BY <2>2, <1>r DEF CallCurrent
  <2> HIDE DEF call
  <2>4. \A x \in Devices, u \in Writers : CallCurrent(x, pend'[x][u])
    BY <2>1, <2>3, <1>w DEF TypeOK
  <2> QED
    BY <2>1, <2>4, <1>r DEF Current, CallCurrent, OwnCounterLeads
<1>3. ASSUME NEW d \in Devices, NEW w \in Writers, NEW k \in Keys, StartDelete(d, w, k)
      PROVE  Current' /\ grown
  <2> DEFINE vv == db[d][k].vv
             call == [kind |-> "delete", key |-> k, content |-> 0, event |-> TRUE,
                      vv |-> Bump(vv, d)]
  <2>1. db' = db /\ soul' = soul /\ pend' = [pend EXCEPT ![d][w] = call]
    BY <1>3 DEF StartDelete
  <2>2. vv \in Vectors
    BY DEF TypeOK, Tables, Rows
  <2>3. Includes(Bump(vv, d), vv) /\ \A e \in Devices \ {d} : Bump(vv, d)[e] = vv[e]
    BY <2>2, BumpIncludes
  <2>4. CallCurrent(d, call)
    BY <2>3 DEF CallCurrent
  <2> HIDE DEF call
  <2>5. \A x \in Devices, u \in Writers : CallCurrent(x, pend'[x][u])
    BY <2>1, <2>4, <1>w DEF TypeOK
  <2> QED
    BY <2>1, <2>5, <1>r DEF Current, CallCurrent, OwnCounterLeads
<1>w2. ASSUME NEW d \in Devices, NEW w \in Writers, NEW vv \in Vectors,
              Includes(vv, db[d][Base].vv),
              \A x \in Devices \ {d} : vv[x] <= db[x][Base].vv[x],
              soul' = soul,
              \A x \in Devices \ {d} : db'[x] = db[x],
              Present(db'[d][Base]) \/ db'[d][Base].vv = Zero,
              db'[d][Base].vv = vv,
              \A u \in Writers : pend'[d][u].kind = "idle",
              \A x \in Devices \ {d}, u \in Writers : pend'[x][u] = pend[x][u]
       PROVE  Current' /\ grown
  <2>1. \A x \in Devices : db'[x][Base].vv = IF x = d THEN vv ELSE db[x][Base].vv
    BY <1>w2
  <2>2. OwnCounterLeads'
    BY <1>w2, <2>1, LeadsStep DEF Current
  <2>3. \A x \in Devices, u \in Writers : CallCurrent(x, pend[x][u])
    BY <1>w
  <2>4. ASSUME NEW x \in Devices, NEW u \in Writers
        PROVE  CallCurrent(x, pend[x][u])'
    <3>1. CASE x = d
      BY <3>1, <1>w2 DEF CallCurrent
    <3>2. CASE x # d
      BY <3>2, <1>w2, <2>3 DEF CallCurrent
    <3> QED
      BY <3>1, <3>2
  <2>5. (\A x \in Devices : Present(db[x][Base]) \/ db[x][Base].vv = Zero)'
    BY <1>w2 DEF Current, Present
  <2>6. grown
    BY <1>w2, <1>r, <2>1
  <2> QED
    BY <2>2, <2>4, <2>5, <2>6 DEF Current
<1>o. \A d \in Devices : \A x \in Devices : db[d][Base].vv[x] <= db[x][Base].vv[x]
  BY DEF Current, OwnCounterLeads
<1>p. ASSUME NEW d \in Devices, NEW w \in Writers, pend' = [pend EXCEPT ![d][w] = Idle]
      PROVE  /\ \A u \in Writers : pend'[d][u].kind = "idle"
             /\ \A x \in Devices \ {d}, u \in Writers : pend'[x][u] = pend[x][u]
  BY <1>p, <1>i DEF TypeOK, Serial
<1>4. ASSUME NEW d \in Devices, NEW w \in Writers, FinishSet(d, w)
      PROVE  Current' /\ grown
  <2> DEFINE p == pend[d][w]
             new == [st |-> "live", content |-> p.content, vv |-> p.vv, tier |-> db[d][Base].tier]
  <2>1. p.vv \in Vectors /\ Includes(p.vv, db[d][Base].vv)
        /\ \A x \in Devices \ {d} : p.vv[x] = db[d][Base].vv[x]
    BY <1>4, <1>w DEF FinishSet, CallCurrent, Calls
  <2>2. db' = [db EXCEPT ![d][Base] = new]
    BY <1>4, <1>v, <1>b DEF FinishSet, Tables
  <2>3. new.vv = p.vv /\ Present(new)
    BY DEF Present
  <2> HIDE DEF new
  <2>4. db'[d][Base] = new /\ \A x \in Devices \ {d} : db'[x] = db[x]
    BY <2>2, <1>v, <1>b DEF TypeOK, Tables
  <2>5. \A x \in Devices \ {d} : p.vv[x] <= db[x][Base].vv[x]
    BY <2>1, <1>o
  <2>6. soul' = soul /\ pend' = [pend EXCEPT ![d][w] = Idle]
    BY <1>4 DEF FinishSet
  <2> HIDE DEF p
  <2> QED
    BY <1>p, <1>w2, <2>1, <2>3, <2>4, <2>5, <2>6
<1>5. ASSUME NEW d \in Devices, NEW w \in Writers, FinishDelete(d, w)
      PROVE  Current' /\ grown
  <2> DEFINE p == pend[d][w]
             new == [db[d][p.key] EXCEPT !.st = "dead", !.vv = p.vv]
  <2>1. p.vv \in Vectors /\ p.key \in Keys /\ p.kind = "delete"
    BY <1>5, <1>w DEF FinishDelete, Calls
  <2>2. db' = [db EXCEPT ![d][p.key] = new]
    BY <1>5, <1>v, <2>1 DEF FinishDelete, Tables
  <2>3. new.vv = p.vv /\ Present(new)
    BY <2>1 DEF Present, TypeOK, Tables, Rows
  <2>4. soul' = soul /\ pend' = [pend EXCEPT ![d][w] = Idle]
    BY <1>5 DEF FinishDelete
  <2>c. CallCurrent(d, p)
    BY <1>w
  <2> HIDE DEF new, p
  <2>5. \A x \in Devices \ {d} : db'[x] = db[x]
    BY <2>2 DEF TypeOK
  <2>6. CASE p.key = Base
    <3>1. db'[d][Base] = new
      BY <2>2, <2>6, <1>v, <1>b DEF TypeOK, Tables
    <3>2. Includes(p.vv, db[d][Base].vv) /\ \A x \in Devices \ {d} : p.vv[x] = db[d][Base].vv[x]
      BY <2>1, <2>6, <2>c DEF CallCurrent
    <3>3. \A x \in Devices \ {d} : p.vv[x] <= db[x][Base].vv[x]
      BY <3>2, <1>o
    <3> QED
      BY <1>p, <1>w2, <2>1, <2>3, <2>4, <2>5, <3>1, <3>2, <3>3
  <2>7. CASE p.key # Base
    <3>1. db'[d][Base] = db[d][Base]
      BY <2>1, <2>2, <2>7, <1>v, <1>b DEF TypeOK, Tables
    <3>2. Present(db'[d][Base]) \/ db'[d][Base].vv = Zero
      BY <3>1 DEF Current
    <3> QED
      BY <1>o, <1>p, <1>r, <1>v, <1>w2, <2>4, <2>5, <3>1, <3>2
  <2> QED
    BY <2>6, <2>7
<1>6. ASSUME NEW d \in Devices, NEW w \in Writers, NEW e \in Devices, NEW policy \in Policies,
             Import(d, w, e, policy)
      PROVE  Current' /\ grown
  <2> DEFINE ex == db[d][Base]
             in == soul[e][Base]
             vv == db'[d][Base].vv
  <2>1. db' = [db EXCEPT ![d] = Imported(db[d], soul[e], policy)] /\ soul' = soul /\ pend' = pend
    BY <1>6 DEF Import
  <2>2. db'[d][Base] = IF Present(in) THEN Merged(ex, in, policy) ELSE ex
    BY <2>1, <1>v, ImportedBase DEF TypeOK
  <2>3. Present(ex) \/ ex.vv = Zero
    BY DEF Current
  <2>4. Merged(ex, in, policy).vv \in {ex.vv, in.vv, Join(ex.vv, in.vv)}
        /\ Includes(Merged(ex, in, policy).vv, ex.vv)
    BY <1>v, <2>3, MergedVector
  <2>5. vv \in {ex.vv, in.vv, Join(ex.vv, in.vv)} /\ Includes(vv, ex.vv)
    BY <2>2, <2>4, <1>r
  <2>6. vv \in Vectors
    BY <2>5, <1>v, JoinIncludes
  <2>7. \A x \in Devices : ex.vv[x] <= db[x][Base].vv[x] /\ in.vv[x] <= db[x][Base].vv[x]
    BY DEF Current, OwnCounterLeads
  <2>8. \A x \in Devices \ {d} : vv[x] <= db[x][Base].vv[x]
    BY <2>5, <2>7, <1>n DEF Join
  <2>9. Present(db'[d][Base]) \/ vv = Zero
    <3>1. CASE Present(in)
      BY <1>v, <2>2, <3>1, MergedPresent
    <3>2. CASE ~Present(in)
      BY <2>2, <2>3, <3>2
    <3> QED
      BY <3>1, <3>2
  <2>10. \A u \in Writers : pend[d][u] = Idle
    BY <1>6 DEF Import, Serial
  <2>11. \A x \in Devices \ {d} : db'[x] = db[x]
    BY <2>1 DEF TypeOK
  <2> HIDE DEF vv
  <2>12. \A u \in Writers : pend'[d][u].kind = "idle"
    BY <2>1, <2>10, <1>i
  <2> QED
    BY <1>w2, <2>1, <2>5, <2>6, <2>8, <2>9, <2>11, <2>12 DEF vv
<1>7. CASE UNCHANGED vars
  BY <1>7, <1>r DEF vars, Current, CallCurrent, OwnCounterLeads
<1> QED
  BY <1>1, <1>2, <1>3, <1>4, <1>5, <1>6, <1>7 DEF Next

\* OwnCounterLeads: where calls do not overlap, a device's own row knows of
\* all its own edits, so that it never counts two edits alike.
THEOREM CountersLead == ASSUME Serial PROVE Spec => []OwnCounterLeads
<1>1. Init => Current
  BY DEF Init, Current, OwnCounterLeads, CallCurrent, EmptyTable, NoRow, Zero, Idle, Keys
<1>2. Current => OwnCounterLeads
  BY DEF Current
<1> QED
  BY <1>1, <1>2, TypeCorrect, CurrentStep, PTL DEF Spec

\* KnowledgeGrows: where calls do not overlap, no call moves the vector of the
\* key back.
THEOREM HistoriesGrow == ASSUME Serial PROVE Spec => KnowledgeGrows
<1>1. Init => Current
  BY DEF Init, Current, OwnCounterLeads, CallCurrent, EmptyTable, NoRow, Zero, Idle, Keys
<1>2. TypeOK /\ TypeOK' /\ Current /\ [Next]_vars =>
        [\A d \in Devices : Includes(db'[d][Base].vv, db[d][Base].vv)]_vars
  BY CurrentStep
<1> QED
  BY <1>1, <1>2, TypeCorrect, CurrentStep, PTL DEF Spec, KnowledgeGrows

-----------------------------------------------------------------------------
(* No merge clobbers an edit *)

\* What a row with this vector has in its history, of a set of events, and
\* what of that nobody edited over: Known and Latest, for any row.
KnownAmong(E, vv) == {e \in E : e.vv[e.dev] <= vv[e.dev]}
LatestAmong(E, vv) ==
  {e \in KnownAmong(E, vv) : \A f \in KnownAmong(E, vv) \ {e} : f.vv[e.dev] < e.vv[e.dev]}

\* A content is to be read in a table: under the key, or as a conflict copy.
Readable(table, c) ==
  \/ Live(table[Base]) /\ table[Base].content = c
  \/ Present(table[c])

KeepsEdits(E, table) ==
  \A e \in LatestAmong(E, table[Base].vv) : e.content # 0 => Readable(table, e.content)

Events == [dev: Devices, vv: Vectors, content: Contents \union {0}]

\* A call in flight writes one event over the row it read, or the row itself.
CallPlain(d, call) ==
  LET r == db[d][Base] IN
  /\ call.kind # "idle" /\ call.key = Base /\ call.event => call.vv = Bump(r.vv, d)
  /\ call.kind = "set" /\ ~call.event =>
       call.vv = r.vv /\ Live(r) /\ r.content = call.content
  /\ call.kind = "delete" => call.event

\* The inductive invariant of NoEditLost.  It speaks of the souls too, for an
\* import takes over the history of a soul with its vector, and of the writers
\* of the events, for nobody but the writer may know of an event before it is
\* exported.
KeptInv ==
  /\ \A e \in edits : e.vv[e.dev] <= db[e.dev][Base].vv[e.dev]
  /\ \A d \in Devices, w \in Writers : CallPlain(d, pend[d][w])
  /\ \A d \in Devices : KeepsEdits(edits, db[d]) /\ KeepsEdits(edits, soul[d])

\* An event that a row does not count is no news to it.
LEMMA UncountedEvent ==
  ASSUME NEW E, NEW e, NEW vv, ~(e.vv[e.dev] <= vv[e.dev])
  PROVE  LatestAmong(E \union {e}, vv) = LatestAmong(E, vv)
<1>1. KnownAmong(E \union {e}, vv) = KnownAmong(E, vv)
  BY DEF KnownAmong
<1> QED
  BY <1>1 DEF LatestAmong

\* An event is made over all that its row knew.
LEMMA OwnEvent ==
  ASSUME NEW E \in SUBSET Events, NEW e \in Events
  PROVE  LatestAmong(E \union {e}, e.vv) \subseteq {e}
<1> SUFFICES ASSUME NEW f \in LatestAmong(E \union {e}, e.vv), f # e
             PROVE  FALSE
  OBVIOUS
<1>1. f \in E /\ f.vv[f.dev] <= e.vv[f.dev]
  BY DEF LatestAmong, KnownAmong
<1>2. \A g \in Events, d \in Devices : g.vv[d] \in Nat
  BY DEF Events, Vectors
<1>3. e.dev \in Devices /\ f.dev \in Devices /\ f \in Events
  BY <1>1 DEF Events
<1>4. e \in KnownAmong(E \union {e}, e.vv) \ {f}
  BY <1>2, <1>3 DEF KnownAmong
<1>5. e.vv[f.dev] < f.vv[f.dev]
  BY <1>4 DEF LatestAmong
<1> QED
  BY <1>1, <1>2, <1>3, <1>5

\* What is the latest in a joined history was the latest in one of the two.
LEMMA JoinedLatest ==
  ASSUME NEW E \in SUBSET Events, NEW a \in Vectors, NEW b \in Vectors
  PROVE  LatestAmong(E, Join(a, b)) \subseteq LatestAmong(E, a) \union LatestAmong(E, b)
<1>1. \A e \in E : /\ e.dev \in Devices
                   /\ e.vv[e.dev] \in Nat /\ a[e.dev] \in Nat /\ b[e.dev] \in Nat
                   /\ Join(a, b)[e.dev] = IF a[e.dev] >= b[e.dev] THEN a[e.dev] ELSE b[e.dev]
  BY DEF Events, Vectors, Join
<1>2. KnownAmong(E, Join(a, b)) = KnownAmong(E, a) \union KnownAmong(E, b)
  BY <1>1 DEF KnownAmong
<1> QED
  BY <1>2 DEF LatestAmong

\* A conflict copy that is there stays there, and an incoming one arrives.
LEMMA ImportedCopies ==
  ASSUME NEW table \in Tables, NEW in \in Tables, NEW policy,
         NEW c \in Contents, Present(table[c]) \/ Present(in[c])
  PROVE  Present(Imported(table, in, policy)[c])
<1> DEFINE ex == table[Base]
           b == in[Base]
           loser == IF IncomingWins(ex, b) THEN ex ELSE b
           copy == [Received(loser, policy) EXCEPT !.st = "live"]
           kept == WithLoserKept(table, b, policy)
           m == Merged(ex, b, policy)
           after == IF Present(b) THEN [kept EXCEPT ![Base] = m] ELSE table
<1>1. c \in Keys /\ c # Base /\ ex \in Rows /\ b \in Rows
  BY DEF Tables, Keys, Base, Contents
<1>2. copy \in Rows /\ copy.st = "live"
  <2>1. loser \in Rows
    BY <1>1
  <2>2. Received(loser, policy) \in Rows
    BY <2>1, <1>1, MergedType
  <2> QED
    BY <2>2 DEF Rows
<1> HIDE DEF loser, copy
<1>3. kept = table \/ kept = [table EXCEPT ![loser.content] = copy]
  BY DEF WithLoserKept, loser, copy
<1>4. kept \in Tables
  BY <1>2, <1>3 DEF Tables
<1>5. m \in Rows
  BY <1>1, MergedType
<1>6. Imported(table, in, policy)[c] =
        IF Present(in[c]) THEN Merged(after[c], in[c], policy) ELSE after[c]
  BY <1>1 DEF Imported
<1> HIDE DEF kept, m
<1>7. after \in Tables
  BY <1>4, <1>5 DEF Tables
<1>8. Present(table[c]) => Present(after[c])
  BY <1>1, <1>2, <1>3 DEF Tables, Present
<1> HIDE DEF after
<1>9. after[c] \in Rows /\ in[c] \in Rows
  BY <1>1, <1>7 DEF Tables
<1>10. Present(in[c]) => Present(Merged(after[c], in[c], policy))
  BY <1>9, MergedPresent
<1> QED
  BY <1>6, <1>8, <1>10

\* Of two edits that lost sight of each other, the one that loses is kept.
LEMMA ImportedLoser ==
  ASSUME NEW table \in Tables, NEW in \in Tables, NEW policy,
         Present(in[Base]), BothEdits(table[Base], in[Base]),
         NEW c \in Contents,
         c = IF IncomingWins(table[Base], in[Base]) THEN table[Base].content ELSE in[Base].content
  PROVE  Present(Imported(table, in, policy)[c])
<1> DEFINE ex == table[Base]
           b == in[Base]
           loser == IF IncomingWins(ex, b) THEN ex ELSE b
           copy == [Received(loser, policy) EXCEPT !.st = "live"]
           kept == WithLoserKept(table, b, policy)
           m == Merged(ex, b, policy)
           after == [kept EXCEPT ![Base] = m]
<1>1. c \in Keys /\ c # Base /\ ex \in Rows /\ b \in Rows
  BY DEF Tables, Keys, Base, Contents
<1>2. copy \in Rows /\ copy.st = "live" /\ loser.content = c
  <2>1. loser \in Rows
    BY <1>1
  <2>2. Received(loser, policy) \in Rows
    BY <2>1, <1>1, MergedType
  <2> QED
    BY <2>2 DEF Rows
<1> HIDE DEF loser, copy
<1>3. kept = [table EXCEPT ![c] = copy]
  BY <1>2 DEF WithLoserKept, loser, copy
<1>4. m \in Rows
  BY <1>1, MergedType
<1>5. Imported(table, in, policy)[c] =
        IF Present(in[c]) THEN Merged(after[c], in[c], policy) ELSE after[c]
  BY <1>1 DEF Imported
<1> HIDE DEF kept, m
<1>6. after[c] = copy
  BY <1>1, <1>3 DEF Tables
<1> HIDE DEF after
<1>7. in[c] \in Rows
  BY <1>1 DEF Tables
<1>8. Present(in[c]) => Present(Merged(copy, in[c], policy))
  BY <1>2, <1>7, MergedPresent
<1> QED
  BY <1>2, <1>5, <1>6, <1>8 DEF Present

\* The heart of it: if two tables keep the latest edits of their histories, so
\* does the one merged from them.
LEMMA ImportKeeps ==
  ASSUME NEW E \in SUBSET Events, NEW table \in Tables, NEW in \in Tables, NEW policy,
         KeepsEdits(E, table), KeepsEdits(E, in),
         Present(table[Base]) \/ table[Base].vv = Zero
  PROVE  KeepsEdits(E, Imported(table, in, policy))
<1> DEFINE ex == table[Base]
           b == in[Base]
           new == Imported(table, in, policy)
           m == Merged(ex, b, policy)
<1>1. ex \in Rows /\ b \in Rows /\ ex.vv \in Vectors /\ b.vv \in Vectors
  BY DEF Tables, Keys, Rows
<1>2. new[Base] = IF Present(b) THEN m ELSE ex
  BY ImportedBase
<1>3. \A c \in Contents : Present(table[c]) \/ Present(in[c]) => Present(new[c])
  BY ImportedCopies
<1>4. Received(b, policy).st = b.st /\ Received(b, policy).content = b.content
      /\ Received(b, policy).vv = b.vv
  BY <1>1 DEF Received, Rows
<1> SUFFICES ASSUME NEW e \in LatestAmong(E, new[Base].vv), e.content # 0
             PROVE  Readable(new, e.content)
  BY DEF KeepsEdits
<1>5. e.content \in Contents
  BY DEF LatestAmong, KnownAmong, Events
<1> HIDE DEF new, m
<1>6. CASE ~Present(b) \/ m = ex
  <2>1. new[Base] = ex
    BY <1>2, <1>6
  <2>2. Readable(table, e.content)
    BY <2>1 DEF KeepsEdits
  <2> QED
    BY <1>3, <1>5, <2>1, <2>2 DEF Readable
<1>7. CASE Present(b) /\ m = Received(b, policy)
  <2>1. new[Base].st = b.st /\ new[Base].content = b.content /\ new[Base].vv = b.vv
    BY <1>2, <1>4, <1>7
  <2>2. Readable(in, e.content)
    BY <2>1 DEF KeepsEdits
  <2> QED
    BY <1>3, <1>5, <2>1, <2>2 DEF Readable, Live
<1>8. ASSUME Present(b), ~IncomingAhead(ex, b), Diverged(ex, b)
      PROVE  Readable(new, e.content)
  <2>1. m.vv = Join(ex.vv, b.vv)
    BY <1>1, <1>8, MergedJoins DEF m
  <2>2. e \in LatestAmong(E, ex.vv) \/ e \in LatestAmong(E, b.vv)
    BY <1>1, <1>2, <1>8, <2>1, JoinedLatest
  <2>3. Readable(table, e.content) \/ Readable(in, e.content)
    BY <2>2 DEF KeepsEdits
  <2>4. CASE Present(table[e.content]) \/ Present(in[e.content])
    BY <1>3, <1>5, <2>4 DEF Readable
  <2>5. CASE \/ Live(ex) /\ ex.content = e.content
             \/ Live(b) /\ b.content = e.content
    <3>1. CASE SameOutcome(ex, b)
      <4>1. m = [ex EXCEPT !.vv = Join(ex.vv, b.vv)]
        BY <1>8, <3>1 DEF m, Merged
      <4>2. m.st = ex.st /\ m.content = ex.content
        BY <1>1, <4>1 DEF Rows
      <4> QED
        BY <1>2, <1>8, <2>5, <3>1, <4>2 DEF Readable, Live, SameOutcome
    <3>2. CASE ~SameOutcome(ex, b)
      <4> DEFINE winner == IF IncomingWins(ex, b) THEN Received(b, policy) ELSE ex
      <4>1. m = Survivor(winner, ex, b)
        BY <1>8, <3>2 DEF m, Merged
      <4>2. winner \in Rows
        BY <1>1, MergedType
      <4> HIDE DEF winner
      <4>3. m.st = "live" /\ m.content = winner.content
        BY <4>1, <4>2 DEF Survivor, Rows
      <4>4. CASE BothEdits(ex, b)
        <5>1. \/ winner.content = e.content
              \/ e.content = IF IncomingWins(ex, b) THEN ex.content ELSE b.content
          BY <1>4, <2>5 DEF winner
        <5>2. CASE winner.content = e.content
          BY <1>2, <1>8, <4>3, <5>2 DEF Readable, Live
        <5>3. CASE e.content = IF IncomingWins(ex, b) THEN ex.content ELSE b.content
          BY <1>5, <1>8, <4>4, <5>3, ImportedLoser DEF Readable, new
        <5> QED
          BY <5>1, <5>2, <5>3
      <4>5. CASE ~BothEdits(ex, b)
        <5>1. ex.st # b.st
          BY <1>8, <3>2, <4>5 DEF BothEdits, SameOutcome
        <5>2. winner.content = e.content
          BY <1>4, <2>5, <5>1 DEF winner, IncomingWins, Live
        <5> QED
          BY <1>2, <1>8, <4>3, <5>2 DEF Readable, Live
      <4> QED
        BY <4>4, <4>5
    <3> QED
      BY <3>1, <3>2
  <2> QED
    BY <2>3, <2>4, <2>5 DEF Readable
<1>9. \/ m = ex
      \/ m = Received(b, policy)
      \/ ~IncomingAhead(ex, b) /\ Diverged(ex, b)
  <2>1. IncomingAhead(ex, b) => ~Diverged(ex, b)
    BY DEF IncomingAhead, Diverged, Dominates, Concurrent
  <2> QED
    BY <2>1 DEF m, Merged
<1> QED
  BY <1>6, <1>7, <1>8, <1>9

\* One step of a system with serial calls loses no edit anywhere.
LEMMA KeptStep ==
  ASSUME Serial
  PROVE  TypeOK /\ TypeOK' /\ Current /\ KeptInv /\ [Next]_vars => KeptInv'
<1> SUFFICES ASSUME TypeOK, TypeOK', Current, KeptInv, [Next]_vars PROVE KeptInv'
  OBVIOUS
<1>t1. /\ edits \in SUBSET Events /\ edits' \in SUBSET Events
       /\ \A d \in Devices : db[d] \in Tables /\ soul[d] \in Tables /\ db'[d] \in Tables
  BY DEF TypeOK, Events
<1>t2. \A table \in Tables : /\ table[Base] \in Rows
                             /\ \A x \in Devices : table[Base].vv[x] \in Nat
  BY DEF Tables, Rows, Vectors, Keys
<1>t. /\ edits \in SUBSET Events /\ edits' \in SUBSET Events
      /\ \A d \in Devices : db[d] \in Tables /\ soul[d] \in Tables /\ db'[d] \in Tables
      /\ \A d \in Devices : db[d][Base] \in Rows /\ db'[d][Base] \in Rows
      /\ \A d, x \in Devices : db[d][Base].vv[x] \in Nat /\ db'[d][Base].vv[x] \in Nat
                               /\ soul[d][Base].vv[x] \in Nat
  BY <1>t1, <1>t2
<1>v. \A d \in Devices : /\ db[d] \in Tables /\ soul[d] \in Tables
                         /\ db[d][Base] \in Rows /\ soul[d][Base] \in Rows
                         /\ db[d][Base].vv \in Vectors /\ soul[d][Base].vv \in Vectors
  BY DEF TypeOK, Tables, Rows, Keys
<1>b. Base \in Keys
  BY DEF Keys
<1>i. Idle.kind = "idle"
  BY DEF Idle
<1>w. \A d \in Devices, w \in Writers : pend[d][w] \in Calls /\ CallPlain(d, pend[d][w])
  BY DEF TypeOK, KeptInv
<1>e. \A e \in edits : /\ e \in Events /\ e.dev \in Devices /\ e.vv[e.dev] \in Nat
                       /\ e.vv[e.dev] <= db[e.dev][Base].vv[e.dev]
  BY <1>t DEF KeptInv, Events, Vectors
<1>k. \A d \in Devices : KeepsEdits(edits, db[d]) /\ KeepsEdits(edits, soul[d])
  BY DEF KeptInv
<1>g. \A d \in Devices : db[d][Base].vv[d] <= db'[d][Base].vv[d]
  BY CurrentStep DEF Includes
<1>c. \A e \in edits : e.vv[e.dev] <= db'[e.dev][Base].vv[e.dev]
  BY <1>e, <1>g, <1>t
<1>p. ASSUME NEW d \in Devices, NEW w \in Writers, pend' = [pend EXCEPT ![d][w] = Idle],
             \A x \in Devices \ {d} : db'[x] = db[x]
      PROVE  \A x \in Devices, u \in Writers : CallPlain(x, pend[x][u])'
  <2> SUFFICES ASSUME NEW x \in Devices, NEW u \in Writers PROVE CallPlain(x, pend[x][u])'
    OBVIOUS
  <2>1. CASE x = d
    <3>1. pend'[x][u] = Idle
      BY <1>p, <2>1 DEF TypeOK, Serial
    <3> QED
      BY <3>1, <1>i DEF CallPlain
  <2>2. CASE x # d
    <3>1. pend'[x][u] = pend[x][u] /\ db'[x] = db[x]
      BY <1>p, <2>2 DEF TypeOK
    <3> QED
      BY <3>1, <1>w DEF CallPlain
  <2> QED
    BY <2>1, <2>2
<1>n. ASSUME NEW d \in Devices, NEW w \in Writers, NEW e \in Events,
             e.dev = d, e.vv = Bump(db[d][Base].vv, d), edits' = edits \union {e},
             db'[d][Base].vv = e.vv,
             e.content # 0 => Readable(db'[d], e.content),
             \A x \in Devices \ {d} : db'[x] = db[x], soul' = soul,
             pend' = [pend EXCEPT ![d][w] = Idle]
      PROVE  KeptInv'
  <2>1. e.vv[d] = db[d][Base].vv[d] + 1
    BY <1>n, <1>t DEF Bump, Tables, Rows, Vectors
  <2>2. \A x \in Devices : x # d => ~(e.vv[d] <= db[x][Base].vv[d])
    BY <2>1, <1>t DEF Current, OwnCounterLeads
  <2>3. \A x \in Devices : ~(e.vv[d] <= soul[x][Base].vv[d])
    BY <2>1, <1>t DEF Current, OwnCounterLeads
  <2>n. ASSUME NEW table, KeepsEdits(edits, table), ~(e.vv[d] <= table[Base].vv[d])
        PROVE  KeepsEdits(edits', table)
    <3>1. LatestAmong(edits \union {e}, table[Base].vv) = LatestAmong(edits, table[Base].vv)
      <4>1. ~(e.vv[e.dev] <= table[Base].vv[e.dev])
        BY <1>n, <2>n
      <4> QED
        BY <4>1, UncountedEvent
    <3> QED
      BY <1>n, <2>n, <3>1 DEF KeepsEdits
  <2>4. \A x \in Devices : x # d => KeepsEdits(edits', db[x])
    BY <2>2, <2>n, <1>k
  <2>5. \A x \in Devices : KeepsEdits(edits', soul[x])
    BY <2>3, <2>n, <1>k
  <2>6. KeepsEdits(edits', db'[d])
    BY <1>n, <1>t, OwnEvent DEF KeepsEdits
  <2>7. \A x \in Devices : KeepsEdits(edits', db'[x]) /\ KeepsEdits(edits', soul'[x])
    BY <1>n, <2>4, <2>5, <2>6
  <2>8. \A f \in edits' : f.vv[f.dev] <= db'[f.dev][Base].vv[f.dev]
    BY <1>n, <1>c, <1>t
  <2> QED
    BY <1>n, <1>p, <2>7, <2>8 DEF KeptInv
<1>1. ASSUME NEW d \in Devices, Export(d)
      PROVE  KeptInv'
  <2>1. db' = db /\ pend' = pend /\ edits' = edits /\ soul' = [soul EXCEPT ![d] = db[d]]
    BY <1>1 DEF Export
  <2>2. \A x \in Devices : KeepsEdits(edits, soul'[x])
    BY <2>1, <1>k DEF TypeOK
  <2> QED
    BY <2>1, <2>2 DEF KeptInv, CallPlain
<1>2. ASSUME NEW d \in Devices, NEW w \in Writers, NEW c \in Contents, StartSet(d, w, c)
      PROVE  KeptInv'
  <2> DEFINE r == db[d][Base]
             call == [kind |-> "set", key |-> Base, content |-> c,
                      event |-> ~Unchanged(r, c),
                      vv |-> IF Unchanged(r, c) THEN r.vv ELSE Bump(r.vv, d)]
  <2>1. db' = db /\ soul' = soul /\ edits' = edits /\ pend' = [pend EXCEPT ![d][w] = call]
    BY <1>2 DEF StartSet
  <2>2. CallPlain(d, call)
    BY DEF CallPlain, Unchanged
  <2> HIDE DEF call
  <2>3. \A x \in Devices, u \in Writers : CallPlain(x, pend'[x][u])
    BY <2>1, <2>2, <1>w DEF TypeOK
  <2> QED
    BY <2>1, <2>3 DEF KeptInv, CallPlain
<1>3. ASSUME NEW d \in Devices, NEW w \in Writers, NEW k \in Keys, StartDelete(d, w, k)
      PROVE  KeptInv'
  <2> DEFINE call == [kind |-> "delete", key |-> k, content |-> 0, event |-> TRUE,
                      vv |-> Bump(db[d][k].vv, d)]
  <2>1. db' = db /\ soul' = soul /\ edits' = edits /\ pend' = [pend EXCEPT ![d][w] = call]
    BY <1>3 DEF StartDelete
  <2>2. CallPlain(d, call)
    BY DEF CallPlain
  <2> HIDE DEF call
  <2>3. \A x \in Devices, u \in Writers : CallPlain(x, pend'[x][u])
    BY <2>1, <2>2, <1>w DEF TypeOK
  <2> QED
    BY <2>1, <2>3 DEF KeptInv, CallPlain
<1>4. ASSUME NEW d \in Devices, NEW w \in Writers, FinishSet(d, w)
      PROVE  KeptInv'
  <2> DEFINE p == pend[d][w]
             r == db[d][Base]
             new == [st |-> "live", content |-> p.content, vv |-> p.vv, tier |-> r.tier]
  <2>1. p.vv \in Vectors /\ p.content \in Contents \union {0} /\ p.kind = "set" /\ p.key = Base
        /\ p.event \in BOOLEAN
    BY <1>4, <1>w DEF FinishSet, Calls, Current, CallCurrent
  <2>2. db' = [db EXCEPT ![d][Base] = new] /\ soul' = soul
        /\ pend' = [pend EXCEPT ![d][w] = Idle]
    BY <1>4, <1>t, <1>b DEF FinishSet, Tables
  <2>3. db'[d][Base] = new /\ \A x \in Devices \ {d} : db'[x] = db[x]
    BY <2>2, <1>t, <1>b DEF TypeOK, Tables
  <2>4. CASE p.event
    <3> DEFINE e == [dev |-> d, vv |-> p.vv, content |-> p.content]
    <3>1. e \in Events /\ e.dev = d /\ e.vv = p.vv /\ e.content = p.content
      BY <2>1 DEF Events
    <3>2. edits' = edits \union {e}
      BY <1>4, <2>4 DEF FinishSet
    <3>3. p.vv = Bump(r.vv, d)
      BY <1>w, <2>1, <2>4 DEF CallPlain
    <3>4. Readable(db'[d], p.content) /\ db'[d][Base].vv = p.vv
      BY <2>3 DEF Readable, Live
    <3> HIDE DEF e, new, p
    <3> QED
      BY <1>n, <2>2, <2>3, <3>1, <3>2, <3>3, <3>4
  <2>5. CASE ~p.event
    <3>1. p.vv = r.vv /\ Live(r) /\ r.content = p.content
      BY <1>w, <2>1, <2>5 DEF CallPlain
    <3>2. new = r
      BY <3>1, <1>t DEF Rows, Live
    <3>3. edits' = edits
      BY <1>4, <2>5 DEF FinishSet
    <3>4. db' = db
      BY <2>2, <3>2, <1>t, <1>b DEF TypeOK, Tables
    <3>5. \A x \in Devices, u \in Writers : CallPlain(x, pend[x][u])'
      BY <2>2, <2>3, <1>p
    <3> QED
      BY <2>2, <3>3, <3>4, <3>5, <1>k, <1>e DEF KeptInv
  <2> QED
    BY <2>1, <2>4, <2>5
<1>5. ASSUME NEW d \in Devices, NEW w \in Writers, FinishDelete(d, w)
      PROVE  KeptInv'
  <2> DEFINE p == pend[d][w]
             new == [db[d][p.key] EXCEPT !.st = "dead", !.vv = p.vv]
  <2>1. p.vv \in Vectors /\ p.key \in Keys /\ p.kind = "delete" /\ p.event
    BY <1>5, <1>w DEF FinishDelete, Calls, CallPlain
  <2>a. db' = [db EXCEPT ![d][p.key] = new]
    BY <1>5, <1>v, <2>1 DEF FinishDelete, Tables
  <2>2. db' = [db EXCEPT ![d][p.key] = new] /\ soul' = soul
        /\ pend' = [pend EXCEPT ![d][w] = Idle]
    BY <1>5, <2>a DEF FinishDelete
  <2>3. new.vv = p.vv /\ Present(new)
    BY <2>1 DEF Present, TypeOK, Tables, Rows
  <2>4. db'[d][p.key] = new /\ \A x \in Devices \ {d} : db'[x] = db[x]
    BY <2>1, <2>2, <1>t DEF TypeOK, Tables
  <2>5. CASE p.key = Base
    <3> DEFINE e == [dev |-> d, vv |-> p.vv, content |-> 0]
    <3>1. e \in Events /\ e.dev = d /\ e.vv = p.vv /\ e.content = 0
      BY <2>1 DEF Events
    <3>2. edits' = edits \union {e}
      BY <1>5, <2>5 DEF FinishDelete
    <3>3. p.vv = Bump(db[d][Base].vv, d)
      BY <1>w, <2>1, <2>5 DEF CallPlain
    <3>4. db'[d][Base].vv = p.vv
      BY <2>3, <2>4, <2>5
    <3> HIDE DEF e, new, p
    <3> QED
      BY <1>n, <2>2, <2>4, <3>1, <3>2, <3>3, <3>4
  <2>6. CASE p.key # Base
    <3>1. edits' = edits
      BY <1>5, <2>6 DEF FinishDelete
    <3>2. \A k \in Keys : db'[d][k] = IF k = p.key THEN new ELSE db[d][k]
      BY <2>1, <2>2, <1>t DEF TypeOK, Tables
    <3>3. db'[d][Base] = db[d][Base]
      BY <3>2, <2>6, <1>b
    <3>4. \A c \in Contents : Present(db[d][c]) => Present(db'[d][c])
      BY <3>2, <2>3 DEF Keys
    <3>5. \A e \in edits : e.content # 0 => e.content \in Contents
      BY <1>t DEF Events
    <3> HIDE DEF new, p
    <3>6. KeepsEdits(edits, db'[d])
      BY <3>3, <3>4, <3>5, <1>k DEF KeepsEdits, Readable, LatestAmong, KnownAmong
    <3>7. \A x \in Devices : KeepsEdits(edits, db'[x])
      BY <2>4, <3>6, <1>k
    <3>8. \A x \in Devices, u \in Writers : CallPlain(x, pend[x][u])'
      BY <2>2, <2>4, <1>p
    <3> QED
      BY <2>2, <3>1, <3>7, <3>8, <1>k, <1>c DEF KeptInv
  <2> QED
    BY <2>5, <2>6
<1>6. ASSUME NEW d \in Devices, NEW w \in Writers, NEW e \in Devices, NEW policy \in Policies,
             Import(d, w, e, policy)
      PROVE  KeptInv'
  <2>1. /\ db' = [db EXCEPT ![d] = Imported(db[d], soul[e], policy)]
        /\ soul' = soul /\ pend' = pend /\ edits' = edits
    BY <1>6 DEF Import
  <2>2. Present(db[d][Base]) \/ db[d][Base].vv = Zero
    BY DEF Current
  <2>3. KeepsEdits(edits, Imported(db[d], soul[e], policy))
    BY <2>2, <1>t, <1>k, ImportKeeps
  <2>4. \A x \in Devices : KeepsEdits(edits, db'[x])
    BY <2>1, <2>3, <1>k DEF TypeOK
  <2>5. \A u \in Writers : pend[d][u] = Idle
    BY <1>6 DEF Import, Serial
  <2>6. \A x \in Devices \ {d} : db'[x] = db[x]
    BY <2>1 DEF TypeOK
  <2>7. pend' = [pend EXCEPT ![d][w] = Idle]
    BY <2>1, <2>5 DEF TypeOK
  <2>8. \A x \in Devices, u \in Writers : CallPlain(x, pend[x][u])'
    BY <2>6, <2>7, <1>p
  <2> QED
    BY <2>1, <2>4, <2>8, <1>k, <1>c DEF KeptInv
<1>7. CASE UNCHANGED vars
  BY <1>7 DEF vars, KeptInv, CallPlain
<1> QED
  BY <1>1, <1>2, <1>3, <1>4, <1>5, <1>6, <1>7 DEF Next

\* NoEditLost: where calls do not overlap, and whatever souls are merged in
\* whatever order, every edit of a device's history that nobody edited over is
\* to be read there, under its key or as a conflict copy.
THEOREM EditsKept == ASSUME Serial PROVE Spec => []NoEditLost
<1>1. Init => Current /\ KeptInv
  BY DEF Init, Current, OwnCounterLeads, CallCurrent, KeptInv, CallPlain, KeepsEdits,
         LatestAmong, KnownAmong, EmptyTable, NoRow, Zero, Idle, Keys
<1>2. KeptInv => NoEditLost
  BY DEF KeptInv, NoEditLost, KeepsEdits, Readable, LatestAmong, KnownAmong, Latest, Known
<1> QED
  BY <1>1, <1>2, TypeCorrect, CurrentStep, KeptStep, PTL DEF Spec

=============================================================================
