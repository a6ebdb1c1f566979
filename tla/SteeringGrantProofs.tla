------------------------- MODULE SteeringGrantProofs -------------------------
(***************************************************************************)
(* Proofs about SteeringGrant, for any sets of ids, behaviours and callers *)
(* and any bounds.  The calls of all callers may interleave at will, but   *)
(* in GrantsBoundToText and RevocationsHold, which are about one caller    *)
(* (of several they do not hold) and any interleaving of its calls with    *)
(* the clock, snapshots, rollbacks and the imports it fails or commits.    *)
(***************************************************************************)
EXTENDS SteeringGrant, TLAPS

-----------------------------------------------------------------------------
(* Shapes of rows and calls *)

\* The helpers that build rows build rows.
LEMMA RowTypes ==
  /\ NoRow \in Rows
  /\ \A r \in Rows, on \in BOOLEAN, g \in Nat : Switched(r, on, g) \in Rows
  /\ \A r \in Rows : Tombstone(r) \in Rows
  /\ \A r \in Rows : [r EXCEPT !.st = "live"] \in Rows
  /\ \A r \in Rows, n \in Nat : [r EXCEPT !.at = n] \in Rows
  /\ \A t \in Texts \union {NoText}, dead \in BOOLEAN, at \in Nat : Imported(t, dead, at) \in Rows
  BY DEF NoRow, Rows, Switched, Tombstone, Imported, NoGrant

\* A call is a well-formed record, and so are the calls imports decide on.
LEMMA CallTypes ==
  /\ \A kind \in Kinds, id \in Ids : Call(kind, id) \in Calls
  /\ Idle \in Calls /\ Idle.kind = "idle"
  /\ Importing \in Calls /\ Importing.kind = "import"
<1>1. \A kind \in Kinds, id \in Ids : Call(kind, id) \in Calls /\ Call(kind, id).kind = kind
  BY DEF Call, Calls, NoGrant
<1>2. (CHOOSE id \in Ids : TRUE) \in Ids
  BY ConstantsAssumption
<1>3. "idle" \in Kinds /\ "import" \in Kinds
  BY DEF Kinds
<1> QED
  BY <1>1, <1>2, <1>3 DEF Idle, Importing

\* What an import decides for a row is a write of that kind.
LEMMA DecisionTypes ==
  ASSUME NEW in \in Calls, in.kind = "write", NEW ex \in Rows, NEW dead \in BOOLEAN,
         NEW d \in Decisions(in, ex, dead)
  PROVE  d \in Calls /\ d.kind = "write"
<1>1. Taken(in, dead) \in Calls /\ Taken(in, dead).kind = "write"
  BY DEF Calls, Taken
<1>2. EditWins(in, dead) \in Calls /\ EditWins(in, dead).kind = "write"
  BY DEF Calls, EditWins
<1>3. ASSUME NEW w \in BOOLEAN, NEW k \in Ids
      PROVE  BothEdits(in, ex, w, k) \in Calls /\ BothEdits(in, ex, w, k).kind = "write"
  BY DEF Calls, Rows, BothEdits
<1> QED
  BY <1>1, <1>2, <1>3 DEF Decisions

\* The incoming row of an import is such a write to begin with.
LEMMA IncomingTypes ==
  ASSUME NEW id \in Ids, NEW t \in Texts, NEW at \in Nat
  PROVE  Incoming(id, t, at) \in Calls /\ Incoming(id, t, at).kind = "write"
  BY DEF Incoming, Call, Calls, Kinds, NoGrant

-----------------------------------------------------------------------------
(* Type correctness *)

\* Tables and pending calls as they are updated keep their types.
LEMMA UpdateTypes ==
  ASSUME row \in Tables, NEW id \in Ids, NEW new \in Rows
  PROVE  Update(id, new) \in Tables /\ [row EXCEPT ![id] = new] \in Tables
  BY DEF Update, Tables

\* Every step keeps every variable in its type.
LEMMA TypeStep == TypeOK /\ [Next]_vars => TypeOK'
<1> SUFFICES ASSUME TypeOK, [Next]_vars PROVE TypeOK'
  OBVIOUS
<1> USE DEF TypeOK, db, books
<1> DEFINE empty == [id \in Ids |-> NoRow]
<1>e. empty \in Tables
  BY RowTypes DEF Tables
<1>r. \A id \in Ids : row[id] \in Rows
  BY DEF Tables
<1>n. NoGrant \in Nat
  BY DEF NoGrant
<1>1. ASSUME NEW c \in Callers, NEW id \in Ids, NEW t \in Texts, StartPropose(c, id, t)
      PROVE  TypeOK'
  <2>1. Call("propose", id) \in Calls
    BY CallTypes DEF Kinds
  <2>2. \A e \in BOOLEAN, g \in Nat, b \in BOOLEAN :
          [Call("propose", id) EXCEPT !.text = t, !.enabled = e, !.grant = g, !.report = b] \in Calls
    BY <2>1 DEF Calls
  <2>3. row[id].enabled \in BOOLEAN /\ row[id].grant \in Nat
    BY <1>r DEF Rows
  <2>4. KeepGrant(row[id], t) \in BOOLEAN /\ Drops(row[id], KeepGrant(row[id], t)) \in BOOLEAN
    BY <2>3 DEF KeepGrant, Drops, Live
  <2>5. pend' \in [Callers -> Calls]
    BY <1>1, <1>n, <2>2, <2>3, <2>4 DEF StartPropose, Start
  <2> QED
    BY <1>1, <2>5 DEF StartPropose
<1>2. ASSUME NEW c \in Callers, NEW id \in Ids, NEW t \in Texts, SeedFromSpore(c, id, t)
      PROVE  TypeOK'
  <2>1. [st |-> "live", text |-> t, enabled |-> TRUE,
         declared |-> FALSE, grant |-> NoGrant, at |-> now] \in Rows
    BY <1>n DEF Rows
  <2> QED
    BY <1>2, <2>1, UpdateTypes DEF SeedFromSpore
<1>3. ASSUME NEW c \in Callers, NEW id \in Ids, StartGrant(c, id)
      PROVE  TypeOK'
  <2>1. [Call("grant", id) EXCEPT !.text = row[id].text] \in Calls
    BY CallTypes, <1>r DEF Kinds, Calls, Rows
  <2> QED
    BY <1>3, <2>1 DEF StartGrant, Start
<1>4. ASSUME NEW c \in Callers, NEW id \in Ids, StartRevoke(c, id) \/ StartDelete(c, id)
      PROVE  TypeOK'
  <2>1. Call("revoke", id) \in Calls /\ Call("delete", id) \in Calls
    BY CallTypes DEF Kinds
  <2> QED
    BY <1>4, <2>1 DEF StartRevoke, StartDelete, Start
<1>5. ASSUME NEW c \in Callers, NEW id \in Ids, NEW t \in Texts, NEW dead \in BOOLEAN,
             NEW at \in 0 .. MaxNow, ImportRead(c, id, t, dead, at)
      PROVE  TypeOK'
  <2>1. at \in Nat
    BY ConstantsAssumption
  <2>2. PICK d \in Decisions(Incoming(id, t, at), row[id], dead) : pend' = [pend EXCEPT ![c] = d]
    BY <1>5 DEF ImportRead
  <2>3. d \in Calls
    BY <1>r, <2>1, DecisionTypes, IncomingTypes
  <2> QED
    BY <1>5, <2>2, <2>3 DEF ImportRead
<1>6. ASSUME NEW c \in Callers, FinishPropose(c)
      PROVE  TypeOK'
  <2> DEFINE p == pend[c]
  <2>1. p \in Calls
    OBVIOUS
  <2>2. [st |-> "live", text |-> p.text, enabled |-> p.enabled,
         declared |-> TRUE, grant |-> p.grant, at |-> now] \in Rows
    BY <2>1 DEF Calls, Rows
  <2>3. row' \in Tables
    BY <1>6, <2>1, <2>2, UpdateTypes DEF FinishPropose, Calls
  <2>4. withdrawn' \in SUBSET Nat
    BY <1>6, <1>r, <2>1 DEF FinishPropose, Withdraw, Calls, Rows
  <2>5. pend' \in [Callers -> Calls]
    BY <1>6, CallTypes DEF FinishPropose, Finish
  <2> QED
    BY <1>6, <2>3, <2>4, <2>5 DEF FinishPropose
<1>7. ASSUME NEW c \in Callers, FinishGrant(c)
      PROVE  TypeOK'
  <2> DEFINE id == pend[c].id
  <2>1. pend[c] \in Calls /\ id \in Ids /\ pend[c].text \in Texts \union {NoText}
    BY DEF Calls
  <2>2. NextGrant \in Nat /\ NextGrant = lastGrant + 1
    BY DEF NextGrant
  <2>3. lastGrant' \in 0 .. MaxGrants
    BY <1>7, <2>2, ConstantsAssumption DEF FinishGrant
  <2>4. [Switched(row[id], TRUE, NextGrant) EXCEPT !.at = now] \in Rows
    BY <1>r, <2>1, <2>2, RowTypes
  <2>5. row' \in Tables
    BY <1>7, <2>1, <2>4, UpdateTypes DEF FinishGrant
  <2>6. issued' \in SUBSET [id: Ids, no: 1 .. lastGrant', text: Texts \union {NoText}]
    <3>1. lastGrant' = lastGrant + 1 /\ lastGrant \in Nat
      BY <1>7, <2>2 DEF FinishGrant
    <3>2. \A r \in issued : r \in [id: Ids, no: 1 .. lastGrant', text: Texts \union {NoText}]
      BY <3>1
    <3>3. [id |-> id, no |-> NextGrant, text |-> pend[c].text]
            \in [id: Ids, no: 1 .. lastGrant', text: Texts \union {NoText}]
      BY <2>1, <2>2, <3>1
    <3> QED
      BY <1>7, <3>2, <3>3 DEF FinishGrant
  <2>7. pend' \in [Callers -> Calls]
    BY <1>7, CallTypes DEF FinishGrant, Finish
  <2> QED
    BY <1>7, <2>3, <2>5, <2>6, <2>7 DEF FinishGrant
<1>8. ASSUME NEW c \in Callers, FinishRevoke(c) \/ FinishDelete(c)
      PROVE  TypeOK'
  <2> DEFINE id == pend[c].id
  <2>1. id \in Ids
    BY DEF Calls
  <2>2. /\ [Switched(row[id], FALSE, NoGrant) EXCEPT !.at = now] \in Rows
        /\ Tombstone(row[id]) \in Rows
    BY <1>r, <1>n, <2>1, RowTypes
  <2>3. row' \in Tables
    BY <1>8, <2>1, <2>2, UpdateTypes DEF FinishRevoke, FinishDelete
  <2>4. withdrawn' \in SUBSET Nat
    BY <1>8, <1>r, <2>1 DEF FinishRevoke, FinishDelete, Withdraw, Rows
  <2>5. pend' \in [Callers -> Calls]
    BY <1>8, CallTypes DEF FinishRevoke, FinishDelete, Finish
  <2> QED
    BY <1>8, <2>3, <2>4, <2>5 DEF FinishRevoke, FinishDelete
<1>9. ASSUME NEW c \in Callers, ImportBegin(c) \/ ImportCommit(c) \/ ImportFail(c)
      PROVE  TypeOK'
  BY <1>9, <1>e, CallTypes DEF ImportBegin, ImportCommit, ImportFail, Start, Finish
<1>10. ASSUME NEW c \in Callers, ImportWrite(c)
       PROVE  TypeOK'
  <2> DEFINE p == pend[c]
  <2>1. p \in Calls /\ p.id \in Ids /\ p.copy \in Ids
    BY DEF Calls
  <2>2. Imported(p.text, p.dead, p.at) \in Rows /\ ConflictCopy(p) \in Rows
    BY <2>1, RowTypes DEF Calls, ConflictCopy
  <2>3. [row[p.id] EXCEPT !.st = "live"] \in Rows
    BY <1>r, <2>1, RowTypes
  <2>4. row' \in Tables
    BY <1>10, <2>1, <2>2, <2>3 DEF ImportWrite, Update, Tables
  <2> QED
    BY <1>10, <2>4, CallTypes DEF ImportWrite
<1>11. ASSUME NEW c \in Callers, Snapshot(c)
       PROVE  TypeOK'
  BY <1>11 DEF Snapshot
<1>12. ASSUME NEW c \in Callers, NEW s \in snaps,
              RollbackForwardMerge(c, s) \/ RollbackReplace(c, s)
       PROVE  TypeOK'
  <2>1. \A id \in Ids : ForwardMerged(row[id], s[id]) \in Rows
    BY <1>r, <1>n, RowTypes DEF ForwardMerged, Tables
  <2>2. [id \in Ids |-> ForwardMerged(row[id], s[id])] \in Tables
    BY <2>1 DEF Tables
  <2>3. row' \in Tables
    BY <1>12, <2>2 DEF RollbackForwardMerge, RollbackReplace, Restore
  <2>4. snaps' \in SUBSET Tables
    BY <1>12 DEF RollbackForwardMerge, RollbackReplace, WithSafety
  <2> QED
    BY <1>12, <2>3, <2>4 DEF RollbackForwardMerge, RollbackReplace, Restore
<1>13. ASSUME Tick PROVE TypeOK'
  BY <1>13 DEF Tick
<1>14. CASE UNCHANGED vars
  BY <1>14 DEF vars
<1> QED
  BY <1>1, <1>2, <1>3, <1>4, <1>5, <1>6, <1>7, <1>8, <1>9, <1>10, <1>11, <1>12, <1>13, <1>14
  DEF Next

\* TypeOK holds of every behaviour, with any number of overlapping calls.
THEOREM TypeCorrect == Spec => []TypeOK
<1>1. Init => TypeOK
  <2> SUFFICES ASSUME Init PROVE TypeOK
    OBVIOUS
  <2>1. row \in Tables /\ saved \in Tables
    BY RowTypes DEF Init, Tables
  <2>2. pend \in [Callers -> Calls]
    BY CallTypes DEF Init
  <2>3. lastGrant \in 0 .. MaxGrants
    BY ConstantsAssumption DEF Init
  <2> QED
    BY <2>1, <2>2, <2>3 DEF Init, TypeOK
<1> QED
  BY <1>1, TypeStep, PTL DEF Spec

-----------------------------------------------------------------------------
(* The grant floor.  GrantFloor alone is not inductive: a proposal in flight  *)
(* carries an enabled flag and a grant it read earlier, and a ROLLBACK or a   *)
(* snapshot brings back rows written earlier.  What is inductive is that all  *)
(* of them are backed: enabled under a grant given to that id, or ungranted   *)
(* on an id a spore installed and with no origin declared.                    *)

\* A grant of number g was given to rule id.
Given(id, g) == \E r \in issued : r.id = id /\ r.no = g

BackedRow(id, r) ==
  /\ r.grant # NoGrant => Given(id, r.grant)
  /\ r.enabled /\ r.grant = NoGrant => id \in seeded /\ ~r.declared

BackedTable(table) == \A id \in Ids : BackedRow(id, table[id])

BackedCall(p) ==
  p.kind = "propose" =>
    /\ p.grant # NoGrant => Given(p.id, p.grant)
    /\ p.enabled => p.grant # NoGrant

Backed ==
  /\ BackedTable(row)
  /\ BackedTable(saved)
  /\ \A table \in snaps : BackedTable(table)
  /\ \A c \in Callers : BackedCall(pend[c])

\* Backing is only ever added, so what is left to show of a step is that the
\* rows it writes and the calls it starts are backed.
LEMMA BackedStep ==
  ASSUME TypeOK, Backed, issued \subseteq issued', seeded \subseteq seeded',
         \A id \in Ids : BackedRow(id, row[id])' \/ row'[id] = row[id] \/ row'[id] = saved[id]
                          \/ \E s \in snaps : row'[id] = s[id],
         \A id \in Ids : saved'[id] \in {saved[id], row[id], NoRow},
         snaps' \subseteq snaps \union {row},
         \A c \in Callers : pend'[c] = pend[c] \/ BackedCall(pend[c])'
  PROVE  Backed'
<1>1. \A id \in Ids : \A r : BackedRow(id, r) =>
        /\ r.grant # NoGrant => Given(id, r.grant)'
        /\ r.enabled /\ r.grant = NoGrant => id \in seeded' /\ ~r.declared
  BY DEF BackedRow, Given
<1>2. \A id \in Ids : /\ BackedRow(id, row[id]) /\ BackedRow(id, saved[id])
                       /\ \A s \in snaps : BackedRow(id, s[id])
  BY DEF Backed, BackedTable
<1>3. BackedTable(row)'
  BY <1>1, <1>2 DEF BackedTable, BackedRow
<1>4. \A id \in Ids : BackedRow(id, NoRow)
  BY DEF BackedRow, NoRow, NoGrant
<1>5. BackedTable(saved)'
  BY <1>1, <1>2, <1>4 DEF BackedTable, BackedRow
<1>6. (\A table \in snaps : BackedTable(table))'
  BY <1>1, <1>2 DEF BackedTable, BackedRow
<1>7. (\A c \in Callers : BackedCall(pend[c]))'
  BY DEF Backed, BackedCall, Given
<1> QED
  BY <1>3, <1>5, <1>6, <1>7 DEF Backed

\* Every step keeps everything backed.
LEMMA BackedNext == TypeOK /\ Backed /\ [Next]_vars => Backed'
<1> SUFFICES ASSUME TypeOK, Backed, [Next]_vars PROVE Backed'
  OBVIOUS
<1>r. \A id \in Ids : row[id] \in Rows /\ BackedRow(id, row[id])
  BY DEF TypeOK, Tables, Backed, BackedTable
<1>c. \A c \in Callers : pend[c] \in Calls /\ BackedCall(pend[c])
  BY DEF TypeOK, Backed
<1>f. row \in [Ids -> Rows] /\ pend \in [Callers -> Calls]
  BY DEF TypeOK, Tables
<1> DEFINE Off(r) == ~r.enabled /\ r.grant = NoGrant
<1>o. \A id, r : Off(r) => BackedRow(id, r)'
  BY DEF BackedRow
<1>s. \A r \in Rows : /\ Off(Switched(r, FALSE, NoGrant))
                      /\ Off([Switched(r, FALSE, NoGrant) EXCEPT !.at = now])
                      /\ Off([Switched(r, FALSE, NoGrant) EXCEPT !.st = "live"])
                      /\ Off(Tombstone(r))
  BY DEF Rows, Switched, Tombstone
<1>i. \A t, dead, at : Off(Imported(t, dead, at))
  BY DEF Imported
<1>k. \A r \in Rows, id \in Ids : BackedRow(id, r) => BackedRow(id, [r EXCEPT !.st = "live"])
  BY DEF BackedRow, Rows
<1> HIDE DEF Off
<1>1. ASSUME NEW c \in Callers, NEW id \in Ids, NEW t \in Texts, StartPropose(c, id, t)
      PROVE  Backed'
  <2> DEFINE ex == row[id]
             kept == KeepGrant(ex, t)
             call == [Call("propose", id) EXCEPT
                        !.text = t, !.enabled = kept /\ ex.enabled,
                        !.grant = IF kept THEN ex.grant ELSE NoGrant,
                        !.report = Drops(ex, kept)]
  <2>1. pend' = [pend EXCEPT ![c] = call]
    BY <1>1 DEF StartPropose, Start
  <2>2. call.id = id /\ call.enabled = (kept /\ ex.enabled)
        /\ call.grant = (IF kept THEN ex.grant ELSE NoGrant)
    BY DEF Call
  <2>3. kept => ex.grant # NoGrant
    BY DEF KeepGrant
  <2>4. BackedRow(id, ex)
    BY <1>r
  <2> HIDE DEF kept, call
  <2>5. BackedCall(call)
    BY <2>2, <2>3, <2>4 DEF BackedCall, BackedRow
  <2>6. pend'[c] = call /\ \A k \in Callers : k # c => pend'[k] = pend[k]
    BY <1>f, <2>1
  <2>7. issued' = issued /\ seeded' = seeded
    BY <1>1 DEF StartPropose, books
  <2>8. \A k \in Callers : pend'[k] = pend[k] \/ BackedCall(pend[k])'
    BY <2>5, <2>6, <2>7 DEF BackedCall, Given
  <2> QED
    BY <1>1, <2>8, BackedStep DEF StartPropose, db, books
<1>2. ASSUME NEW c \in Callers, NEW id \in Ids, NEW t \in Texts, SeedFromSpore(c, id, t)
      PROVE  Backed'
  <2>1. \A i \in Ids : i # id => row'[i] = row[i]
    BY <1>2, <1>f DEF SeedFromSpore
  <2>2. id \in seeded' /\ row'[id].enabled /\ row'[id].grant = NoGrant /\ ~row'[id].declared
    BY <1>2, <1>f DEF SeedFromSpore
  <2>3. BackedRow(id, row[id])'
    BY <2>2 DEF BackedRow
  <2> QED
    BY <1>2, <2>1, <2>3, BackedStep DEF SeedFromSpore
<1>3. ASSUME NEW c \in Callers, NEW id \in Ids,
             StartGrant(c, id) \/ StartRevoke(c, id) \/ StartDelete(c, id)
      PROVE  Backed'
  <2>1. pend'[c].kind \in {"grant", "revoke", "delete"}
    BY <1>3, <1>f DEF StartGrant, StartRevoke, StartDelete, Start, Call
  <2>2. BackedCall(pend[c])'
    BY <2>1 DEF BackedCall
  <2>3. \A k \in Callers : k # c => pend'[k] = pend[k]
    BY <1>3, <1>f DEF StartGrant, StartRevoke, StartDelete, Start
  <2> QED
    BY <1>3, <2>2, <2>3, BackedStep DEF StartGrant, StartRevoke, StartDelete, db, books
<1>4. ASSUME NEW c \in Callers, NEW id \in Ids, NEW t \in Texts, NEW dead \in BOOLEAN,
             NEW at \in 0 .. MaxNow, ImportRead(c, id, t, dead, at)
      PROVE  Backed'
  <2>1. PICK d \in Decisions(Incoming(id, t, at), row[id], dead) : pend' = [pend EXCEPT ![c] = d]
    BY <1>4 DEF ImportRead
  <2>2. at \in Nat
    BY ConstantsAssumption
  <2>3. d.kind = "write"
    BY <1>r, <2>2, DecisionTypes, IncomingTypes
  <2>4. BackedCall(pend[c])'
    BY <1>f, <2>1, <2>3 DEF BackedCall
  <2>5. \A k \in Callers : k # c => pend'[k] = pend[k]
    BY <1>f, <2>1
  <2> QED
    BY <1>4, <2>4, <2>5, BackedStep DEF ImportRead, db, books
<1> DEFINE others(c) == \A k \in Callers : pend'[k] = pend[k] \/ BackedCall(pend[k])'
<1>p. ASSUME NEW c \in Callers,
             pend' = [pend EXCEPT ![c] = Idle] \/ pend' = [pend EXCEPT ![c] = Importing]
      PROVE  others(c)
  BY <1>p, <1>f, CallTypes DEF BackedCall
<1>5. ASSUME NEW c \in Callers, FinishPropose(c)
      PROVE  Backed'
  <2> DEFINE p == pend[c]
  <2>1. p.id \in Ids /\ p.kind = "propose" /\ BackedCall(p)
    BY <1>5, <1>c DEF FinishPropose, Finish, Calls
  <2>2. row'[p.id].grant = p.grant /\ row'[p.id].enabled = p.enabled
        /\ \A i \in Ids : i # p.id => row'[i] = row[i]
    BY <1>5, <1>f, <2>1 DEF FinishPropose
  <2>3. issued' = issued
    BY <1>5 DEF FinishPropose
  <2> HIDE DEF p
  <2>4. \A i \in Ids : BackedRow(i, row[i])' \/ row'[i] = row[i]
    BY <2>1, <2>2, <2>3 DEF BackedRow, BackedCall, Given
  <2>5. others(c)
    BY <1>5, <1>p DEF FinishPropose, Finish
  <2> QED
    BY <1>5, <2>4, <2>5, BackedStep DEF FinishPropose
<1>6. ASSUME NEW c \in Callers, FinishGrant(c)
      PROVE  Backed'
  <2> DEFINE id == pend[c].id
             new == [Switched(row[id], TRUE, NextGrant) EXCEPT !.at = now]
  <2>1. id \in Ids /\ NextGrant # NoGrant
    BY <1>c DEF Calls, NextGrant, NoGrant, TypeOK
  <2>2. new.grant = NextGrant
    BY <1>r, <2>1 DEF Switched, Rows
  <2>3. \E r \in issued' : r.id = id /\ r.no = NextGrant
    <3>1. [id |-> id, no |-> NextGrant, text |-> pend[c].text] \in issued'
      BY <1>6 DEF FinishGrant
    <3> QED
      BY <3>1
  <2> HIDE DEF new
  <2>4. \A i \in Ids : row'[i] = row[i] \/ (i = id /\ row'[i] = new)
    BY <1>6, <1>f, <2>1 DEF FinishGrant, Update, new
  <2> HIDE DEF id
  <2>5. \A i \in Ids : \/ row'[i] = row[i]
                       \/ /\ row'[i].grant # NoGrant
                          /\ \E r \in issued' : r.id = i /\ r.no = row'[i].grant
    BY <2>1, <2>2, <2>3, <2>4
  <2>6. \A i \in Ids : BackedRow(i, row[i])' \/ row'[i] = row[i]
    BY <2>5 DEF BackedRow, Given
  <2>7. others(c)
    BY <1>6, <1>p DEF FinishGrant, Finish
  <2> QED
    BY <1>6, <2>6, <2>7, BackedStep DEF FinishGrant
<1>7. ASSUME NEW c \in Callers, FinishRevoke(c) \/ FinishDelete(c)
      PROVE  Backed'
  <2>1. \A i \in Ids : Off(row'[i]) \/ row'[i] = row[i]
    BY <1>7, <1>f, <1>c, <1>s DEF FinishRevoke, FinishDelete, Update, Calls
  <2>2. others(c)
    BY <1>7, <1>p DEF FinishRevoke, FinishDelete, Finish
  <2> QED
    BY <1>7, <1>o, <2>1, <2>2, BackedStep DEF FinishRevoke, FinishDelete
<1>8. ASSUME NEW c \in Callers, ImportBegin(c) \/ ImportCommit(c) \/ ImportFail(c)
      PROVE  Backed'
  <2>1. others(c)
    BY <1>8, <1>p DEF ImportBegin, ImportCommit, ImportFail, Start, Finish
  <2> QED
    BY <1>8, <2>1, BackedStep DEF ImportBegin, ImportCommit, ImportFail, books
<1>9. ASSUME NEW c \in Callers, ImportWrite(c)
      PROVE  Backed'
  <2> DEFINE p == pend[c]
  <2>1. p.id \in Ids /\ p.copy \in Ids
    BY <1>c DEF Calls
  <2>2. Off(Imported(p.text, p.dead, p.at)) /\ Off(ConflictCopy(p))
    BY <1>i DEF ConflictCopy
  <2>3. BackedRow(p.id, [row[p.id] EXCEPT !.st = "live"])
    BY <1>r, <1>k, <2>1
  <2>4. \A i \in Ids : \/ Off(row'[i])
                       \/ row'[i] = row[i]
                       \/ i = p.id /\ row'[i] = [row[p.id] EXCEPT !.st = "live"]
    BY <1>9, <1>f, <2>1, <2>2 DEF ImportWrite, Update
  <2>5. issued' = issued /\ seeded' = seeded
    BY <1>9 DEF ImportWrite, books
  <2>6. \A i, r : BackedRow(i, r) => BackedRow(i, r)'
    BY <2>5 DEF BackedRow, Given
  <2>7. \A i \in Ids : BackedRow(i, row[i])' \/ row'[i] = row[i]
    BY <1>o, <2>3, <2>4, <2>6
  <2>8. others(c)
    BY <1>9, <1>p DEF ImportWrite
  <2> QED
    BY <1>9, <2>7, <2>8, BackedStep DEF ImportWrite, books
<1>10. ASSUME NEW c \in Callers, Snapshot(c)
       PROVE  Backed'
  BY <1>10, BackedStep DEF Snapshot, books
<1>11. ASSUME NEW c \in Callers, NEW s \in snaps, RollbackReplace(c, s)
       PROVE  Backed'
  <2>1. snaps' \subseteq snaps \union {row}
    BY <1>11 DEF RollbackReplace, WithSafety
  <2> QED
    BY <1>11, <2>1, BackedStep DEF RollbackReplace, Restore
<1>12. ASSUME NEW c \in Callers, NEW s \in snaps, RollbackForwardMerge(c, s)
       PROVE  Backed'
  <2>1. snaps' \subseteq snaps \union {row}
    BY <1>12 DEF RollbackForwardMerge, WithSafety
  <2>2. \A i \in Ids : s[i] \in Rows /\ BackedRow(i, s[i])
    BY DEF TypeOK, Tables, Backed, BackedTable
  <2>3. issued' = issued /\ seeded' = seeded
    BY <1>12 DEF RollbackForwardMerge, Restore
  <2>4. \A i \in Ids : \/ row'[i] = row[i]
                       \/ row'[i] = [s[i] EXCEPT !.st = "live"]
                       \/ row'[i] = [Switched(s[i], FALSE, NoGrant) EXCEPT !.st = "live"]
    BY <1>12 DEF RollbackForwardMerge, Restore, ForwardMerged
  <2>5. \A i \in Ids : BackedRow(i, [s[i] EXCEPT !.st = "live"])
    BY <1>k, <2>2
  <2>6. \A i, r : BackedRow(i, r) => BackedRow(i, r)'
    BY <2>3 DEF BackedRow, Given
  <2>7. \A i \in Ids : BackedRow(i, row[i])' \/ row'[i] = row[i]
    BY <1>o, <1>s, <2>2, <2>4, <2>5, <2>6
  <2> QED
    BY <1>12, <2>1, <2>7, BackedStep DEF RollbackForwardMerge, Restore
<1>13. CASE Tick
  BY <1>13, BackedStep DEF Tick, db, books
<1>14. CASE UNCHANGED vars
  BY <1>14, BackedStep DEF vars
<1> QED
  BY <1>1, <1>2, <1>3, <1>4, <1>5, <1>6, <1>7, <1>8, <1>9, <1>10, <1>11, <1>12, <1>13, <1>14
  DEF Next

\* Everything is backed in every reachable state.
LEMMA AlwaysBacked == Spec => []Backed
<1>1. Init => Backed
  <2> SUFFICES ASSUME Init PROVE Backed
    OBVIOUS
  <2>1. \A id \in Ids : BackedRow(id, NoRow)
    BY DEF BackedRow, NoRow, NoGrant
  <2>2. BackedTable(row) /\ BackedTable(saved)
    BY <2>1 DEF Init, BackedTable
  <2>3. \A c \in Callers : BackedCall(pend[c])
    BY CallTypes DEF Init, BackedCall
  <2> QED
    BY <2>2, <2>3 DEF Init, Backed
<1> QED
  BY <1>1, BackedNext, TypeCorrect, PTL DEF Spec

\* GrantFloor: the storage CHECK never has to refuse a write, whatever calls
\* overlap and whatever is imported or rolled back.
THEOREM FloorHolds == Spec => []GrantFloor
<1>1. Backed => GrantFloor
  BY DEF Backed, BackedTable, BackedRow, GrantFloor
<1> QED
  BY <1>1, AlwaysBacked, PTL

-----------------------------------------------------------------------------
(* Refinement: SteeringGrant implements GrantAuthority. *)

\* The given grants as GrantAuthority sees them.
Pairs == {<<g.id, g.no>> : g \in issued}

\* Every rule has a status that its id has a backing for.
LEMMA StatusBacked ==
  TypeOK /\ Backed => \A id \in Ids : Status(row[id]) \in Authority!Backings(id)
<1> SUFFICES ASSUME TypeOK, Backed, NEW id \in Ids
             PROVE  Status(row[id]) \in Authority!Backings(id)
  OBVIOUS
<1> DEFINE r == row[id]
<1>1. BackedRow(id, r) /\ r.grant \in Nat
  BY DEF Backed, BackedTable, TypeOK, Tables, Rows
<1>2. CASE ~(Live(r) /\ r.enabled)
  BY <1>2 DEF Status, Authority!Backings, Authority!Off
<1>3. CASE Live(r) /\ r.enabled /\ r.grant # NoGrant
  <2> DEFINE pair == <<id, r.grant>>
  <2>1. PICK g \in issued : g.id = id /\ g.no = r.grant
    BY <1>1, <1>3 DEF BackedRow, Given
  <2>2. pair \in Pairs
    BY <2>1 DEF Pairs
  <2>3. pair[1] = id /\ pair[2] = r.grant
    OBVIOUS
  <2>4. Status(r) = Authority!ByGrant(pair[2])
    BY <1>3, <2>3 DEF Status, Authority!ByGrant
  <2>5. pair \in {q \in Pairs : q[1] = id}
    BY <2>2, <2>3
  <2> HIDE DEF pair
  <2>6. Status(r) \in {Authority!ByGrant(q[2]) : q \in {q \in Pairs : q[1] = id}}
    BY <2>4, <2>5
  <2> QED
    BY <2>6 DEF Authority!Backings, Pairs
<1>4. CASE Live(r) /\ r.enabled /\ r.grant = NoGrant
  <2>1. id \in seeded
    BY <1>1, <1>4 DEF BackedRow
  <2>2. Status(r) = [by |-> "spore", no |-> 0]
    BY <1>4 DEF Status
  <2> QED
    BY <2>1, <2>2 DEF Authority!Backings, Authority!BySpore
<1> QED
  BY <1>2, <1>3, <1>4

\* A step that gives no grant and installs nothing can only rearrange.
LEMMA Rearranges ==
  ASSUME TypeOK', Backed', issued' = issued, seeded' = seeded
  PROVE  Authority!Rearrange
<1> DEFINE B(id) == Authority!Backings(id)
<1>1. \A id \in Ids : Status(row'[id]) \in Authority!Backings(id)'
  <2>1. (\A id \in Ids : Status(row[id]) \in Authority!Backings(id))'
    BY StatusBacked, PTL
  <2> QED
    BY <2>1 DEF Status, Live, NoGrant
<1>2. \A id \in Ids : Authority!Backings(id)' = B(id)
  BY DEF Authority!Backings, Authority!ByGrant, Authority!BySpore, Authority!Off
<1>3. \A id \in Ids : Status(row'[id]) \in B(id)
  BY <1>1, <1>2
<1>4. \A id \in Ids : B(id) \subseteq
         {Authority!Off, Authority!BySpore} \union {Authority!ByGrant(pair[2]) : pair \in Pairs}
  BY DEF Authority!Backings, Pairs
<1>5. [id \in Ids |-> Status(row'[id])]
        \in [Ids -> {Authority!Off, Authority!BySpore} \union {Authority!ByGrant(pair[2]) : pair \in Pairs}]
  BY <1>3, <1>4
<1>6. [id \in Ids |-> Status(row[id])]' = [id \in Ids |-> Status(row'[id])]
  BY DEF Status, Live, NoGrant
<1> QED
  BY <1>3, <1>5, <1>6 DEF Authority!Rearrange, Pairs

\* A grant that lands is one that was never given before, and it goes to the
\* rule it was given for, if that is still live.
LEMMA GrantIssues ==
  ASSUME TypeOK, TypeOK', NEW c \in Callers, FinishGrant(c)
  PROVE  \E id \in Ids, n \in 1 .. MaxGrants : Authority!Issue(id, n)
<1> DEFINE id == pend[c].id
           n  == NextGrant
           stat == [i \in Ids |-> Status(row[i])]
<1>1. id \in Ids
  BY DEF TypeOK, Calls
<1>2. n \in 1 .. MaxGrants /\ n \notin 1 .. lastGrant /\ n # NoGrant
  BY ConstantsAssumption DEF FinishGrant, NextGrant, TypeOK, NoGrant
<1>3. \A g \in issued : g.no \in 1 .. lastGrant
  BY DEF TypeOK
<1>4. \A pair \in Pairs : pair[2] # n
  BY <1>2, <1>3 DEF Pairs
<1>5. issued' = issued \union {[id |-> id, no |-> n, text |-> pend[c].text]}
  BY DEF FinishGrant
<1>6. Pairs' = Pairs \union {<<id, n>>}
  <2> DEFINE new == [id |-> id, no |-> n, text |-> pend[c].text]
  <2>1. new.id = id /\ new.no = n
    OBVIOUS
  <2> HIDE DEF new, id, n
  <2>2. issued' = issued \union {new}
    BY <1>5 DEF new, id, n
  <2> QED
    BY <2>1, <2>2 DEF Pairs
<1>7. \A i \in Ids \ {id} : row'[i] = row[i]
  BY DEF FinishGrant, Update, TypeOK, Tables
<1>8. row[id] \in Rows /\ row \in Tables
  BY <1>1 DEF TypeOK, Tables
<1>9. \/ row'[id] = row[id]
      \/ row'[id] = [Switched(row[id], TRUE, n) EXCEPT !.at = now]
  BY <1>1, <1>8 DEF FinishGrant, Update, Tables
<1>10. Status(row'[id]) \in {Status(row[id]), Authority!ByGrant(n)}
  <2>1. CASE row'[id] = row[id]
    BY <2>1
  <2>2. CASE row'[id] = [Switched(row[id], TRUE, n) EXCEPT !.at = now]
    <3> DEFINE r == row[id]
               q == [Switched(r, TRUE, n) EXCEPT !.at = now]
    <3>1. q.st = r.st /\ q.enabled = TRUE /\ q.grant = n
      BY <1>8 DEF Switched, Rows
    <3> HIDE DEF q, n
    <3>2. CASE r.st = "live"
      BY <3>1, <3>2, <1>2, <2>2 DEF Status, Live, Authority!ByGrant, q
    <3>3. CASE r.st # "live"
      BY <3>1, <3>3, <2>2 DEF Status, Live, q
    <3> QED
      BY <3>2, <3>3
  <2> QED
    BY <1>9, <2>1, <2>2
<1>11. PICK s \in {stat[id], Authority!ByGrant(n)} : s = Status(row'[id])
  BY <1>1, <1>10
<1>12. [i \in Ids |-> Status(row'[i])] = [stat EXCEPT ![id] = s]
  BY <1>1, <1>7, <1>11
<1>13. [i \in Ids |-> Status(row[i])]' = [i \in Ids |-> Status(row'[i])]
  BY DEF Status, Live, NoGrant
<1>14. seeded' = seeded
  BY DEF FinishGrant
<1> HIDE DEF id, n
<1> QED
  BY <1>1, <1>2, <1>4, <1>6, <1>11, <1>12, <1>13, <1>14 DEF Authority!Issue, Pairs

\* A spore switches on a rule that was off, because it was not there.
LEMMA SporeInstalls ==
  ASSUME TypeOK, NEW c \in Callers, NEW id \in Ids, NEW t \in Texts, SeedFromSpore(c, id, t)
  PROVE  Authority!Install(id)
<1> DEFINE stat == [i \in Ids |-> Status(row[i])]
           new == [st |-> "live", text |-> t, enabled |-> TRUE,
                   declared |-> FALSE, grant |-> NoGrant, at |-> now]
<1>1. Status(row[id]) = Authority!Off
  BY DEF SeedFromSpore, Status, Live, Authority!Off
<1>2. Status(new) = Authority!BySpore
  BY DEF Status, Live, Authority!BySpore
<1>3. row' = [row EXCEPT ![id] = new] /\ row \in Tables
  BY DEF SeedFromSpore, TypeOK
<1> HIDE DEF new
<1>4. [i \in Ids |-> Status(row'[i])] = [stat EXCEPT ![id] = Authority!BySpore]
  BY <1>2, <1>3 DEF Tables
<1>5. [i \in Ids |-> Status(row[i])]' = [i \in Ids |-> Status(row'[i])]
  BY DEF Status, Live, NoGrant
<1>6. seeded' = seeded \union {id} /\ issued' = issued
  BY DEF SeedFromSpore
<1> QED
  BY <1>1, <1>4, <1>5, <1>6 DEF Authority!Install

\* Every step is a step of the authority's, or changes nothing it can see.
LEMMA AuthorityStep ==
  TypeOK /\ TypeOK' /\ Backed' /\ [Next]_vars => [Authority!Next]_(Authority!vars)
<1> SUFFICES ASSUME TypeOK, TypeOK', Backed', [Next]_vars
             PROVE  Authority!Next
  OBVIOUS
<1>1. ASSUME NEW c \in Callers, FinishGrant(c)
      PROVE  Authority!Next
  BY <1>1, GrantIssues DEF Authority!Next
<1>2. ASSUME NEW c \in Callers, NEW id \in Ids, NEW t \in Texts, SeedFromSpore(c, id, t)
      PROVE  Authority!Next
  BY <1>2, SporeInstalls DEF Authority!Next
<1>3. CASE issued' = issued /\ seeded' = seeded
  BY <1>3, Rearranges DEF Authority!Next
<1> QED
  <2>1. ASSUME NEW c \in Callers, NEW id \in Ids, NEW t \in Texts, StartPropose(c, id, t)
        PROVE  issued' = issued /\ seeded' = seeded
    BY <2>1 DEF StartPropose, books
  <2>2. ASSUME NEW c \in Callers, NEW id \in Ids,
               StartGrant(c, id) \/ StartRevoke(c, id) \/ StartDelete(c, id)
        PROVE  issued' = issued /\ seeded' = seeded
    BY <2>2 DEF StartGrant, StartRevoke, StartDelete, books
  <2>3. ASSUME NEW c \in Callers, FinishPropose(c) \/ FinishRevoke(c) \/ FinishDelete(c)
        PROVE  issued' = issued /\ seeded' = seeded
    BY <2>3 DEF FinishPropose, FinishRevoke, FinishDelete
  <2>4. ASSUME NEW c \in Callers, NEW id \in Ids, NEW t \in Texts, NEW dead \in BOOLEAN,
               NEW at \in 0 .. MaxNow, ImportRead(c, id, t, dead, at)
        PROVE  issued' = issued /\ seeded' = seeded
    BY <2>4 DEF ImportRead, books
  <2>5. ASSUME NEW c \in Callers,
               ImportBegin(c) \/ ImportWrite(c) \/ ImportCommit(c) \/ ImportFail(c) \/ Snapshot(c)
        PROVE  issued' = issued /\ seeded' = seeded
    BY <2>5 DEF ImportBegin, ImportWrite, ImportCommit, ImportFail, Snapshot, books
  <2>6. ASSUME NEW c \in Callers, NEW s \in snaps,
               RollbackForwardMerge(c, s) \/ RollbackReplace(c, s)
        PROVE  issued' = issued /\ seeded' = seeded
    BY <2>6 DEF RollbackForwardMerge, RollbackReplace, Restore
  <2>7. ASSUME Tick \/ UNCHANGED vars
        PROVE  issued' = issued /\ seeded' = seeded
    BY <2>7 DEF Tick, vars, books
  <2> QED
    BY <1>1, <1>2, <1>3, <2>1, <2>2, <2>3, <2>4, <2>5, <2>6, <2>7 DEF Next

\* OnlyByAuthority: no grant is invented and none moves to another rule,
\* through any overlap of calls, import, merge or rollback.
THEOREM AuthorityRefined == Spec => OnlyByAuthority
<1>1. Init => Authority!Init
  BY DEF Init, Authority!Init, Status, Live, NoRow, Authority!Off
<1>2. Spec => Authority!Init /\ [][Authority!Next]_(Authority!vars)
  BY <1>1, TypeCorrect, AlwaysBacked, AuthorityStep, PTL DEF Spec
<1> QED
  BY <1>2 DEF OnlyByAuthority, Authority!Spec

-----------------------------------------------------------------------------
(* Serial calls.  With one caller a call finds the row as it read it, and     *)
(* then a grant stays bound to the text it was given over, and what a call    *)
(* took back stays taken back.                                                *)

OneCaller == \A b, c \in Callers : b = c

\* A grant a row has is one that was given to that id over that very text.
\* (Of disabled and dead rows too, and of those a ROLLBACK, a snapshot or a
\* merge may bring back.)
HonestRow(id, r) ==
  r.grant # NoGrant => [id |-> id, no |-> r.grant, text |-> r.text] \in issued

HonestTable(table) == \A id \in Ids : HonestRow(id, table[id])

Honest ==
  /\ HonestTable(row)
  /\ HonestTable(saved)
  /\ \A table \in snaps : HonestTable(table)

NothingSaved == \A id \in Ids : saved[id].grant = NoGrant

\* A call's write fits the row it will find.  Outside of an import there is
\* nothing to return to.
FittingCall(p) ==
  LET r == row[p.id] IN
  /\ p.kind = "propose" => /\ p.grant \in {NoGrant, r.grant}
                           /\ p.grant # NoGrant => p.text = r.text /\ ~p.report
  /\ p.kind = "grant" => p.text = r.text
  /\ p.kind \in {"revoke", "delete"} => Live(r)
  /\ p.kind \notin {"import", "write"} => NothingSaved

Fitting == \A c \in Callers : FittingCall(pend[c])

\* No grant is given twice, and none that was taken back is on a row, or would
\* be on one after a ROLLBACK.
Standing ==
  /\ \A a, b \in issued : a.no = b.no => a = b
  /\ withdrawn \subseteq 1 .. lastGrant
  /\ \A id \in Ids : row[id].grant \notin withdrawn /\ saved[id].grant \notin withdrawn

\* With one caller, what is in flight fits.
LEMMA FittingNext ==
  ASSUME OneCaller
  PROVE  TypeOK /\ Fitting /\ [Next]_vars => Fitting'
<1> SUFFICES ASSUME TypeOK, Fitting, [Next]_vars PROVE Fitting'
  OBVIOUS
<1> USE DEF NothingSaved
<1>f. row \in [Ids -> Rows] /\ pend \in [Callers -> Calls]
  BY DEF TypeOK, Tables
<1>c. \A c \in Callers : pend[c] \in Calls /\ FittingCall(pend[c])
  BY DEF TypeOK, Fitting
<1>n. NoRow.grant = NoGrant
  BY DEF NoRow
\* Whoever is not importing may be left idle.
<1>i. ASSUME NEW c \in Callers, pend'[c] = Idle, NothingSaved'
      PROVE  Fitting'
  <2>1. FittingCall(Idle)'
    BY <1>i, CallTypes DEF FittingCall
  <2>2. pend'[c] = Idle
    BY <1>i
  <2> QED
    BY <2>1, <2>2 DEF OneCaller, Fitting, FittingCall
<1>m. ASSUME NEW c \in Callers, pend'[c].kind \in {"import", "write"}
      PROVE  Fitting'
  BY <1>m DEF OneCaller, Fitting, FittingCall
<1>1. ASSUME NEW c \in Callers, NEW id \in Ids, NEW t \in Texts, StartPropose(c, id, t)
      PROVE  Fitting'
  <2> DEFINE ex == row[id]
             kept == KeepGrant(ex, t)
             call == [Call("propose", id) EXCEPT
                        !.text = t, !.enabled = kept /\ ex.enabled,
                        !.grant = IF kept THEN ex.grant ELSE NoGrant,
                        !.report = Drops(ex, kept)]
  <2>1. pend'[c] = call /\ NothingSaved /\ row' = row /\ saved' = saved
    BY <1>1, <1>f, <1>c, CallTypes DEF StartPropose, Start, db, FittingCall
  <2>2. /\ call.kind = "propose" /\ call.id = id /\ call.text = t
        /\ call.grant = (IF kept THEN ex.grant ELSE NoGrant)
        /\ call.report = Drops(ex, kept)
    BY DEF Call
  <2>3. kept => ex.text = t /\ ~Drops(ex, kept)
    BY DEF KeepGrant, Drops
  <2> HIDE DEF call, kept
  <2>4. /\ pend'[c].kind = "propose" /\ pend'[c].id = id
        /\ pend'[c].grant \in {NoGrant, ex.grant}
        /\ pend'[c].grant # NoGrant => pend'[c].text = ex.text /\ ~pend'[c].report
    BY <2>1, <2>2, <2>3
  <2>5. FittingCall(pend[c])'
    BY <2>1, <2>4 DEF FittingCall
  <2> QED
    BY <2>5 DEF OneCaller, Fitting
<1>2. ASSUME NEW c \in Callers, NEW id \in Ids,
             StartGrant(c, id) \/ StartRevoke(c, id) \/ StartDelete(c, id)
      PROVE  Fitting'
  <2>1. NothingSaved /\ row' = row /\ saved' = saved /\ Live(row[id])
    BY <1>2, <1>c, CallTypes DEF StartGrant, StartRevoke, StartDelete, Start, db, FittingCall
  <2>2. /\ pend'[c].id = id
        /\ \/ pend'[c].kind = "grant" /\ pend'[c].text = row[id].text
           \/ pend'[c].kind \in {"revoke", "delete"}
    BY <1>2, <1>f DEF StartGrant, StartRevoke, StartDelete, Start, Call
  <2>3. FittingCall(pend[c])'
    BY <2>1, <2>2 DEF FittingCall
  <2> QED
    BY <2>3 DEF OneCaller, Fitting
<1>3. ASSUME NEW c \in Callers,
             FinishPropose(c) \/ FinishGrant(c) \/ FinishRevoke(c) \/ FinishDelete(c)
      PROVE  Fitting'
  <2>1. pend' = [pend EXCEPT ![c] = Idle] /\ saved' = saved
        /\ pend[c].kind \in {"propose", "grant", "revoke", "delete"}
    BY <1>3 DEF FinishPropose, FinishGrant, FinishRevoke, FinishDelete, Finish
  <2>2. pend'[c] = Idle /\ NothingSaved'
    BY <1>f, <1>c, <2>1 DEF FittingCall
  <2> QED
    BY <1>i, <2>2
<1>4. ASSUME NEW c \in Callers, NEW id \in Ids, NEW t \in Texts, SeedFromSpore(c, id, t)
      PROVE  Fitting'
  <2>1. pend'[c] = Idle /\ NothingSaved'
    BY <1>4, <1>c, CallTypes DEF SeedFromSpore, FittingCall
  <2> QED
    BY <1>i, <2>1
<1>5. ASSUME NEW c \in Callers, ImportBegin(c)
      PROVE  Fitting'
  <2>1. pend'[c] = Importing
    BY <1>5, <1>f DEF ImportBegin, Start
  <2> QED
    BY <1>m, <2>1, CallTypes
<1>6. ASSUME NEW c \in Callers, NEW id \in Ids, NEW t \in Texts, NEW dead \in BOOLEAN,
             NEW at \in 0 .. MaxNow, ImportRead(c, id, t, dead, at)
      PROVE  Fitting'
  <2>1. PICK d \in Decisions(Incoming(id, t, at), row[id], dead) : pend' = [pend EXCEPT ![c] = d]
    BY <1>6 DEF ImportRead
  <2>2. at \in Nat /\ row[id] \in Rows
    BY ConstantsAssumption, <1>f
  <2>3. d.kind = "write"
    BY <2>2, DecisionTypes, IncomingTypes
  <2>4. pend'[c].kind = "write"
    BY <1>f, <2>1, <2>3
  <2> QED
    BY <1>m, <2>4
<1>7. ASSUME NEW c \in Callers, ImportWrite(c)
      PROVE  Fitting'
  <2>1. pend'[c] = Importing
    BY <1>7, <1>f DEF ImportWrite
  <2> QED
    BY <1>m, <2>1, CallTypes
<1>8. ASSUME NEW c \in Callers, ImportCommit(c) \/ ImportFail(c)
      PROVE  Fitting'
  <2>1. pend'[c] = Idle /\ NothingSaved'
    BY <1>8, <1>f, <1>n DEF ImportCommit, ImportFail, Finish
  <2> QED
    BY <1>i, <2>1
<1>9. ASSUME NEW c \in Callers,
             Snapshot(c) \/ (\E s \in snaps : RollbackForwardMerge(c, s) \/ RollbackReplace(c, s))
      PROVE  Fitting'
  <2>1. pend'[c] = Idle /\ NothingSaved'
    BY <1>9, <1>c, CallTypes DEF Snapshot, RollbackForwardMerge, RollbackReplace, Restore, FittingCall
  <2> QED
    BY <1>i, <2>1
<1>10. CASE Tick \/ UNCHANGED vars
  BY <1>10 DEF Tick, vars, db, Fitting, FittingCall
<1> QED
  BY <1>1, <1>2, <1>3, <1>4, <1>5, <1>6, <1>7, <1>8, <1>9, <1>10 DEF Next

\* A row a step leaves has no grant, or one over its text that it already had,
\* there or in a copy of the table.
SameGrant(r, x) == r.grant = x.grant /\ r.text = x.text

Inherited(id, r) ==
  \/ r.grant = NoGrant
  \/ SameGrant(r, row[id]) \/ SameGrant(r, saved[id])
  \/ \E s \in snaps : SameGrant(r, s[id])

\* Only a grant gives a row a grant it did not have.
LEMMA GrantsInherited ==
  ASSUME TypeOK, Fitting, [Next]_vars, \A c \in Callers : ~FinishGrant(c)
  PROVE  issued' = issued /\ lastGrant' = lastGrant /\ \A id \in Ids : Inherited(id, row'[id])
<1>f. row \in [Ids -> Rows] /\ saved \in [Ids -> Rows] /\ \A s \in snaps : s \in [Ids -> Rows]
  BY DEF TypeOK, Tables
<1>c. \A c \in Callers : pend[c] \in Calls /\ FittingCall(pend[c])
  BY DEF TypeOK, Fitting
<1>o. \A id \in Ids : Inherited(id, row[id]) /\ Inherited(id, saved[id])
                      /\ \A s \in snaps : Inherited(id, s[id])
  BY DEF Inherited, SameGrant
<1> DEFINE Bare(r) == r.grant = NoGrant
<1>s. \A r \in Rows : /\ Bare([Switched(r, FALSE, NoGrant) EXCEPT !.at = now])
                      /\ Bare([Switched(r, FALSE, NoGrant) EXCEPT !.st = "live"])
                      /\ Bare(Tombstone(r))
                      /\ SameGrant([r EXCEPT !.st = "live"], r)
  BY DEF Rows, Switched, Tombstone, SameGrant
<1>i. \A t, dead, at : Bare(Imported(t, dead, at))
  BY DEF Imported
<1>b. \A id, r : Bare(r) => Inherited(id, r)
  BY DEF Inherited
<1>1. ASSUME row' = row, issued' = issued, lastGrant' = lastGrant
      PROVE  issued' = issued /\ lastGrant' = lastGrant /\ \A id \in Ids : Inherited(id, row'[id])
  BY <1>1, <1>o
<1> DEFINE goal == issued' = issued /\ lastGrant' = lastGrant /\ \A id \in Ids : Inherited(id, row'[id])
<1>2. ASSUME NEW c \in Callers, NEW id \in Ids, NEW t \in Texts, StartPropose(c, id, t)
      PROVE  goal
  BY <1>1, <1>2 DEF StartPropose, db, books
<1>3. ASSUME NEW c \in Callers, NEW id \in Ids,
             StartGrant(c, id) \/ StartRevoke(c, id) \/ StartDelete(c, id)
      PROVE  goal
  BY <1>1, <1>3 DEF StartGrant, StartRevoke, StartDelete, db, books
<1>4. ASSUME NEW c \in Callers, NEW id \in Ids, NEW t \in Texts, NEW dead \in BOOLEAN,
             NEW at \in 0 .. MaxNow, ImportRead(c, id, t, dead, at)
      PROVE  goal
  BY <1>1, <1>4 DEF ImportRead, db, books
<1>5. ASSUME NEW c \in Callers, ImportBegin(c) \/ ImportCommit(c) \/ Snapshot(c)
      PROVE  goal
  BY <1>1, <1>5 DEF ImportBegin, ImportCommit, Snapshot, db, books
<1>6. ASSUME NEW c \in Callers, ImportFail(c)
      PROVE  goal
  BY <1>6, <1>o DEF ImportFail, books
<1>7. ASSUME NEW c \in Callers, NEW id \in Ids, NEW t \in Texts, SeedFromSpore(c, id, t)
      PROVE  goal
  <2>1. \A i \in Ids : Bare(row'[i]) \/ row'[i] = row[i]
    BY <1>7, <1>f DEF SeedFromSpore
  <2> QED
    BY <1>7, <1>o, <1>b, <2>1 DEF SeedFromSpore
<1>8. ASSUME NEW c \in Callers, FinishPropose(c)
      PROVE  goal
  <2> DEFINE p == pend[c]
  <2>1. p.id \in Ids /\ p.kind = "propose" /\ FittingCall(p)
    BY <1>8, <1>c DEF FinishPropose, Finish, Calls
  <2>2. row'[p.id].grant = p.grant /\ row'[p.id].text = p.text
        /\ \A i \in Ids : i # p.id => row'[i] = row[i]
    BY <1>8, <1>f, <2>1 DEF FinishPropose
  <2> HIDE DEF p
  <2>3. \A i \in Ids : Inherited(i, row'[i])
    BY <1>o, <2>1, <2>2 DEF FittingCall, Inherited, SameGrant
  <2> QED
    BY <1>8, <2>3 DEF FinishPropose
<1> HIDE DEF Bare
<1>9. ASSUME NEW c \in Callers, FinishRevoke(c) \/ FinishDelete(c)
      PROVE  goal
  <2>1. \A i \in Ids : Bare(row'[i]) \/ row'[i] = row[i]
    <3> DEFINE id == pend[c].id
    <3>1. id \in Ids /\ row[id] \in Rows
      BY <1>c, <1>f DEF Calls
    <3>2. PICK new : Bare(new) /\ row' = Update(id, new)
      BY <1>9, <1>s, <3>1 DEF FinishRevoke, FinishDelete
    <3> QED
      BY <1>f, <3>1, <3>2 DEF Update
  <2> QED
    BY <1>9, <1>o, <1>b, <2>1 DEF FinishRevoke, FinishDelete
<1>10. ASSUME NEW c \in Callers, ImportWrite(c)
       PROVE  goal
  <2> DEFINE p == pend[c]
  <2>1. p.id \in Ids /\ p.copy \in Ids
    BY <1>c DEF Calls
  <2>2. Bare(Imported(p.text, p.dead, p.at)) /\ Bare(ConflictCopy(p))
    BY <1>i DEF ConflictCopy
  <2>3. SameGrant([row[p.id] EXCEPT !.st = "live"], row[p.id])
    BY <1>f, <1>s, <2>1
  <2>4. \A i \in Ids : \/ Bare(row'[i])
                       \/ row'[i] = row[i]
                       \/ i = p.id /\ row'[i] = [row[p.id] EXCEPT !.st = "live"]
    BY <1>10, <1>f, <2>1, <2>2 DEF ImportWrite, Update
  <2>5. \A i \in Ids : Inherited(i, row'[i])
    BY <1>o, <1>b, <2>3, <2>4 DEF Inherited
  <2> QED
    BY <1>10, <2>5 DEF ImportWrite, books
<1>11. ASSUME NEW c \in Callers, NEW s \in snaps, RollbackReplace(c, s)
       PROVE  goal
  BY <1>11, <1>o DEF RollbackReplace, Restore
<1>12. ASSUME NEW c \in Callers, NEW s \in snaps, RollbackForwardMerge(c, s)
       PROVE  goal
  <2>1. \A i \in Ids : \/ row'[i] = row[i]
                       \/ row'[i] = [s[i] EXCEPT !.st = "live"]
                       \/ row'[i] = [Switched(s[i], FALSE, NoGrant) EXCEPT !.st = "live"]
    BY <1>12 DEF RollbackForwardMerge, Restore, ForwardMerged
  <2>2. \A i \in Ids : s[i] \in Rows
    BY <1>f
  <2>3. \A i \in Ids : Inherited(i, row'[i])
    <3> SUFFICES ASSUME NEW i \in Ids PROVE Inherited(i, row'[i])
      OBVIOUS
    <3>1. /\ SameGrant([s[i] EXCEPT !.st = "live"], s[i])
          /\ Bare([Switched(s[i], FALSE, NoGrant) EXCEPT !.st = "live"])
      BY <1>s, <2>2
    <3> QED
      BY <1>o, <1>b, <2>1, <3>1 DEF Inherited
  <2> QED
    BY <1>12, <2>3 DEF RollbackForwardMerge, Restore
<1>13. CASE Tick \/ UNCHANGED vars
  BY <1>1, <1>13 DEF Tick, vars, db, books
<1> QED
  BY <1>2, <1>3, <1>4, <1>5, <1>6, <1>7, <1>8, <1>9, <1>10, <1>11, <1>12, <1>13 DEF Next

\* What the copies of the table are made of.
LEMMA CopiesMade ==
  TypeOK /\ [Next]_vars =>
    /\ issued \subseteq issued'
    /\ \A id \in Ids : saved'[id] \in {saved[id], row[id], NoRow}
    /\ snaps' \subseteq snaps \union {row}
<1> SUFFICES ASSUME TypeOK, [Next]_vars
             PROVE  /\ issued \subseteq issued'
                    /\ \A id \in Ids : saved'[id] \in {saved[id], row[id], NoRow}
                    /\ snaps' \subseteq snaps \union {row}
  OBVIOUS
<1> USE DEF db, books
<1>1. ASSUME NEW c \in Callers, NEW id \in Ids, NEW t \in Texts,
             StartPropose(c, id, t) \/ SeedFromSpore(c, id, t)
      PROVE  issued' = issued /\ saved' = saved /\ snaps' = snaps
  BY <1>1 DEF StartPropose, SeedFromSpore
<1>2. ASSUME NEW c \in Callers, NEW id \in Ids,
             StartGrant(c, id) \/ StartRevoke(c, id) \/ StartDelete(c, id)
      PROVE  issued' = issued /\ saved' = saved /\ snaps' = snaps
  BY <1>2 DEF StartGrant, StartRevoke, StartDelete
<1>3. ASSUME NEW c \in Callers, NEW id \in Ids, NEW t \in Texts, NEW dead \in BOOLEAN,
             NEW at \in 0 .. MaxNow, ImportRead(c, id, t, dead, at)
      PROVE  issued' = issued /\ saved' = saved /\ snaps' = snaps
  BY <1>3 DEF ImportRead
<1>4. ASSUME NEW c \in Callers,
             FinishPropose(c) \/ FinishGrant(c) \/ FinishRevoke(c) \/ FinishDelete(c)
      PROVE  issued \subseteq issued' /\ saved' = saved /\ snaps' = snaps
  BY <1>4 DEF FinishPropose, FinishGrant, FinishRevoke, FinishDelete
<1>5. ASSUME NEW c \in Callers,
             ImportBegin(c) \/ ImportWrite(c) \/ ImportCommit(c) \/ ImportFail(c)
      PROVE  /\ issued' = issued /\ snaps' = snaps
             /\ \A id \in Ids : saved'[id] \in {saved[id], row[id], NoRow}
  BY <1>5 DEF ImportBegin, ImportWrite, ImportCommit, ImportFail
<1>6. ASSUME NEW c \in Callers, Snapshot(c)
      PROVE  issued' = issued /\ saved' = saved /\ snaps' = snaps \union {row}
  BY <1>6 DEF Snapshot
<1>7. ASSUME NEW c \in Callers, NEW s \in snaps,
             RollbackForwardMerge(c, s) \/ RollbackReplace(c, s)
      PROVE  issued' = issued /\ saved' = saved /\ snaps' \subseteq snaps \union {row}
  BY <1>7 DEF RollbackForwardMerge, RollbackReplace, Restore, WithSafety
<1>8. CASE Tick \/ UNCHANGED vars
  BY <1>8 DEF Tick, vars
<1> QED
  BY <1>1, <1>2, <1>3, <1>4, <1>5, <1>6, <1>7, <1>8 DEF Next

\* A grant lands on the row its call read, or on none.
LEMMA GrantLands ==
  ASSUME TypeOK, Fitting, NEW c \in Callers, FinishGrant(c)
  PROVE  /\ issued' = issued \union {[id |-> pend[c].id, no |-> NextGrant, text |-> pend[c].text]}
         /\ \A id \in Ids : \/ row'[id] = row[id]
                            \/ /\ id = pend[c].id
                               /\ row'[id].grant = NextGrant
                               /\ row'[id].text = pend[c].text
<1> DEFINE id == pend[c].id
           new == [Switched(row[id], TRUE, NextGrant) EXCEPT !.at = now]
<1>1. id \in Ids /\ pend[c].kind = "grant" /\ pend[c].text = row[id].text
  BY DEF TypeOK, Calls, Fitting, FittingCall, FinishGrant, Finish
<1>2. row[id] \in Rows /\ row \in [Ids -> Rows]
  BY <1>1 DEF TypeOK, Tables
<1>3. new.grant = NextGrant /\ new.text = row[id].text
  BY <1>2 DEF Switched, Rows
<1> HIDE DEF new
<1>4. \A i \in Ids : row'[i] = row[i] \/ (i = id /\ row'[i] = new)
  BY <1>1, <1>2 DEF FinishGrant, Update, new
<1>5. issued' = issued \union {[id |-> id, no |-> NextGrant, text |-> pend[c].text]}
  BY DEF FinishGrant
<1> HIDE DEF id
<1> QED
  BY <1>1, <1>3, <1>4, <1>5 DEF id

\* Every row stays honest.
LEMMA HonestNext ==
  TypeOK /\ Fitting /\ Honest /\ [Next]_vars => Honest'
<1> SUFFICES ASSUME TypeOK, Fitting, Honest, [Next]_vars PROVE Honest'
  OBVIOUS
<1>1. \A id, r : HonestRow(id, r) => HonestRow(id, r)'
  <2>1. issued \subseteq issued'
    BY CopiesMade
  <2> QED
    BY <2>1 DEF HonestRow
<1>2. \A id \in Ids : /\ HonestRow(id, row[id]) /\ HonestRow(id, saved[id]) /\ HonestRow(id, NoRow)
                      /\ \A s \in snaps : HonestRow(id, s[id])
  BY DEF Honest, HonestTable, HonestRow, NoRow
<1>3. HonestTable(row)'
  <2>1. CASE \A c \in Callers : ~FinishGrant(c)
    <3>1. \A id \in Ids : Inherited(id, row'[id]) /\ issued' = issued
      BY <2>1, GrantsInherited
    <3>2. \A id, r, x : SameGrant(r, x) /\ HonestRow(id, x) => HonestRow(id, r)
      BY DEF SameGrant, HonestRow
    <3>3. \A id, r : r.grant = NoGrant => HonestRow(id, r)
      BY DEF HonestRow
    <3>4. \A id \in Ids : HonestRow(id, row'[id])
      BY <1>2, <3>1, <3>2, <3>3 DEF Inherited
    <3> QED
      BY <3>1, <3>4 DEF HonestTable, HonestRow
  <2>2. ASSUME NEW c \in Callers, FinishGrant(c)
        PROVE  HonestTable(row)'
    <3> DEFINE g == [id |-> pend[c].id, no |-> NextGrant, text |-> pend[c].text]
    <3>1. g \in issued'
      BY <2>2, GrantLands
    <3>2. \A id \in Ids : HonestRow(id, row[id])'  \/ row'[id] = row[id]
      BY <2>2, <3>1, GrantLands DEF HonestRow
    <3> QED
      BY <1>1, <1>2, <3>2 DEF HonestTable, HonestRow
  <2> QED
    BY <2>1, <2>2
<1>4. HonestTable(saved)' /\ (\A s \in snaps : HonestTable(s))'
  BY <1>1, <1>2, CopiesMade DEF HonestTable, HonestRow
<1> QED
  BY <1>3, <1>4 DEF Honest

\* GrantBoundToText: with one caller, a rule that is on by a grant says what
\* the grantor's call read, whatever is proposed, imported or rolled back.
THEOREM GrantsBoundToText == ASSUME OneCaller PROVE Spec => []GrantBoundToText
<1>1. Init => Fitting /\ Honest
  <2> SUFFICES ASSUME Init PROVE Fitting /\ Honest
    OBVIOUS
  <2>1. NoRow.grant = NoGrant
    BY DEF NoRow
  <2>2. \A id \in Ids : row[id] = NoRow /\ saved[id] = NoRow
    BY DEF Init
  <2> QED
    BY <2>1, <2>2, CallTypes
    DEF Init, Fitting, FittingCall, NothingSaved, Honest, HonestTable, HonestRow
<1>2. Honest => GrantBoundToText
  BY DEF Honest, HonestTable, HonestRow, GrantBoundToText
<1> QED
  BY <1>1, <1>2, TypeCorrect, FittingNext, HonestNext, PTL DEF Spec

\* Rows keep their grants, lose them, or get them back from a ROLLBACK.
Brought == \A id \in Ids : row'[id].grant \in {NoGrant, row[id].grant, saved[id].grant}

\* A step takes back the grant of a row that it leaves without one, or lets a
\* rollback put grants back, or takes nothing back.
LEMMA TakenBack ==
  ASSUME TypeOK, Fitting, [Next]_vars, \A c \in Callers : ~FinishGrant(c)
  PROVE  \/ withdrawn' = withdrawn /\ Brought
         \/ \E id \in Ids : /\ withdrawn' = Withdraw(row[id].grant)
                            /\ row'[id].grant = NoGrant /\ saved' = saved
                            /\ NothingSaved
                            /\ \A i \in Ids \ {id} : row'[i] = row[i]
         \/ /\ withdrawn' \subseteq withdrawn /\ saved' = saved /\ NothingSaved
            /\ \A id \in Ids : row'[id] = row[id] \/ row'[id].grant \notin withdrawn'
<1>f. row \in [Ids -> Rows] /\ pend \in [Callers -> Calls]
  BY DEF TypeOK, Tables
<1>c. \A c \in Callers : pend[c] \in Calls /\ pend[c].id \in Ids /\ FittingCall(pend[c])
  BY DEF TypeOK, Fitting, Calls
<1> DEFINE goal ==
      \/ withdrawn' = withdrawn /\ Brought
      \/ \E id \in Ids : /\ withdrawn' = Withdraw(row[id].grant)
                         /\ row'[id].grant = NoGrant /\ saved' = saved
                         /\ NothingSaved
                         /\ \A i \in Ids \ {id} : row'[i] = row[i]
      \/ /\ withdrawn' \subseteq withdrawn /\ saved' = saved /\ NothingSaved
         /\ \A id \in Ids : row'[id] = row[id] \/ row'[id].grant \notin withdrawn'
<1>k. ASSUME row' = row, withdrawn' = withdrawn
      PROVE  goal
  BY <1>k DEF Brought
<1>1. ASSUME NEW c \in Callers, NEW id \in Ids, NEW t \in Texts,
             StartPropose(c, id, t) \/ SeedFromSpore(c, id, t)
      PROVE  goal
  <2>1. CASE StartPropose(c, id, t)
    BY <1>k, <2>1 DEF StartPropose, db, books
  <2>2. CASE SeedFromSpore(c, id, t)
    BY <1>f, <2>2 DEF SeedFromSpore, Brought
  <2> QED
    BY <1>1, <2>1, <2>2
<1>2. ASSUME NEW c \in Callers, NEW id \in Ids,
             StartGrant(c, id) \/ StartRevoke(c, id) \/ StartDelete(c, id)
      PROVE  goal
  BY <1>k, <1>2 DEF StartGrant, StartRevoke, StartDelete, db, books
<1>3. ASSUME NEW c \in Callers, NEW id \in Ids, NEW t \in Texts, NEW dead \in BOOLEAN,
             NEW at \in 0 .. MaxNow, ImportRead(c, id, t, dead, at)
      PROVE  goal
  BY <1>k, <1>3 DEF ImportRead, db, books
<1>4. ASSUME NEW c \in Callers, FinishPropose(c)
      PROVE  goal
  <2> DEFINE p == pend[c]
             new == [st |-> "live", text |-> p.text, enabled |-> p.enabled,
                     declared |-> TRUE, grant |-> p.grant, at |-> now]
  <2>1. FittingCall(p) /\ p.kind = "propose" /\ p.id \in Ids
    BY <1>4, <1>c DEF FinishPropose, Finish
  <2>2. row' = [row EXCEPT ![p.id] = new] /\ saved' = saved
        /\ withdrawn' = IF p.report THEN Withdraw(row[p.id].grant) ELSE withdrawn
    BY <1>4 DEF FinishPropose
  <2>3. new.grant = p.grant
    OBVIOUS
  <2> HIDE DEF p, new
  <2>4. p.report => p.grant = NoGrant /\ NothingSaved
    BY <2>1 DEF FittingCall
  <2>5. NothingSaved
    BY <2>1 DEF FittingCall
  <2>6. p.report => /\ withdrawn' = Withdraw(row[p.id].grant)
                    /\ row'[p.id].grant = NoGrant
                    /\ \A i \in Ids \ {p.id} : row'[i] = row[i]
    BY <1>f, <2>1, <2>2, <2>3, <2>4
  <2>7. CASE p.report
    BY <2>1, <2>2, <2>5, <2>6, <2>7
  <2>8. CASE ~p.report
    <3>1. p.grant \in {NoGrant, row[p.id].grant}
      BY <2>1 DEF FittingCall
    <3> QED
      BY <1>f, <2>1, <2>2, <2>3, <2>8, <3>1 DEF Brought
  <2> QED
    BY <2>7, <2>8
<1>6. ASSUME NEW c \in Callers, FinishRevoke(c) \/ FinishDelete(c)
      PROVE  goal
  <2> DEFINE id == pend[c].id
  <2>1. id \in Ids /\ row[id] \in Rows /\ Live(row[id]) /\ NothingSaved
    BY <1>6, <1>c, <1>f DEF FinishRevoke, FinishDelete, Finish, FittingCall
  <2>2. /\ [Switched(row[id], FALSE, NoGrant) EXCEPT !.at = now].grant = NoGrant
        /\ Tombstone(row[id]).grant = NoGrant
    BY <2>1 DEF Rows, Switched, Tombstone
  <2>3. PICK new : new.grant = NoGrant /\ row' = Update(id, new)
    BY <1>6, <2>2 DEF FinishRevoke, FinishDelete
  <2>4. row' = [row EXCEPT ![id] = new]
    BY <2>1, <2>3 DEF Update, Live, Present
  <2>5. withdrawn' = Withdraw(row[id].grant) /\ saved' = saved
    BY <1>6 DEF FinishRevoke, FinishDelete
  <2> HIDE DEF id
  <2> QED
    BY <1>f, <2>1, <2>3, <2>4, <2>5
<1>5. ASSUME NEW c \in Callers, ImportWrite(c)
      PROVE  goal
  <2> DEFINE p == pend[c]
  <2>1. p.id \in Ids /\ p.copy \in Ids
    BY <1>c DEF TypeOK, Calls
  <2> DEFINE NoneOn(r) == r.grant = NoGrant
             live == [row[p.id] EXCEPT !.st = "live"]
  <2>2. NoneOn(Imported(p.text, p.dead, p.at)) /\ NoneOn(ConflictCopy(p))
    BY DEF ConflictCopy, Imported
  <2>3. live.grant = row[p.id].grant
    BY <1>f, <2>1 DEF Rows
  <2> HIDE DEF NoneOn, live
  <2>5. \A i \in Ids : NoneOn(row'[i]) \/ row'[i] = row[i] \/ (i = p.id /\ row'[i] = live)
    BY <1>5, <1>f, <2>1, <2>2 DEF ImportWrite, Update, live
  <2>4. Brought
    BY <2>3, <2>5 DEF Brought, NoneOn
  <2> QED
    BY <1>5, <2>4 DEF ImportWrite, books
<1>7. ASSUME NEW c \in Callers,
             ImportBegin(c) \/ ImportCommit(c) \/ ImportFail(c) \/ Snapshot(c)
      PROVE  goal
  BY <1>7 DEF ImportBegin, ImportCommit, ImportFail, Snapshot, books, Brought
<1>8. ASSUME NEW c \in Callers, NEW s \in snaps,
             RollbackForwardMerge(c, s) \/ RollbackReplace(c, s)
      PROVE  goal
  <2>1. NothingSaved
    BY <1>8, <1>c, CallTypes DEF RollbackForwardMerge, RollbackReplace, FittingCall
  <2>2. PICK table : Restore(table)
    BY <1>8 DEF RollbackForwardMerge, RollbackReplace
  <2> QED
    BY <2>1, <2>2 DEF Restore
<1>9. CASE Tick \/ UNCHANGED vars
  BY <1>k, <1>9 DEF Tick, vars, db, books
<1> QED
  BY <1>1, <1>2, <1>3, <1>4, <1>5, <1>6, <1>7, <1>8, <1>9 DEF Next

\* What was taken back stays off.
LEMMA StandingNext ==
  TypeOK /\ TypeOK' /\ Fitting /\ Honest /\ Standing /\ [Next]_vars => Standing'
<1> SUFFICES ASSUME TypeOK, TypeOK', Fitting, Honest, Standing, [Next]_vars PROVE Standing'
  OBVIOUS
<1>t. /\ lastGrant \in Nat /\ \A g \in issued : g.no \in 1 .. lastGrant
      /\ \A id \in Ids : row[id].grant \in Nat /\ saved[id].grant \in Nat
      /\ \A s \in snaps, id \in Ids : s[id].grant \in Nat
  BY DEF TypeOK, Tables, Rows
<1>h. \A id \in Ids : /\ HonestRow(id, row[id]) /\ HonestRow(id, saved[id])
                      /\ \A s \in snaps : HonestRow(id, s[id])
  BY DEF Honest, HonestTable
<1>0. NoGrant \notin withdrawn /\ \A w \in withdrawn : w \in 1 .. lastGrant
  BY DEF Standing, NoGrant
\* A grant is of one rule.
<1>u. \A i, j \in Ids : row[i].grant = row[j].grant /\ row[i].grant # NoGrant => i = j
  <2> SUFFICES ASSUME NEW i \in Ids, NEW j \in Ids,
                      row[i].grant = row[j].grant, row[i].grant # NoGrant
               PROVE  i = j
    OBVIOUS
  <2> DEFINE a == [id |-> i, no |-> row[i].grant, text |-> row[i].text]
             b == [id |-> j, no |-> row[j].grant, text |-> row[j].text]
  <2>1. a \in issued /\ b \in issued
    BY <1>h DEF HonestRow
  <2>2. a = b
    BY <2>1 DEF Standing
  <2> QED
    BY <2>2
<1>g. \A id \in Ids : row[id].grant # NoGrant => row[id].grant \in 1 .. lastGrant
  <2> SUFFICES ASSUME NEW id \in Ids, row[id].grant # NoGrant
               PROVE  row[id].grant \in 1 .. lastGrant
    OBVIOUS
  <2>1. [id |-> id, no |-> row[id].grant, text |-> row[id].text] \in issued
    BY <1>h DEF HonestRow
  <2> QED
    BY <1>t, <2>1
<1>1. ASSUME NEW c \in Callers, FinishGrant(c)
      PROVE  Standing'
  <2> DEFINE g == [id |-> pend[c].id, no |-> NextGrant, text |-> pend[c].text]
  <2>1. issued' = issued \union {g} /\ g.no = NextGrant
    BY <1>1, GrantLands
  <2>2. withdrawn' = withdrawn /\ saved' = saved /\ lastGrant' = NextGrant
    BY <1>1 DEF FinishGrant
  <2>3. NextGrant = lastGrant + 1
    BY DEF NextGrant
  <2>4. NextGrant \notin withdrawn /\ \A x \in issued : x.no # NextGrant
    BY <1>0, <1>t, <2>3
  <2>5. \A id \in Ids : row'[id].grant \notin withdrawn
    BY <1>1, <2>4, GrantLands DEF Standing
  <2> HIDE DEF g
  <2>6. \A a, b \in issued' : a.no = b.no => a = b
    BY <2>1, <2>4 DEF Standing
  <2>7. withdrawn' \subseteq 1 .. lastGrant'
    BY <1>0, <1>t, <2>2, <2>3
  <2> QED
    BY <2>2, <2>5, <2>6, <2>7 DEF Standing
<1>2. CASE \A c \in Callers : ~FinishGrant(c)
  <2>1. issued' = issued /\ lastGrant' = lastGrant
    BY <1>2, GrantsInherited
  <2>2. ASSUME withdrawn' = withdrawn, Brought
        PROVE  Standing'
    <3>1. \A id \in Ids : saved'[id].grant \notin withdrawn
      BY <1>0, CopiesMade DEF Standing, NoRow
    <3>2. \A id \in Ids : row'[id].grant \notin withdrawn
      BY <1>0, <2>2 DEF Standing, Brought
    <3> QED
      BY <2>1, <2>2, <3>1, <3>2 DEF Standing
  <2>3. ASSUME NEW id \in Ids, withdrawn' = Withdraw(row[id].grant), saved' = saved, NothingSaved,
               row'[id].grant = NoGrant, \A i \in Ids \ {id} : row'[i] = row[i]
        PROVE  Standing'
    <3>1. NoGrant \notin withdrawn'
      BY <2>3 DEF Withdraw
    <3>2. \A i \in Ids \ {id} : row'[i].grant \notin withdrawn'
      BY <1>u, <2>3 DEF Withdraw, Standing
    <3>3. withdrawn' \subseteq 1 .. lastGrant'
      BY <1>0, <1>g, <2>1, <2>3 DEF Withdraw
    <3> QED
      BY <2>1, <2>3, <3>1, <3>2, <3>3 DEF Standing, NothingSaved
  <2>4. ASSUME withdrawn' \subseteq withdrawn, saved' = saved, NothingSaved,
               \A id \in Ids : row'[id] = row[id] \/ row'[id].grant \notin withdrawn'
        PROVE  Standing'
    BY <2>1, <2>4 DEF Standing
  <2> QED
    BY <1>2, <2>2, <2>3, <2>4, TakenBack
<1> QED
  BY <1>1, <1>2

\* RevokeHolds: with one caller, what a call reported as taken back is not on
\* again, but by a rollback.
THEOREM RevocationsHold == ASSUME OneCaller PROVE Spec => []RevokeHolds
<1>1. Init => Fitting /\ Honest /\ Standing
  <2> SUFFICES ASSUME Init PROVE Fitting /\ Honest /\ Standing
    OBVIOUS
  <2>1. NoRow.grant = NoGrant
    BY DEF NoRow
  <2>2. \A id \in Ids : row[id] = NoRow /\ saved[id] = NoRow
    BY DEF Init
  <2> QED
    BY <2>1, <2>2, CallTypes
    DEF Init, Fitting, FittingCall, NothingSaved, Honest, HonestTable, HonestRow, Standing
<1>2. Standing => RevokeHolds
  BY DEF Standing, RevokeHolds
<1> QED
  BY <1>1, <1>2, TypeCorrect, FittingNext, HonestNext, StandingNext, PTL DEF Spec

=============================================================================
