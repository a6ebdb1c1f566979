------------------------------ MODULE SyncMerge ------------------------------
(***************************************************************************)
(* One key of the state (or memories) table on several devices that sync   *)
(* by exchanging souls: setState, deleteState, exportBrain, and            *)
(* importBrain under the causal 'merge' policy.                            *)
(*                                                                         *)
(* A soul is what its device exported last; it may be stale, and it may be *)
(* imported by anyone any number of times, or never.  A content stands for *)
(* its own hash, and contents are compared where the code compares hashes. *)
(* The loser of an edit-vs-edit conflict is kept under a key named by its  *)
(* hash, so the keys here are Base, and one conflict-copy key per content. *)
(* Users edit the base key; a copy they can only look at or delete.        *)
(*                                                                         *)
(* setState and deleteState read the vector (_stampWrite) in one statement *)
(* and write the row in a later one; with several Writers on a device,     *)
(* another call may come in between.  An import is one step here (what can *)
(* get between its statements is the subject of SteeringGrant).            *)
(***************************************************************************)
EXTENDS VersionVector

CONSTANTS
  MaxContent,   \* contents are 1 .. MaxContent, in the order of their hashes
  Writers,      \* concurrent users of one device's brain handle
  Policies,     \* tier policies an import may be given
  MaxEdits      \* bound on every device's own counter

ASSUME SyncAssumption ==
  /\ MaxContent \in Nat \ {0}
  /\ MaxEdits \in Nat
  /\ Policies \subseteq {"demote", "preserve"}

Contents == 1 .. MaxContent
Base == 0
Keys == {Base} \union Contents

VARIABLES
  db,           \* per device, the row under every key
  soul,         \* per device, the table of its latest export
  pend,         \* per device and writer, the call in flight and what it read
  edits         \* history: every causal event on the base key

vars == <<db, soul, pend, edits>>

-----------------------------------------------------------------------------
(* Rows.  Tier 1 is keyholder-direct, tier 3 observed-external. *)

Tiers == {1, 3}

NoRow == [st |-> "absent", content |-> 0, vv |-> Zero, tier |-> 1]

Rows == [st: {"absent", "live", "dead"}, content: Contents \union {0},
         vv: Vectors, tier: Tiers]

Tables == [Keys -> Rows]

Present(r) == r.st # "absent"
Live(r) == r.st = "live"

EmptyTable == [k \in Keys |-> NoRow]

(* Definitions named ..._Bug are slips a change to the code could make; the  *)
(* runs are repeated with each in place of its original, and must fail.      *)

-----------------------------------------------------------------------------
(* The merge of one row *)

\* _resolveImportTier
ImportTier(tier, policy) == IF policy = "preserve" THEN tier ELSE 3

Received(in, policy) == [in EXCEPT !.tier = ImportTier(in.tier, policy)]

\* The branches of _mergeDecision.
IncomingAhead(ex, in) == ~Present(ex) \/ Dominates(in.vv, ex.vv)
Diverged(ex, in) == Present(ex) /\ Concurrent(ex.vv, in.vv)
SameOutcome(ex, in) == ex.st = in.st /\ ex.content = in.content
BothEdits(ex, in) == Diverged(ex, in) /\ ex.st = in.st /\ ex.content # in.content

\* Slip: the incoming side favoured.
IncomingWins_Bug(ex, in) == IF ex.st # in.st THEN Live(in) ELSE TRUE

\* The edit beats the delete; of two edits, the one with the greater hash.
IncomingWins(ex, in) == IF ex.st # in.st THEN Live(in) ELSE in.content > ex.content

\* Slip: the winner keeps its own vector.
UnjoinedSurvivor_Bug(winner, ex, in) == [winner EXCEPT !.st = "live"]

\* The winner of a conflict holds the key, live, with the joined vector.
Survivor(winner, ex, in) == [winner EXCEPT !.st = "live", !.vv = Join(ex.vv, in.vv)]

Merged(ex, in, policy) ==
  CASE IncomingAhead(ex, in) -> Received(in, policy)
    [] Diverged(ex, in) /\ SameOutcome(ex, in) -> [ex EXCEPT !.vv = Join(ex.vv, in.vv)]
    [] Diverged(ex, in) /\ ~SameOutcome(ex, in) ->
         Survivor(IF IncomingWins(ex, in) THEN Received(in, policy) ELSE ex, ex, in)
    [] OTHER -> ex

\* Slip: only an incoming loser is kept.
LocalLoserDropped_Bug(table, in, policy) ==
  IF BothEdits(table[Base], in) /\ ~IncomingWins(table[Base], in)
  THEN [table EXCEPT ![in.content] = [Received(in, policy) EXCEPT !.st = "live"]]
  ELSE table

\* The loser of two edits is written, live, under the key of its content, over
\* whatever is there; _mergeWriteState gives it the tier of an imported row.
WithLoserKept(table, in, policy) ==
  LET ex == table[Base]
      loser == IF IncomingWins(ex, in) THEN ex ELSE in
  IN IF BothEdits(ex, in)
     THEN [table EXCEPT ![loser.content] = [Received(loser, policy) EXCEPT !.st = "live"]]
     ELSE table

\* importBrain's state branch: rows come in key order, the base key first.
\* (Rows under one copy key have one content, so they need no copies.)
Imported(table, incoming, policy) ==
  LET afterBase == IF Present(incoming[Base])
                   THEN [WithLoserKept(table, incoming[Base], policy) EXCEPT
                           ![Base] = Merged(table[Base], incoming[Base], policy)]
                   ELSE table
  IN [k \in Keys |-> IF k # Base /\ Present(incoming[k])
                     THEN Merged(afterBase[k], incoming[k], policy)
                     ELSE afterBase[k]]

-----------------------------------------------------------------------------
(* The calls of a device *)

Calls == [kind: {"idle", "set", "delete"}, key: Keys, content: Contents \union {0},
          vv: Vectors, event: BOOLEAN]

Idle == [kind |-> "idle", key |-> Base, content |-> 0, vv |-> Zero, event |-> FALSE]

\* _stampWrite: a live row saved again with the same content is no event.
Unchanged(r, c) == Live(r) /\ r.content = c

StartSet(d, w, c) ==
  LET r == db[d][Base] IN
  /\ pend[d][w] = Idle
  /\ r.vv[d] < MaxEdits
  /\ pend' = [pend EXCEPT ![d][w] =
                [kind |-> "set", key |-> Base, content |-> c, event |-> ~Unchanged(r, c),
                 vv |-> IF Unchanged(r, c) THEN r.vv ELSE Bump(r.vv, d)]]
  /\ UNCHANGED <<db, soul, edits>>

\* The upsert leaves trust_tier out of its update, so an existing row keeps it.
FinishSet(d, w) ==
  LET p == pend[d][w] IN
  /\ p.kind = "set"
  /\ db' = [db EXCEPT ![d][Base] =
              [st |-> "live", content |-> p.content, vv |-> p.vv, tier |-> @.tier]]
  /\ edits' = IF p.event
              THEN edits \union {[dev |-> d, vv |-> p.vv, content |-> p.content]}
              ELSE edits
  /\ pend' = [pend EXCEPT ![d][w] = Idle]
  /\ UNCHANGED soul

StartDelete(d, w, k) ==
  LET r == db[d][k] IN
  /\ pend[d][w] = Idle
  /\ Live(r)
  /\ r.vv[d] < MaxEdits
  /\ pend' = [pend EXCEPT ![d][w] =
                [kind |-> "delete", key |-> k, content |-> 0, event |-> TRUE,
                 vv |-> Bump(r.vv, d)]]
  /\ UNCHANGED <<db, soul, edits>>

\* A delete is recorded with content 0.
FinishDelete(d, w) ==
  LET p == pend[d][w] IN
  /\ p.kind = "delete"
  /\ db' = [db EXCEPT ![d][p.key].st = "dead", ![d][p.key].vv = p.vv]
  /\ edits' = IF p.key = Base
              THEN edits \union {[dev |-> d, vv |-> p.vv, content |-> 0]}
              ELSE edits
  /\ pend' = [pend EXCEPT ![d][w] = Idle]
  /\ UNCHANGED soul

Export(d) ==
  /\ soul' = [soul EXCEPT ![d] = db[d]]
  /\ UNCHANGED <<db, pend, edits>>

Import(d, w, e, policy) ==
  /\ d # e
  /\ pend[d][w] = Idle
  /\ db' = [db EXCEPT ![d] = Imported(db[d], soul[e], policy)]
  /\ UNCHANGED <<soul, pend, edits>>

Init ==
  /\ db = [d \in Devices |-> EmptyTable]
  /\ soul = [d \in Devices |-> EmptyTable]
  /\ pend = [d \in Devices |-> [w \in Writers |-> Idle]]
  /\ edits = {}

Next ==
  \/ \E d \in Devices : Export(d)
  \/ \E d \in Devices, w \in Writers :
       \/ \E c \in Contents : StartSet(d, w, c)
       \/ \E k \in Keys : StartDelete(d, w, k)
       \/ FinishSet(d, w) \/ FinishDelete(d, w)
       \/ \E e \in Devices, policy \in Policies : Import(d, w, e, policy)

Spec == Init /\ [][Next]_vars

-----------------------------------------------------------------------------
(* Properties *)

\* Every variable keeps its shape.
TypeOK ==
  /\ db \in [Devices -> Tables]
  /\ soul \in [Devices -> Tables]
  /\ pend \in [Devices -> [Writers -> Calls]]
  /\ edits \subseteq [dev: Devices, vv: Vectors, content: Contents \union {0}]

\* The events a device's row has in its history, and those of them that no
\* later event of that history was made over.
Known(d) == {e \in edits : e.vv[e.dev] <= db[d][Base].vv[e.dev]}
Latest(d) == {e \in Known(d) : \A f \in Known(d) \ {e} : f.vv[e.dev] < e.vv[e.dev]}

\* Every edit a device's history holds that nobody edited over is still to be
\* read there: under the key itself, or as a conflict copy (which its user may
\* have deleted).  A merge never silently clobbers an edit.
NoEditLost ==
  \A d \in Devices : \A e \in Latest(d) : e.content # 0 =>
    \/ Live(db[d][Base]) /\ db[d][Base].content = e.content
    \/ Present(db[d][e.content])

\* A device's row never forgets an event it has seen: no call moves the vector
\* of the key back.
KnowledgeGrows ==
  [][\A d \in Devices : Includes(db'[d][Base].vv, db[d][Base].vv)]_vars

\* Nobody knows of more edits by a device than its own row counts, so that a
\* counter is never given out twice and causal comparison means what it says.
OwnCounterLeads ==
  \A d, e \in Devices :
    /\ db[e][Base].vv[d] <= db[d][Base].vv[d]
    /\ soul[e][Base].vv[d] <= db[d][Base].vv[d]

\* Two devices that merge each other's row under a divergence pick the same
\* winner, the same liveness and the same vector.
Agree(x, y) == x.st = y.st /\ x.content = y.content /\ x.vv = y.vv

MergeAgrees ==
  \A d, e \in Devices, policy \in Policies :
    LET x == db[d][Base]
        y == db[e][Base]
    IN Present(x) /\ Present(y) /\ x.vv # y.vv
         => Agree(Merged(x, y, policy), Merged(y, x, policy))

=============================================================================
