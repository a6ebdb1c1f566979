---------------------------- MODULE SteeringGrant ----------------------------
(***************************************************************************)
(* The steering table of a brain and everything that writes it:            *)
(* proposeSteering, grantSteering, revokeSteering, deleteSteering,         *)
(* seedFromSpore, the steering branch of importBrain, and both rollbacks.  *)
(*                                                                         *)
(* Every API function is async and reads the row in one statement and      *)
(* writes it in a later one, so a call is two steps here: Start... is the  *)
(* SELECT with the decisions taken from it, Finish... is the write.  The   *)
(* database runs one statement at a time, so what interleaves is whole     *)
(* statements of different callers.  With one caller the calls are serial. *)
(*                                                                         *)
(* A row keeps what the grant rules read.  Its "text" stands for the four  *)
(* behavioural fields together (content, mode, match_pattern, priority);   *)
(* "declared" for origin IS NOT NULL; "grant" for the pair granted_by,     *)
(* granted_at, which is written together or cleared together (0: NULL);    *)
(* "at" for updated_at.  Version vectors are in module SyncMerge, so a     *)
(* merge decision may come out here in any way that the rows allow.        *)
(***************************************************************************)
EXTENDS Naturals, FiniteSets

CONSTANTS
  Ids,          \* ids of steering entries, conflict-copy ids included
  Texts,        \* behaviours a rule may have
  NoText,       \* the text of a row that is not there
  Callers,      \* concurrent users of one brain handle
  MaxGrants,    \* bound on the grants given
  MaxNow,       \* bound on the clock
  MaxSnaps      \* bound on the snapshots kept

ASSUME ConstantsAssumption ==
  /\ Ids # {}
  /\ NoText \notin Texts
  /\ MaxGrants \in Nat
  /\ MaxNow \in Nat
  /\ MaxSnaps \in Nat

VARIABLES
  row,          \* the steering table: one row per id
  pend,         \* per caller, the call in flight and what it has read
  txn,          \* an import's BEGIN is open
  saved,        \* the rows a ROLLBACK of that transaction returns to
  snaps,        \* the snapshots on disk, each a copy of the table
  now,          \* the clock _ts() reads
  lastGrant,    \* number of the latest grant
  issued,       \* grants given: id, number and the text the grantor's call read
  withdrawn,    \* grants that a call took back and reported as taken back
  seeded        \* ids a spore installed

vars == <<row, pend, txn, saved, snaps, now, lastGrant, issued, withdrawn, seeded>>
db == <<row, txn, saved, snaps>>
books == <<lastGrant, issued, withdrawn, seeded>>

-----------------------------------------------------------------------------
(* Rows *)

NoGrant == 0

NoRow == [st |-> "absent", text |-> NoText, enabled |-> FALSE,
          declared |-> FALSE, grant |-> NoGrant, at |-> 0]

Rows == [st: {"absent", "live", "dead"}, text: Texts \union {NoText},
         enabled: BOOLEAN, declared: BOOLEAN, grant: Nat, at: Nat]

Tables == [Ids -> Rows]

Live(r) == r.st = "live"
Present(r) == r.st # "absent"

(* Definitions named ..._Bug are slips a change to the code could make; the  *)
(* runs are repeated with each in place of its original, and must fail.      *)

\* Slips: an ungranted active rule carried over; a grant carried to new text.
KeepUngranted_Bug(ex, t) == Live(ex) /\ ex.text = t
KeepAnyText_Bug(ex, t) == Live(ex) /\ ex.grant # NoGrant

\* A grant is carried over a re-proposal only if there is one and the
\* behaviour is the one it was given for.
KeepGrant(ex, t) == Live(ex) /\ ex.text = t /\ ex.grant # NoGrant

\* A re-proposal that turns an active rule back into a proposal.
Drops(ex, kept) == Live(ex) /\ ex.enabled /\ ~kept

\* UPDATE ... WHERE id = ...: nothing happens to a row that is not there.
Update(id, new) == IF Present(row[id]) THEN [row EXCEPT ![id] = new] ELSE row

Switched(r, on, g) == [r EXCEPT !.enabled = on, !.grant = g]

\* Slip: deleted_at set, the rest of the row left as it was.
TombstoneOnly_Bug(r) == [r EXCEPT !.st = "dead"]

Tombstone(r) == [Switched(r, FALSE, NoGrant) EXCEPT !.st = "dead"]

\* Slip: the sender's enabled flag written as it came.
ImportedAsSent_Bug(t, dead, at) ==
  [st |-> IF dead THEN "dead" ELSE "live", text |-> t, enabled |-> TRUE,
   declared |-> FALSE, grant |-> NoGrant, at |-> at]

\* A row written by any import branch: whatever arrives, it arrives disabled,
\* with no origin and no grant.
Imported(t, dead, at) ==
  [st |-> IF dead THEN "dead" ELSE "live", text |-> t, enabled |-> FALSE,
   declared |-> FALSE, grant |-> NoGrant, at |-> at]

-----------------------------------------------------------------------------
(* Calls in flight *)

Kinds == {"idle", "propose", "grant", "revoke", "delete", "import", "write"}

\* For an import, text, dead and at are those of the incoming row, "won" says
\* that the decision writes it, and copy, copyText, copyAt are the id and the
\* content the loser of an edit-vs-edit conflict is kept under (own id: none).
Calls == [kind: Kinds, id: Ids, text: Texts \union {NoText}, enabled: BOOLEAN,
          grant: Nat, report: BOOLEAN, dead: BOOLEAN, at: Nat, won: BOOLEAN,
          copy: Ids, copyText: Texts \union {NoText}, copyAt: Nat]

Call(kind, id) ==
  [kind |-> kind, id |-> id, text |-> NoText, enabled |-> FALSE,
   grant |-> NoGrant, report |-> FALSE, dead |-> FALSE, at |-> 0,
   won |-> FALSE, copy |-> id, copyText |-> NoText, copyAt |-> 0]

Idle == Call("idle", CHOOSE id \in Ids : TRUE)
Importing == Call("import", CHOOSE id \in Ids : TRUE)

Start(c, call) == pend[c] = Idle /\ pend' = [pend EXCEPT ![c] = call]
Finish(c, kind) == pend[c].kind = kind /\ pend' = [pend EXCEPT ![c] = Idle]

Withdraw(g) == (withdrawn \union {g}) \ {NoGrant}

-----------------------------------------------------------------------------
(* proposeSteering *)

StartPropose(c, id, t) ==
  LET ex == row[id]
      kept == KeepGrant(ex, t)
  IN /\ Start(c, [Call("propose", id) EXCEPT
                    !.text = t,
                    !.enabled = kept /\ ex.enabled,
                    !.grant = IF kept THEN ex.grant ELSE NoGrant,
                    !.report = Drops(ex, kept)])
     /\ UNCHANGED <<db, now, books>>

\* The upsert also declares an origin and clears deleted_at.
FinishPropose(c) ==
  LET p == pend[c] IN
  /\ Finish(c, "propose")
  /\ row' = [row EXCEPT ![p.id] =
               [st |-> "live", text |-> p.text, enabled |-> p.enabled,
                declared |-> TRUE, grant |-> p.grant, at |-> now]]
  /\ withdrawn' = IF p.report THEN Withdraw(row[p.id].grant) ELSE withdrawn
  /\ UNCHANGED <<txn, saved, snaps, now, lastGrant, issued, seeded>>

(* grantSteering *)

NextGrant == lastGrant + 1

StartGrant(c, id) ==
  /\ Live(row[id])
  /\ lastGrant < MaxGrants
  /\ Start(c, [Call("grant", id) EXCEPT !.text = row[id].text])
  /\ UNCHANGED <<db, now, books>>

FinishGrant(c) ==
  LET id == pend[c].id
      g == NextGrant
  IN /\ lastGrant < MaxGrants
     /\ Finish(c, "grant")
     /\ row' = Update(id, [Switched(row[id], TRUE, g) EXCEPT !.at = now])
     /\ lastGrant' = g
     /\ issued' = issued \union {[id |-> id, no |-> g, text |-> pend[c].text]}
     /\ UNCHANGED <<txn, saved, snaps, now, withdrawn, seeded>>

(* revokeSteering *)

StartRevoke(c, id) ==
  /\ Live(row[id])
  /\ row[id].enabled \/ row[id].grant # NoGrant
  /\ Start(c, Call("revoke", id))
  /\ UNCHANGED <<db, now, books>>

FinishRevoke(c) ==
  LET id == pend[c].id IN
  /\ Finish(c, "revoke")
  /\ row' = Update(id, [Switched(row[id], FALSE, NoGrant) EXCEPT !.at = now])
  /\ withdrawn' = Withdraw(row[id].grant)
  /\ UNCHANGED <<txn, saved, snaps, now, lastGrant, issued, seeded>>

(* deleteSteering: the tombstone keeps its text and its updated_at *)

StartDelete(c, id) ==
  /\ Live(row[id])
  /\ Start(c, Call("delete", id))
  /\ UNCHANGED <<db, now, books>>

FinishDelete(c) ==
  LET id == pend[c].id IN
  /\ Finish(c, "delete")
  /\ row' = Update(id, Tombstone(row[id]))
  /\ withdrawn' = Withdraw(row[id].grant)
  /\ UNCHANGED <<txn, saved, snaps, now, lastGrant, issued, seeded>>

(* seedFromSpore: one statement, ON CONFLICT DO NOTHING *)

SeedFromSpore(c, id, t) ==
  /\ pend[c] = Idle
  /\ row[id].st = "absent"
  /\ row' = [row EXCEPT ![id] = [st |-> "live", text |-> t, enabled |-> TRUE,
                                 declared |-> FALSE, grant |-> NoGrant, at |-> now]]
  /\ seeded' = seeded \union {id}
  /\ UNCHANGED <<pend, txn, saved, snaps, now, lastGrant, issued, withdrawn>>

-----------------------------------------------------------------------------
(* importBrain: BEGIN, then per incoming row a SELECT and a write, then      *)
(* COMMIT, or ROLLBACK when anything throws.  BEGIN is a plain statement on   *)
(* the one connection, so the statements of other callers run inside the     *)
(* transaction too.  One import at a time.                                   *)

ImportBegin(c) ==
  /\ ~txn
  /\ Start(c, Importing)
  /\ txn' = TRUE
  /\ saved' = row
  /\ UNCHANGED <<row, snaps, now, books>>

\* The decisions an incoming row can come to: written as it is (first of its
\* id, dominating, or a one-shot policy); the edit of a delete-vs-edit; either
\* side of an edit-vs-edit, the other one kept as a copy; a copy under an id
\* that is not among Ids leaves their rows alone, which the own id stands for.
Incoming(id, t, at) == [Call("write", id) EXCEPT !.text = t, !.at = at]
Taken(in, dead) == [in EXCEPT !.won = TRUE, !.dead = dead]
EditWins(in, dead) == [in EXCEPT !.won = ~dead]
BothEdits(in, ex, w, k) ==
  [in EXCEPT !.won = w, !.copy = k,
             !.copyText = IF w THEN ex.text ELSE in.text,
             !.copyAt = IF w THEN ex.at ELSE in.at]

\* A row that is skipped, or fast-forwarded with nothing but its vector
\* changed, leaves all of this state alone and is no step.
Decisions(in, ex, dead) ==
  {Taken(in, dead)} \union
  (IF ~Present(ex) THEN {}
   ELSE IF dead = Live(ex) THEN {EditWins(in, dead)}
   ELSE {BothEdits(in, ex, w, k) : w \in BOOLEAN, k \in Ids})

ImportRead(c, id, t, dead, at) ==
  /\ pend[c] = Importing
  /\ \E d \in Decisions(Incoming(id, t, at), row[id], dead) : pend' = [pend EXCEPT ![c] = d]
  /\ UNCHANGED <<db, now, books>>

\* The row a conflict copy is written as: live, disabled, ungranted.
ConflictCopy(p) == Imported(p.copyText, FALSE, p.copyAt)

\* A local winner keeps its row and loses its deleted_at.
ImportWrite(c) ==
  LET p == pend[c]
      merged == IF p.won THEN [row EXCEPT ![p.id] = Imported(p.text, p.dead, p.at)]
                ELSE Update(p.id, [row[p.id] EXCEPT !.st = "live"])
  IN /\ p.kind = "write"
     /\ row' = IF p.copy = p.id THEN merged
               ELSE [merged EXCEPT ![p.copy] = ConflictCopy(p)]
     /\ pend' = [pend EXCEPT ![c] = Importing]
     /\ UNCHANGED <<txn, saved, snaps, now, books>>

ImportCommit(c) ==
  /\ Finish(c, "import")
  /\ txn' = FALSE
  /\ saved' = [id \in Ids |-> NoRow]
  /\ UNCHANGED <<row, snaps, now, books>>

ImportFail(c) ==
  /\ pend[c].kind \in {"import", "write"}
  /\ pend' = [pend EXCEPT ![c] = Idle]
  /\ row' = saved
  /\ txn' = FALSE
  /\ saved' = [id \in Ids |-> NoRow]
  /\ UNCHANGED <<snaps, now, books>>

-----------------------------------------------------------------------------
(* Snapshots and rollbacks.  These hold the brain to themselves (a directory *)
(* swap, an exclusive transaction), so each is one step; none starts inside  *)
(* an open import.                                                           *)

Snapshot(c) ==
  /\ pend[c] = Idle
  /\ ~txn
  /\ Cardinality(snaps) < MaxSnaps
  /\ snaps' = snaps \union {row}
  /\ UNCHANGED <<row, pend, txn, saved, now, books>>

\* _liveWins: the snapshot only wins when it is strictly newer.
LiveWins(live, snap) == live.at >= snap.at

\* The scan of the snapshot takes every row, its tombstones included.
ForwardMerged(live, snap) ==
  IF ~Present(snap) \/ (Live(live) /\ LiveWins(live, snap)) THEN live
  ELSE IF Live(live) THEN [snap EXCEPT !.st = "live"]
  ELSE [Switched(snap, FALSE, NoGrant) EXCEPT !.st = "live"]

\* What a rollback deliberately restores is no longer taken back.
Restore(table) ==
  /\ row' = table
  /\ withdrawn' = withdrawn \ {table[id].grant : id \in {i \in Ids : table[i] # row[i]}}
  /\ UNCHANGED <<pend, txn, saved, now, lastGrant, issued, seeded>>

\* Both modes first take a safety snapshot.  Retention may drop any snapshot
\* but the target and that one, and at the bound it does.
WithSafety(s) ==
  IF Cardinality(snaps \union {row}) <= MaxSnaps THEN snaps \union {row} ELSE {s, row}

RollbackForwardMerge(c, s) ==
  /\ pend[c] = Idle
  /\ ~txn
  /\ snaps' = WithSafety(s)
  /\ Restore([id \in Ids |-> ForwardMerged(row[id], s[id])])

RollbackReplace(c, s) ==
  /\ pend[c] = Idle
  /\ ~txn
  /\ snaps' = WithSafety(s)
  /\ Restore(s)

Tick ==
  /\ now < MaxNow
  /\ now' = now + 1
  /\ UNCHANGED <<db, pend, books>>

-----------------------------------------------------------------------------
Init ==
  /\ row = [id \in Ids |-> NoRow]
  /\ pend = [c \in Callers |-> Idle]
  /\ txn = FALSE
  /\ saved = [id \in Ids |-> NoRow]
  /\ snaps = {}
  /\ now = 0
  /\ lastGrant = 0
  /\ issued = {}
  /\ withdrawn = {}
  /\ seeded = {}

Next ==
  \/ \E c \in Callers, id \in Ids, t \in Texts :
       StartPropose(c, id, t) \/ SeedFromSpore(c, id, t)
  \/ \E c \in Callers, id \in Ids :
       StartGrant(c, id) \/ StartRevoke(c, id) \/ StartDelete(c, id)
  \/ \E c \in Callers, id \in Ids, t \in Texts, dead \in BOOLEAN, at \in 0 .. MaxNow :
       ImportRead(c, id, t, dead, at)
  \/ \E c \in Callers :
       \/ FinishPropose(c) \/ FinishGrant(c) \/ FinishRevoke(c) \/ FinishDelete(c)
       \/ ImportBegin(c) \/ ImportWrite(c) \/ ImportCommit(c) \/ ImportFail(c)
       \/ Snapshot(c)
       \/ \E s \in snaps : RollbackForwardMerge(c, s) \/ RollbackReplace(c, s)
  \/ Tick

Spec == Init /\ [][Next]_vars

-----------------------------------------------------------------------------
(* Properties *)

\* Every variable keeps its shape, and grant numbers stay within those given.
TypeOK ==
  /\ row \in Tables
  /\ pend \in [Callers -> Calls]
  /\ txn \in BOOLEAN
  /\ saved \in Tables
  /\ snaps \in SUBSET Tables
  /\ now \in Nat
  /\ lastGrant \in 0 .. MaxGrants
  /\ issued \in SUBSET [id: Ids, no: 1 .. lastGrant, text: Texts \union {NoText}]
  /\ withdrawn \in SUBSET Nat
  /\ seeded \in SUBSET Ids

\* The storage CHECK steering_enabled_requires_grant never has to refuse a
\* write: no row with a declared origin is enabled without a grant, dead rows
\* and snapshots included, although no action above is guarded by the CHECK.
GrantFloor ==
  \A table \in {row, saved} \union snaps : \A id \in Ids :
    table[id].declared /\ table[id].enabled => table[id].grant # NoGrant

\* Rule 1 of the API: a grant is bound to the text it was given over, so an
\* active rule says what the grantor's call read.
GrantBoundToText ==
  \A id \in Ids : Live(row[id]) /\ row[id].enabled /\ row[id].grant # NoGrant =>
    [id |-> id, no |-> row[id].grant, text |-> row[id].text] \in issued

\* Once a call has reported a grant as taken back, the rule is not on under
\* it again, unless a rollback put it back on purpose.
RevokeHolds ==
  \A id \in Ids : Live(row[id]) /\ row[id].enabled => row[id].grant \notin withdrawn

\* The rules that are on are on by the authority GrantAuthority demands.
Status(r) ==
  IF ~(Live(r) /\ r.enabled) THEN [by |-> "none", no |-> 0]
  ELSE IF r.grant # NoGrant THEN [by |-> "grant", no |-> r.grant]
  ELSE [by |-> "spore", no |-> 0]

Authority == INSTANCE GrantAuthority WITH
  Grants <- 1 .. MaxGrants,
  status <- [id \in Ids |-> Status(row[id])],
  issued <- {<<g.id, g.no>> : g \in issued}

OnlyByAuthority == Authority!Spec

=============================================================================
