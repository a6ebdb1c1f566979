----------------------------- MODULE ForwardMerge -----------------------------
(***************************************************************************)
(* A memory and the stream of captures, a snapshot of both, and the two    *)
(* rollbacks that bring it back: forward-merge, in place, and replace.     *)
(*                                                                         *)
(* A forward-merge reads the Nose and the prune watermark first and merges *)
(* in one exclusive transaction; calls come in between.  Its safety        *)
(* snapshot and what retention does to the shelf are SnapshotShelf's, the  *)
(* files of a replace are SwapRecovery's.  The audit capture of a merge    *)
(* has a source of its own and is left out.                                *)
(***************************************************************************)
EXTENDS Captures, MemoryScent

CONSTANT
  MaxCalls      \* bound on calls, and on what goes wrong

VARIABLES
  snap,         \* the snapshot, once there is one
  merge,        \* the forward-merge under way
  calls         \* calls so far

vars == <<captureVars, scentVars, snap, merge, calls>>

-----------------------------------------------------------------------------

Snaps == [row: Memories, column: Noses, nose: Noses, stale: BOOLEAN,
          stream: Streams, lastCapture: 0 .. MaxCaptures, watermark: Times \union {0}]

Merges == [snap: Snaps, noseMatch: BOOLEAN, mark: Times \union {0}]

Call == calls < MaxCalls /\ calls' = calls + 1

\* The calls of a user.
Memory ==
  /\ \/ \E c \in Contents :
          \/ SetMemory(c, now)
          \/ \E at \in Times :
               \/ ImportMerged(c, at)
               \/ \E overwrite \in BOOLEAN : ImportOneShot(c, at, overwrite)
     \/ DeleteMemory
     \/ \E new \in Noses : BeginMigration(new)
     \/ MigrationFails
  /\ Call
  /\ UNCHANGED <<captureVars, snap, merge>>

Capture ==
  /\ \/ \E p \in Feeders, src \in Sources, ts \in Times, data \in Payloads, dup \in BOOLEAN :
          Offer(p, src, ts, data, dup)
     \/ \E until \in Times, srcs \in {Sources} \union {{src} : src \in Sources} :
          DeleteCaptures(until, srcs)
     \/ PrunerKilled
  /\ Call
  /\ UNCHANGED <<scentVars, snap, merge>>

\* The steps that calls and workers take by themselves.
Embed ==
  /\ TakeJob \/ PutJob
  /\ UNCHANGED <<captureVars, snap, merge, calls>>

Migrate ==
  /\ MigrationStep
  /\ UNCHANGED <<captureVars, snap, merge, calls>>

CaptureStep ==
  /\ (\E p \in Feeders : Store(p)) \/ MarkPruned
  /\ UNCHANGED <<scentVars, snap, merge, calls>>

-----------------------------------------------------------------------------
(* Snapshot and rollback *)

TakeSnapshot ==
  /\ Call
  /\ txn = NoTxn
  /\ snap' = {[row |-> row, column |-> column, nose |-> nose, stale |-> stale,
               stream |-> stream, lastCapture |-> lastCapture, watermark |-> watermark]}
  /\ UNCHANGED <<captureVars, scentVars, merge>>

\* The Nose and the watermark are read before the transaction.
BeginMerge ==
  /\ Call
  /\ merge = {} /\ txn = NoTxn
  /\ merge' = {[snap |-> s, noseMatch |-> s.nose = nose, mark |-> watermark] : s \in snap}
  /\ UNCHANGED <<captureVars, scentVars, snap>>

\* The Scent that comes with the row of the snapshot.
Carried(m) == IF m.noseMatch THEN m.snap.row.scent ELSE None

\* The row of the snapshot holds against a tombstone, nothing, and an older
\* live row; it leaves the hash that is there.
SnapshotWins(m) ==
  /\ m.snap.row.st # "absent"
  /\ ~Live(row) \/ row.at < m.snap.row.at

Restored(m) ==
  [st |-> "live", content |-> m.snap.row.content, hash |-> row.hash,
   scent |-> Carried(m), at |-> m.snap.row.at]

CommitMerge ==
  /\ txn = NoTxn
  /\ \E m \in merge :
       /\ IF SnapshotWins(m)
          THEN /\ Carried(m) # None => m.snap.column = column
               /\ row' = Restored(m)
               /\ stale' = Marked(row', TRUE)
          ELSE UNCHANGED <<row, stale>>
       /\ LET back == Inserted(m.snap.stream, m.mark) IN
            /\ lastCapture + Cardinality(back) <= MaxCaptures
            /\ stream' = stream \union back
            /\ lastCapture' = lastCapture + Cardinality(back)
            /\ gone' = IF m.mark = watermark THEN gone ELSE gone \ HashesOf(back)
  /\ merge' = {}
  /\ UNCHANGED <<now, watermark, feeder, pruner, column, nose, job, txn, snap, calls>>

\* A failing merge rolls back, and leaves everything as it was.
MergeFails ==
  /\ Call
  /\ merge # {}
  /\ merge' = {}
  /\ UNCHANGED <<captureVars, scentVars, snap>>

\* Everything is what it was; what was pruned since is back.
Replace ==
  /\ Call
  /\ txn = NoTxn /\ merge = {}
  /\ \E s \in snap :
       /\ row' = s.row /\ column' = s.column /\ nose' = s.nose /\ stale' = s.stale
       /\ stream' = s.stream /\ lastCapture' = s.lastCapture /\ watermark' = s.watermark
       /\ gone' = gone \ HashesOf(s.stream)
  /\ UNCHANGED <<now, feeder, pruner, job, txn, snap, merge>>

Pass ==
  /\ now < MaxTime
  /\ now' = now + 1
  /\ UNCHANGED <<stream, lastCapture, watermark, feeder, pruner, gone,
                 scentVars, snap, merge, calls>>

Init ==
  /\ CapturesInit /\ ScentInit
  /\ snap = {} /\ merge = {} /\ calls = 0

Next ==
  \/ Memory \/ Embed \/ Migrate
  \/ Capture \/ CaptureStep
  \/ TakeSnapshot \/ BeginMerge \/ CommitMerge \/ MergeFails \/ Replace
  \/ Pass

\* The embedder goes on, and a migration that has begun does too.
Fairness == WF_vars(Embed) /\ WF_vars(Migrate)

Spec == Init /\ [][Next]_vars /\ Fairness

-----------------------------------------------------------------------------
(* Properties *)

TypeOK ==
  /\ CapturesTypeOK /\ ScentTypeOK
  /\ snap \subseteq Snaps /\ merge \subseteq Merges
  /\ calls \in Nat

\* What the keyholder has pruned by time stays pruned: no forward-merge brings
\* it back, unless it had read the watermark before the prune moved it.
PrunedStaysPruned == gone \intersect HashesOf(stream) = {}

\* A memory is found by what it says: edits, merges, rollbacks and migrations
\* never leave it a Scent of something else, but on the ways that are marked.
ScentIsCurrent == Live(row) /\ row.scent # None => row.scent = row.content \/ stale

\* Every live memory gets its Scent, also when a migration was cut short.
BackfillEnds == Live(row) ~> ~Live(row) \/ row.scent # None

=============================================================================
