# Verification of the elifant kernel

TLA+ models of `@mediagato/elifant`, a memory kernel that runs inside one Node
process over one PGlite instance (Postgres compiled to WASM, one connection).
TLC checks every model on small instances; TLAPS proves the theorems named
below for all values of the constants. Line numbers are of `src/src/*.js`.
`PROJECT.json` maps each definition to the lines it was translated from.

* [Inventory](#inventory): what the kernel consists of, and what is hard in it
* [Modules](#modules): what models what, and how
* [Runs](#runs): what each run asks, its bounds, its fairness
* [Proofs](#proofs): theorems, assumptions, the argument
* [Disagreements](#disagreements): where the code and its own text part ways
* [Limits and plan](#limits-and-plan): what is left out, and what comes next

## Inventory

The kernel has no threads. Every API function is `async`; it runs statement by
statement on one connection, and whatever else the host calls may run between
two of its statements. Explicit transactions (`BEGIN` ... `COMMIT` as plain
statements) therefore belong to the connection and not to the caller. The
process may be killed at any statement or file operation. Nothing survives it
but the PGlite directory, the snapshots and the rollback journal.

| component | state | operations | interacts with |
|---|---|---|---|
| instance armor (`index.js` 63-169) | `_db`, `_reopenPromise`, `_rawTxnDepth` | `_guardedCall`, canary, `_reopen` | every statement of every component |
| steering (2118-2430) | table `steering`: text, enabled, grant, origin, tombstone | propose, grant, revoke, delete, spore seeding | import, rollbacks, Keeper (proposes one rule) |
| causal sync (3586-3760) | version vector, tier and tombstone of each row | local writes stamp a vector; merge decides take, skip, conflict | import and export |
| keyholder pins (2785-2841, 3199-3310) | table `keyholders`: key, high-water stamp, last signature | first contact, return visit, rotation, pin, forget | import |
| import and export (2899-3560) | none of its own; one explicit transaction | `exportBrain`, `importBrain` with four conflict modes | armor, pins, sync, steering |
| snapshots and rollback (3870-4240) | snapshot files, journal, directories `brain`, `brain.new`, `brain.old`, `_swapInProgress` | snapshot, rollback by replace or by forward-merge, recovery in `init`, retention | every writer |
| the Keeper (`keeper.js`) | `memory_edges`, `neighbours_at`, shelves, pair ledger | one tick: queue, edges, components, shelves, questions | memories, captures, steering |
| the Mind (`mind.js`) | ledger `mind:pattern:*`, knowledge rows | one tick: resolve, grade, promote, revise, retire, cull | shelves, memories, Guard |
| the Guard (`guard.js`) | none | lexical verdict on a text | Keeper, Mind |
| decay (`decay.js`) | archive flag and reason of memories | one tick: candidates, guard snapshot, archive, receipt | memories, recall counters, captures |
| memories | rows, embeddings, pins, archive flags, tombstones | save, embed, pin, archive, delete, confirm, reap | everything above |
| recall log (1640-1832) | counters `memory_access`, rows `recall_log` | count, append, amortized trim, prune | search, decay, tombstone pruning |
| captures (1890-2100) | append-only `captures`, its prune watermark | append, bounded read, prune | Keeper, Mind, decay, forward-merge |
| tombstone pruning (1863-1887) | none of its own | three deletes and a watermark | merge, recall counters |
| embedding migration (730-760) | the vector column, `embed_dim` | one explicit transaction | every writer, the host's embedder |
| signing key, search, skills, tar, health, names, lessons | small or none | reads, single writes, pure functions | |

What is hard here, and hard to test:

* **Reads before awaits.** `proposeSteering`, `grantSteering`, `setState` and
  the ticks decide on rows read earlier; the write names a row by id only.
* **One connection, many callers.** A reopen pulls the instance, and an open
  transaction, from under everybody; `_rawTxnDepth` is one counter for all.
* **Two ways to die.** A broken instance throws, or answers everything with no
  rows, and callers share one reopen that may itself fail.
* **Kills between file operations.** The swap renames, removes and journals;
  the recovery that follows may be killed as well, and a journal may be lost.
* **Delivery.** Souls come late, twice, out of order and from clocks that are
  wrong, and merges meet conflict copies made by other merges.
* **Many writers of one row.** Seven paths write steering rows, each with its
  own rule for flag, grant and tombstone.
* **Two statements for one thing.** A prune deletes and then raises its
  watermark, a search counts and then logs and trims, decay reads, then
  archives by name, then tells: each may end, or be overtaken, in between.
* **Silent failures.** Trims, unlinks and retention fail without a word, and
  what they were to bound goes on growing until the next one.
* **Work done elsewhere.** A vector is computed by the host from a text that
  may be gone, for a column that may have another dimension, when it arrives.
* **Long sequences.** Shelves dissolve, rename and return; patterns must find
  them again across ticks, edits and kills.

What makes each component correct:

* *armor*: no false emptiness, nobody goes on with a dead instance, nobody
  waits for ever, nothing of an explicit transaction is retried outside it;
* *steering*: a rule is on only by a grant given to that rule (to its text,
  when calls are serial) or by a spore; what was taken back stays back;
* *sync*: no edit silently lost, two devices agree, histories grow and counters
  are not reused, and what is written over a reaped tombstone stays written;
* *pins*: high-water stamps rise, move only with the rows they stand for, and
  never refuse a peer's newest soul; an accepted soul is not accepted again;
* *rollback*: all or nothing, never an empty brain over recoverable data, no
  acknowledged write lost, and the brain comes back;
* *Keeper*: a watermark means the edges are there, shelves are the components,
  a question is asked once, the queue drains;
* *Mind*: identities one to one and stable, ledger and knowledge rows agree,
  no guarded pattern hardens, patterns without evidence fade;
* *decay*: only what is fair game is set aside, never without a receipt, and
  everything that is fair game in the end;
* *recall log*: counters belong to rows, and the log has a ceiling;
* *captures*: what was pruned by time does not come back with a merge;
* *memories*: a vector is one of the text beside it, and every row gets one;
* *snapshots*: a listed snapshot can be restored, none goes without a reason,
  and the shelf is bounded.

## Modules

Sixteen modules model code, one of them an abstract specification and one a
library; `MC*` give TLC its constants and `*Proofs` hold the theorems.

**`GrantAuthority`** is what the steering API promises (2118-2156), without
tables or calls: each id is off, on by a numbered grant, or on by a spore, and
an id is only ever on by a backing issued to that id.

**`SteeringGrant`** is the table. A call is two steps: `Start...` is the SELECT
with what the code decides from it, `Finish...` the write, `pend[c]` the locals
kept across the await. `txn` and `saved` are the import's transaction, which
any caller's statement may fall into. `ImportRead`/`ImportWrite` cover the
steering branch in every conflict mode; version vectors are abstracted to "any
decision the rows allow", which `SyncMerge` refines for one key.
`RollbackForwardMerge` and `RollbackReplace` restore a table from `snaps`.
`issued` and `withdrawn` are history variables. `OnlyByAuthority` is the
refinement of `GrantAuthority`.

**`VersionVector`** translates `_vvBump`, `_vvMerge` and `_vvCompare`.
**`SyncMerge`** is one key of `state` or `memories` on several devices, with
the conflict copies of that key. `Merged` is `_mergeDecision` with the branch
of `importBrain` that carries it out. `soul[d]` is the device's last export,
to be imported by anybody at any later time, so it is stale, duplicated,
reordered or lost as it comes. `edits` is the causal history.

**`SwapRecovery`** is `rollback(id, 'replace')` and `init`. Directories are
`none`, `whole`, or remnants that do or do not look like a store; each file
operation is a step that may fail where the code handles failure; `Crash` may
come between any two and `JournalLost` may lose or tear the journal. `Plan`
chooses the branch of `_recoverInterruptedSwap`. Two history variables say what
a recovery has to find: `had` is what the brain's users last had in it, moved on
by their writes and by rename#2 and by nothing else while the brain is up;
`offered` is the snapshot from rename#1 on, until rename#2 or a boot has settled
what became of it. A boot may settle on the snapshot only where it was offered,
whatever recovery has put into `brain`.

**`InstanceArmor`** is `_guardedCall` and `_reopen`. `Run` is the first attempt,
`Canary` the `SELECT 1` after an empty read, `Checked` and `Caught` what
follows a reopen in the try and in the catch, `RunRetry` the raw retry. The
explicit transaction is that of an import: begin, row, look-up, row, commit.
PGlite itself (`Executed`) is external.

**`KeyholderGate`** is the trust anchor of `importBrain` with the transaction
around it: `Lookup`, `Gate` (first contact, return visit, rotation, refusal),
`ApplyRows`, `Commit` or `Rollback`. `Committed` is what a crash leaves. Peers
export souls with whole-second stamps of their own clocks.

**`MindLadder`** is `mindTick`: one step for the reads (candidates, resolution
of identities, evidence and confidence), then one per pattern and write
(knowledge row, archive, ledger row), with a kill possible at each. Confidence
is computed from its formula in per cents with the code's rounding. `Keyholder`
archives a knowledge row, takes it out of the archive or deletes it, between any
two steps of a tick; `WriteRow` is the Mind's own write, which brings a row back
from both. A deleted row does not hold its name, so another pattern may take it.
`loose` are the patterns whose row a kill, the keyholder or another pattern has
touched since the Mind last wrote it.

**`KeeperTick`** is `keeperTick`: batch of the queue, prune, edges, watermark,
components and matching, shelf by shelf, pair by pair, ledger. Saves, edits,
archives, deletes, embeddings and grants come between any two steps.

**`SyncPrune`** extends `SyncMerge` with `pruneTombstones` of the base key. The
guard is what the function asks of its caller and cannot check: every device,
every soul and every call has seen the delete. `anew` remembers who wrote the
key again.

**`RecallLog`** is what a search leaves behind: `Bump` for each hit, `Insert`,
and, when its id says so, `ReadCut` and `Trim`. Each may fail (`Drop`), and a
failed insert has consumed its id (`InsertFails`). `missed` and `cutAt` say
which trims are owed. The strength of a counter is `none`, `strong` or `faded`,
which is all that its readers tell apart.

**`MemoryDecay`** extends it with the memories as decay and the tombstone pruner
see them. Calls of the keyholder are single steps; the tick (`ReadCandidates`,
`Guard`, `SetAside`, `Tell`) and the pruner (`Reap`, `Sweep`) are several, with
calls and kills in between. `Window` and `Plan` are the query with its order
and limits.

**`SnapshotShelf`** is `snapshots/`: tarballs, index and retention. A snapshot
waits only while it dumps; from `Write` to the last `Unlink` the code does not
wait, so `io` is a lock for callers and not for crashes, torn appends, failing
unlinks and failing retention. `Kept` is `_applyRetention`; a listing is the
lines that parse and every tarball without one.

**`Captures`** is `addCapture` (look, then insert), `deleteCaptures` (delete,
then mark) and what a merge inserts. **`MemoryScent`** is one memory and its
vector: saves, the embedder's two halves (`TakeJob`, `PutJob`), the two ways
an import writes, and `migrateEmbedDim` statement by statement, whose ROLLBACK
undoes what others did meanwhile. **`ForwardMerge`** composes the two with a
snapshot, a forward-merge (its reads before the transaction, then the
transaction) and a replace. `stale` marks the ways on which the code leaves a
wrong vector or hash (see [Disagreements](#disagreements)) until a save puts it
right.

`MindLadder` and `KeeperTick` are connected by what they read from one
another: the Mind's `shelf` is what the Keeper maintains and is free to change
there between ticks. Likewise `SteeringGrant` is free to take any merge
decision and `KeyholderGate` to fail in the rows, so each module stands for
its neighbours by an over-approximation; they are not multiplied with each
other, which TLC could not explore.

## Runs

| run | question | bounds | states |
|---|---|---|---|
| `steering_serial` | Does the steering API keep its promises when the host awaits each call? | 1 id, 2 texts, 1 grant, clock 0..1, 1 snapshot | 4.9 M |
| `sync_pair` | Do two devices ever lose, repeat or disagree on an edit? | 2 devices, 2 contents, 2 edits each, both tier policies | 244 k |
| `swap` | Is a replace atomic under kills, failed file operations and lost journals? | 1 caller, 3 writes, 3 snapshots | 206 k |
| `gate` | Are pins monotonic and transactional? | 1 peer, 2 keys, clocks 1..3, 1 soul a second, skew 1 | 613 k |
| `armor` | Do two callers survive two breaks? | 2 callers, 2 breaks, both kinds | 860 k |
| `mind` | Do identities, rows and verdicts hold through shelves coming and going? | 2 memories, 2 shelves, days 0..2, 5 rows, 5 events | 593 k |
| `keeper` | Are watermark, shelves and questions right with the keyholder active during ticks? | 3 memories, 4 shelf names, batch 2, 3 events | 2.0 M |
| `memory` | Are decay, recall counters and log right with calls and kills between their statements? | 3 memories, window and batch 2, 1 searcher, log of 2, 4 ids, clock 0..1, 4 calls | 269 k |
| `shelf` | Is every listed snapshot there, and the shelf bounded, through crashes? | 2 callers, 4 snapshots, 6 days, cap 3, 2 faults | 4.7 M |
| `forward_merge` | Do merges, migrations and embedders leave the right vector, and prunes hold? | 1 memory, 2 texts, 2 Noses, 2 sources, 2 captures, 1 feeder, clock 1..2, 5 calls | 923 k |
| `steering_grant_bound_to_text` | violated: two callers | 2 callers, 1 grant | until the violation |
| `tombstone_reap` | violated: two devices, one reaps | 2 devices, 1 content, 2 edits each | until the violation |

Why the bounds are enough for the cases that matter:

* *steering*: rules never read each other's rows. The one thing that crosses
  ids is the copy an edit-vs-edit import keeps of its loser; it is written as an
  incoming row is, and with one id in the model it goes to an id outside it, so
  that the run sees what the conflict does to the rule itself: either side
  wins, and a local winner's tombstone is revived. That a copy lands on a rule
  that is there is left to the proofs. Two texts reach re-proposal with the
  same and another text; one grant can be given, revoked, tombstoned, imported,
  snapshotted and restored; a tick makes a row older, equal or newer than a
  snapshot's. For any number of ids, grants and snapshots there are the proofs
  of all four properties, of `GrantFloor` and `OnlyByAuthority` also for any
  number of callers. The other two do not hold for two callers (below).
* *sync*: two edits on each of two devices give every causal relation of two
  rows, conflict copies that meet each other, and exports from before, between
  and after. A third device is beyond exhaustive search and covered by the
  proofs of `MergesAgree`, `CountersLead`, `HistoriesGrow` and `EditsKept`.
* *swap*: writes before a snapshot, between it and the replace, and after have
  to be told apart, hence three; each replace takes a safety snapshot, so three
  snapshots allow two replaces, the second one over what the first left behind.
  Kills are not bounded.
* *gate*: with three seconds a soul can be older than, equal to and newer than
  a high-water and too far ahead; two keys make a rotation and one back.
* *armor*: a shared reopen needs two callers; a failed reopen needs a second
  break, on the new instance.
* *mind*: two shelves dissolve, return and compete for one pattern; two
  memories make a pattern lose part of its evidence and all of it; thresholds
  are lowered to 2 and ages to a day, the formula is kept. Five events are
  what a promotion, dissolution, return and edit need, or a promotion, the
  keyholder's deletion of its row, two kills and a day; five rows are as many as
  kills can waste. Two patterns come to go by one row when it is deleted
  in the middle of a tick; that the first of them then writes it again takes
  more events than five and is left to the proof of `RowsAgree`.
* *memory*: three memories and a window of two leave one out of sight; a log of
  two rows trimmed at every second id overshoots, misses a trim and catches up
  within four ids; four calls save a row, recall it, reach it during a tick and
  delete or reap it.
* *shelf*: with day, week and month cut to 1, 2 and 3 days, four snapshots
  over six days fill and leave every kind of bucket; the cap of three is passed
  by four; two faults are a crash between index and unlink with another after
  it, or a torn line and a failing unlink.
* *forward_merge*: two texts make an edit and an edit back, which is what tells a
  hash from a content; a clock of two makes a row older, equal and newer than
  the snapshot's and a capture below and above the mark; five calls are a save,
  a snapshot, a prune or import, a merge, and one thing that goes wrong.
* *keeper*: three memories make a chain, hence a component that splits; with a
  batch of 2 the queue takes two ticks; four names leave a free one always.

Symmetry is used in `steering_serial`, `steering_grant_bound_to_text` (texts,
callers), `sync_pair`, `tombstone_reap` (devices, writers; contents are ordered
by hash and not symmetric) and `shelf` (callers), none of which has a liveness
property. Deadlock is not checked in `memory`, `shelf` and `forward_merge`,
where the users' calls, the snapshots and the clock are bounded and the rest
may come to an end; it is checked in every other run.

**Fairness.** `SwapRecovery`: weak fairness of the process going on with what
it does, for a removal, load or rename ends and a host opens the brain it
needs. `pc' # pc` keeps a failing attempt that changes nothing from counting
as progress. `InstanceArmor`: a statement's promise settles, also on a broken
instance, and the reopen gives a hanging close two seconds (104-110).
`MindLadder` and `KeeperTick`: the host calls the ticks again and again
(`keeper.js` and `mind.js` are made for an idle timer), and one that is not
killed ends. `MemoryDecay`: the same for the decay tick (one weak fairness of
its steps together), and a recall that is not repeated wears off, for its
strength halves with time. `ForwardMerge`: the host's embedder goes on with
its queue, and a migration that has begun goes on or fails. Nothing is assumed
about users. `ComesBack`, `Fades` and `QueueDrains` have the premise that
kills (and, for the queue, changes) stop at some time, as no process gets
anywhere that is killed for ever; `QuietRowsGo` and `BackfillEnds` have it in
the bound on calls, which counts kills and failures. `SwapEnds` and `CallsEnd`
have none.

**What the runs show beyond a test.** `AllOrNothing` and `NeverEmptyAgain`
hold with kills inside the recovery of a recovery: what opens is compared with
what the users had before the swap began, not with what recovery left. A
recovery that believed a whole journal and went forward over a brain that had
not been moved aside (`ForwardFirst_Bug`) is caught. `RowsMatchLedger` says that
a row that a kill or the keyholder has parted from its ledger row agrees again
from the Mind's next write of it on. `CallsEnd` holds although
one caller's failed reopen is caught inside its own try and starts the next
one. `WatermarkHonest` holds though ticks are killed between edges and
watermark, with the exclusions of the next section. `NoEditLost` holds with
conflict copies of conflict copies. `NewestIsWelcome` says that the replay
gate never locks a peer out of its own latest export. `LogUnderCeiling` gives
the log the ceiling it really has: the advertised one and one interval for
each trim that is owed. `QuietRowsGo` says that old rows which are not weak
cannot fill the window for ever, since they get weak there. `ListedMeansThere`
and `ShelfBounded` hold though a crash may fall between the new index and the
unlinks, and bring snapshots back undated. `PrunedStaysPruned` holds through
merges that had read an older watermark only with that exception, which it
names. `ScentIsCurrent` shows that the marked ways are the only ones on which
a vector of another text survives: an edit, a merge import, a migration undone
under others' saves and a replace leave none.

**What they leave out.** A bound or an exclusion keeps some hazards out of the
run that is nearest to them; `PROJECT.json` says so at each. With one caller,
`GrantBoundToText`, `RevokeHolds` and `NoWriteLost` see no calls that overlap,
and with one writer per device `KnowledgeGrows` sees no stale stamp. `MergeAgrees`
is about unequal vectors, `CarriedAreGuarded` about patterns that a shelf carries,
`RowsMatchLedger` not about a pattern between the touch of its row and the next
write. `WatermarkHonest`, `DecayIsFair`, `PrunedStaysPruned` and `ScentIsCurrent`
each leave out the rows or captures that the model marks as reached at the wrong
moment. The next section says what the code does in each of these cases.

**Mutants.** Each property of a passing run has a mutated definition in
`PROJECT.json`, a slip the code could plausibly have, under which TLC finds
the property violated. Some mutants are written as operators with the suffix
`_Bug`, next to the definition they replace.

## Proofs

Every theorem holds for any values of the constants that satisfy the named
`ASSUME` of its module (bounds are naturals, the sets that are counted are
finite, the "none" values lie outside the sets they stand beside): for as many
devices, callers, ids, memories and snapshots as one likes. The only other
assumptions are `OneCaller`, `Serial`, `OneAtATime` and `OneASecond`, each named
in the theorem that needs it; [Disagreements](#disagreements) says what happens
without it.

Every safety property and every action property of the passing runs is stated
by a theorem. A property is inductive only rarely; what had to be added is the
argument, and is said here.

**`SteeringGrantProofs`.** `FloorHolds`: `[]GrantFloor`, the CHECK constraint of
the schema never has to refuse a write. A proposal in flight carries a flag and
a grant read earlier, and a ROLLBACK or a snapshot brings rows back, so the
invariant is `Backed`: every row of the table, the saved table and each
snapshot, and every proposal in flight, has a grant that was given to that id,
or is ungranted on an id a spore seeded with no origin. `BackedStep` reduces a
step to the rows it writes, as backings are only added. `AuthorityRefined`: the
table implements `GrantAuthority`. Given `Backed` before and after, a step that
issues nothing is a `Rearrange` or a stutter, a grant is an `Issue` and a
seeding an `Install`. Under `OneCaller` (calls do not overlap):
`GrantsBoundToText`, from `Honest` (a grant that a row has, dead, saved or
snapshotted, was given over that row's text), and `RevocationsHold`, from
`Standing` (a grant is given once, and one that was taken back is on no row of
the table and on none that a ROLLBACK could bring back). Both need `Fitting`:
what a call in flight has read is still so.

**`SyncMergeProofs`.** `MergeIsSymmetric`: for any two rows with unequal
vectors, both sides of an exchange come to the same winner and vector, from
lemmas on joins. `MergesAgree` says it of reachable states. The others assume
one writer per device (`Serial`). `CountersLead` and `HistoriesGrow` rest on
`Current`: an absent row has no history and a call about to write has the row's
vector plus its own event; without it a step that finishes a call could move a
vector back. `EditsKept` is `NoEditLost`: of the edits that a row's vector
counts, those nobody edited over are to be read in that table, under the key
or as a conflict copy. It is kept of the tables and of the exported souls alike
(`KeptInv`), since a soul comes in later than it went out. A local edit is over
all that its row knew (`OwnEvent`), and what a merge's joined vector counts one
of the two sides counted.

**`DatabaseProofs`.** Of the swap: `BootsOnce`, `OpenIsWhole` and
`ReplaceIsAtomic`, for any number of callers and snapshots. The invariant
`Kept` says where the brain is by how far the process has come: nothing was
ever on disk, or `brain` is whole (`Live`), or it is parted, which it can be at
few places only, with `brain.old` and `brain.new` both whole (`Parted`); and
whatever is whole there has what the users had or, after rename#1, the snapshot
(`Trusty`). That is what makes every branch of the recovery safe, also with a
torn journal. `Targeted` adds that the snapshot is loaded before the first
rename, and `Decided` that while the brain is up nothing is undecided, so that it
then has exactly what its users had. Under `OneCaller`, `WritesSaved`
(`NoWriteLost`), from `Saved`: the safety snapshot stands in for the brain from
the start of a swap to its end, and whoever swaps has no write under way.
Of the armor: `NoFalseEmptiness` and `NoZombies`, for any number of callers and
breaks, from `Armed`: an answer that still waits for a canary which could let
it pass is true, and a caller that waits for a reopen while bound to the
present instance has seen that one dead. Both have to be kept while the
instance gets worse under calls that do not move (`OneMoves`), and a reopen
ends well only on an instance that is not dead, so that nobody who is woken is
bound to a dead one.

**`KeyholderGateProofs`.** For any number of imports that share the connection:
`NotAhead` (no high-water further ahead than the skew) and
`WelcomesTheNewest`, from `GateInv`: every stamp that is kept, on disk, in the
transaction or read by an import, is the stamp of a soul that was exported and
was not too far ahead when looked at. Under `OneAtATime` (imports do not
overlap, and no pin is made or forgotten meanwhile; two imports violate it,
below): `PinsComeWithTheirRows` and `RisesOnly`, from `SerialInv`, which says that
the tables are what is on disk with the steps of this import applied, so that a
soul named by a pin has its rows but for the one under way. Under
`OneASecond` (that, and at most one soul a second from a peer; two violate it,
below): `ComesInOnce`. Its invariant `OnceInv` says what a pin remembers: nothing
that came in is newer than the high-water, and what is as new is the soul it
names; it has to hold of the saved tables as well, which a ROLLBACK brings back.

**`MindLadderProofs`.** For any memories, shelves, themes and thresholds.
`RowsAgree` and `IdentityIsStable` follow from `LadderInv`, which says of the
middle of a tick what the properties say of its ends: the rows agree with the
ledger but for the pattern in hand, and with the tick's copy for what is still
to come (`Settled`), for every pattern that is not loose; a hardened pattern has
a row (`HaveRows`); a shelf that carries another's pattern has none of its own, and is
an alias where the tick, or else the ledger, has that pattern (`Followed`).
`GuardsWhatIsCarried` needs that the verdict in the copy is about the refs in
it (`Judged`). `CarriedByOne` is about what one tick computes: an adoption goes
through the claims in order and takes one if no earlier taken one has the same
shelf or pattern. That such a choice exists, is the only one, and pairs nothing
twice is proved for any strict total order of a finite set (`GreedyExists`), and
shelves that keep their own patterns are left out of it.

**`KeeperProofs`.** For any memories, names, texts, batch and thresholds.
`WatermarkTellsTruth`, from `GraphInv`: the queue is a ranking of live
memories, the row in hand has been read as it is or has changed since, and of
two memories that have left the queue the links say whether they are
neighbours, for which the head counts as one from its links to its mark.
`AsksOnce`, from `AskInv`: whatever was asked is about texts that have changed
since, or the ledger, or the tick's copy of it for the pairs it has been
through, has their signature and knows of the nudge. `ShelvesAreTheGraph`,
from `ShelvedRight`: at each point between the matching of shelves to
components and the end of the tick, every component that is done has its one
shelf, every one that is to come still has the shelf it claimed, or a free
name, and the shelves that nothing claimed are gone. That the matching exists
and gives a shelf to one component only is `GreedyExists` again; that two
components are the same or disjoint follows from their definition as least
closed sets.

**`MemoryDecayProofs`.** `SetsAsideFairly`, `TellsWhatItSetsAside` and
`CountersAreSwept`, for any number of memories and searchers, any limits, ages
and caps. `DecayInv` adds what none of them says: a row of a plan that is still
to be archived is fair or has been touched (a clock that passes and a recall
that fades make it no less fair), and a tick has a row in hand only between its
archive and its receipt. `LogStaysUnderCeiling`: `LogInv` says that up to the
last cut the log has no more than its cap, that every id since then which
should have trimmed is either late or was missed, and that a cut read by a
search in flight leaves no more than the cap of what it had seen; the rows
above the last cut are counted by the intervals they lie in.

**`SnapshotProofs`.** Of the shelf: `ListedIsThere`, through crashes at any
point every line of the index has its tarball. `ShelfInv` adds that a receipt
about to be appended is of a tarball that is there, and that what is to be
unlinked is off the index already: the order of the file operations is the
argument. `RetentionSpares`: what a retention is told to spare stays, listed
and on disk, in any listing. `ShelfStaysBounded` and `ReapsForAReason`, from
`BoundInv`: the ids of dumps under way are not on the shelf (`FreshNumbers`), no
retention spares more than two (`FewExempt`), and what it takes off, it takes
for the cap or from a bucket with a newer one (`Unlinking`). The cap is a fact
about orders (`LowestAreFew`, `LowestAreMany`: of a finite ordered set with at
least k elements exactly k have fewer than k before them).
Of the vectors and captures: `FoundByWhatItSays` (`ScentIsCurrent`), the row of
the table, the one a migration would roll back to and the one in the snapshot
are each sound or marked (`ScentInv`), of which the last two come back without a
look at their vectors. `NoWayBack` (`PrunedStaysPruned`): what is gone lies under
the watermark or is in no snapshot that could bring it back (`KeptOut`). The
second half is needed since a replace moves the watermark back. Both hold for
any contents, Noses, sources, feeders and bounds.

**Without induction.** Facts about finite sets and orders that one would show
by induction on the size (a first element exists, a greedy choice exists, k
elements are lowest) are shown by a minimal counterexample: strict inclusion of
the finite subsets of a set is well-founded
(`FS_StrictSubsetOrderingWellFounded`), so the sets for which the claim fails
have a least one (`WFMin`).

**Model-checked only** are the seven temporal properties: `SwapEnds`,
`ComesBack`, `CallsEnd`, `Fades`, `QueueDrains`, `QuietRowsGo` and
`BackfillEnds`. Liveness under fairness and `ENABLED` are out of the proof
system's reach. So is what a recursive definition computes for every input,
which is why the models have none: an order, a choice or a component is
defined by what it satisfies, and the proofs use that.

## Disagreements

Two runs end in a violation, each of a sentence in the code's own comments.

1. **`steering_grant_bound_to_text`.** "A grant is bound to the TEXT it was
   granted over" (2144). `grantSteering` checks the row at 2355 and enables it
   by id at 2364; a re-proposal in between has its new text enabled.
2. **`tombstone_reap`.** "A tombstone can only be SAFELY reaped once EVERY device
   has seen the delete" (1849). That is not enough: the row takes its version
   vector along, what is written anew starts at {} (783-794) and is included in
   the tombstone that another device still has, and the next merge deletes it.
   The watermark of 1881-1886, said to help a later merge, is read by nothing.

Four more were found by changing the constants of a passing run, or by checking
one property more in it.

* *Swap, two callers* (`NoWriteLost` with two `Callers`). Writers are blocked so
  that no write is "renamed into brain.old and deleted = silent loss"
  (4043-4046), but the block is set after the safety dump has been awaited and
  tested before a caller's own awaits: a write acknowledged in between is in
  neither dump nor new store.
* *Pins, two souls of a second* (`SoulOnce` with `MaxPerSecond = 2`). "An
  EXACT re-import of the newest soul ... is caught as a replay" (315-317).
  `last_signature` moves only with a newer stamp (3283), so of two souls of a
  second the later one is accepted every time it comes.
* *Armor, a silent break in an import* (`NoRetryInTxn`). "The failed call
  retries once (never inside an explicit transaction)" (75-76). After an empty
  look-up the awaited reopen has set the depth to 0 (119) before it is tested
  (153), the look-up is retried, and the rest of the import runs statement by
  statement.
* *Mind, a dissolved shelf* (`GuardHolds`). "A dissolved-shelf or pre-guard
  ledger row re-derives from its live refs" (`mind.js` 772-773). Only the
  latter does: the former has a stored verdict, and 774 takes that one.

Others were met while modelling and have no run of their own; the models
exclude or contain them as said here.

* *Steering, two callers.* A grant lands on a row that was deleted meanwhile,
  and enables a tombstone (2364); a re-proposal restores a grant revoked
  meanwhile (2298), or drops one that came meanwhile and does not report it
  (2320). The run has one caller for that reason, and so have
  `GrantsBoundToText` and `RevocationsHold`; `FloorHolds` and
  `AuthorityRefined` are proved for any number.
* *Armor.* A failure reported late closes a sound instance (110) under another
  caller's transaction; what a raw retry returns is not looked at (153, 164);
  a write on a silent instance is acknowledged.
* *Merge.* Two tombstones with different hashes come out of a conflict alive
  (3339), against "tombstones propagate" (3047-3048). A local loser's copy is
  written with the demoted tier of the import (3344, but see 3383-3384). Two
  devices can reach equal vectors over unequal contents, after which merges
  skip for good (3675), against "identical history (same lineage; content
  should match)" (3595): d1 writes a, d2 writes b, exports and writes a again;
  d1 merges the export and keeps b, then the later soul, concurrent with it,
  and keeps b; d2 merges d1's first edit as equal content and keeps a.
  `MergeAgrees` is about unequal vectors for that reason.
* *Local writes.* `setState` stamps a vector read one statement earlier (783,
  798): with two writers on a device an import in between is forgotten by the
  vector. `CountersLead` and `HistoriesGrow` are proved with one writer.
  So is `EditsKept`, whose proof needs the former; that two writers violate it
  has not been found (17 M states), but then two edits made over the same
  vector count as one.
* *Transactions.* `importBrain` and `migrateEmbedDim` use one connection with
  everybody else: what others write meanwhile goes with a ROLLBACK (749,
  3537).
* *Pins.* A rotation to another key and back makes old souls new again, two
  imports of one peer at a time can move the high-water back (with two
  importers `HighWaterRises` is violated), and a pin made or forgotten during
  an import shares its transaction (`MidImport`).
* *Swap.* The store opened after a replace, or after a failed one, is not
  armed (4081, 4073).
* *Keeper.* An archive removes edges of neighbours that are marked done, and
  taking the row out of the archive restores it with its watermark and without
  its edges (`missed` in the model), against "skips nothing" (52-54). A kill
  between a question and the ledger has it asked again (`AskedOnce` leaves
  such a tick out), against "Never proposes twice" (49). Text edited and
  embedded anew between queue read and mark has stale edges and a watermark.
* *Mind.* A kill between the knowledge row and the ledger row leads to a
  second row; a cull of a revived pattern that has a knowledge row orphans it
  (804-812). What the keyholder does to a knowledge row stays only until the
  Mind writes it again: a revision, retirement or re-promotion takes an archived
  row out of the archive and brings a deleted one back (`_setMemoryDerived`,
  1071-1072). The name of a deleted row may go to another pattern (`mind.js`
  547-553), whose row the first one then writes over, against "a row already
  claimed by ANOTHER pattern isn't free either" (543-544). `loose` marks the
  patterns that any of this or a kill has come over.
* *Vectors and hashes.* A one-shot import writes new content and leaves the
  vector (3409-3421), and a forward-merge writes content and vector and leaves
  the hash (4186-4192), so that the next save of the text that hash belongs to
  keeps the wrong vector; the former against "a content change lands in the
  re-embed queue (never a stale Scent)" (3706-3707), the latter against "the
  old vector must go with it" (979-980). A vector computed before an edit is
  put on the row after it (1124). `stale` marks the three in `MemoryScent`.
* *Forward-merge* restores rows that were tombstones in the snapshot already
  (the query of 4180 has no condition on `deleted_at`), although it is to
  "UNDO deletes since the snapshot" (4155-4157). A watermark read before the
  transaction (4138) misses a prune that comes in between, and a prune that is
  killed before it marks (2093) leaves none: in both cases the pruned captures
  are back. A replace rolls version vectors back.
* *Decay* archives by name: a row that the keyholder has archived, taken out
  of the archive, pinned or edited since the tick read it is archived as
  decayed all the same (`decay.js` 199). A memory that is deleted while
  archived and saved anew stays archived.
* *Recall log.* "The hard ceiling on retained recall-log rows" (1744-1748) is
  exceeded by an interval for each trim that fails, or whose id a failed
  insert has consumed.
* *Retention.* A crash between index and unlinks brings the reaped snapshots
  back as lines without a date, which count as of today and are never thinned
  by age, only by the cap.

## Limits and plan

Not modelled, and why:

* *pure functions*: tar, skills, lexicons of the Guard, ranking in search: no
  state between calls, and their unit tests are the right tool;
* *cryptography*: a signature is valid or not, and a key is a value;
* *formatting, receipts, counts, display fields*, as no property is about them;
* *single writes*: signing key, names, lessons, brain_meta, health, fork: no step
  of theirs depends on another's;
* *the byte-budgeted reader of captures*: a cursor over an append-only table
  whose result only ever lacks what is pruned while it reads;
* *near-duplicate reinforcement*: a distance between vectors, which the models do
  not have; its one effect is a `Bump` that a search could have made;
* *combinations that are too large*: a snapshot or a forward-merge during a
  migration's raw transaction, imports that fail under the recall log, a cap that
  is changed while the log exists, the order of undated snapshots among
  themselves under the cap;
* *parts of the Keeper and the Mind*: the cohesion gate for components of more
  than twelve rows, first light, thoughts and thread naming; confirmed pairs,
  caps on refs and aliases, `promoteHighN`, rows that the keyholder writes under
  the name of a knowledge row.

How the project would go on:

1. Proofs: what a merge, an import and a rollback may do together, by a
   composition of `SyncMerge` with the tables of `SteeringGrant`.
2. Abstract specifications of the swap (an atomic choice between two stores)
   and of the armor (an instance that never fails but may refuse), refined.
3. Confirmed pairs in `MindLadder`, the cohesion gate in `KeeperTick`.
