---------------------------- MODULE SnapshotShelf ----------------------------
(***************************************************************************)
(* The snapshots directory: tarballs, index.jsonl and retention (snapshot, *)
(* _readIndex, _applyRetention, and the frame of rollback around them).    *)
(*                                                                         *)
(* A snapshot waits while it dumps, and other callers go on.  From the     *)
(* rename of its tarball to the last unlink of its retention the code does *)
(* not wait, so that only a crash, or a failure of the file system, comes  *)
(* in between.  Snapshots are numbered in the order of their exported_at.  *)
(* A day is the unit of time.                                              *)
(***************************************************************************)
EXTENDS Integers, FiniteSets

CONSTANTS
  Callers,      \* concurrent callers of snapshot and rollback
  RecentDays, DailyDays, WeeklyDays, HardCap,   \* SNAP_RETENTION
  Week, Month,  \* their length in days
  MaxSnaps,     \* bound on the snapshots begun
  MaxDay,       \* bound on the days
  MaxFaults     \* bound on crashes and failing file operations

ASSUME ShelfAssumption ==
  /\ {RecentDays, DailyDays, WeeklyDays, MaxSnaps, MaxDay, MaxFaults} \subseteq Nat
  /\ Week \in Nat \ {0} /\ Month \in Nat \ {0}
  /\ HardCap \in Nat \ {0, 1}

Ids == 1 .. MaxSnaps

VARIABLES
  tar,          \* the ids whose tarball is on disk
  index,        \* the ids that have a line in the index
  undated,      \* those of them whose line was recovered and has no exported_at
  torn,         \* whether the index ends in half a line
  day,          \* today
  began,        \* per id, the day of its exported_at
  lastId,       \* the latest snapshot begun
  caller,       \* per caller, the snapshot or rollback it is in
  io,           \* the file operations under way
  faults,       \* crashes and failures so far
  surplus       \* history: tarballs that came, or outlived their unlink, since
                \* the latest retention that was carried out

shelfVars == <<tar, index, undated, torn, day, began, lastId, caller, io, faults, surplus>>

-----------------------------------------------------------------------------
(* What the index shows, and what retention keeps *)

\* _readIndex: the lines that parse, and every tarball without one.
Listing == index \union tar

Dated(i) == i \in index \ undated
Age(i) == day - began[i]

\* Newest first; what has no date comes last.
Newer(i, j) == \/ Dated(i) /\ ~Dated(j)
               \/ (Dated(i) <=> Dated(j)) /\ i > j

\* An undated snapshot counts as one of today.
Thinnable(i) == Dated(i) /\ Age(i) > RecentDays

Bucket(i) ==
  IF Age(i) <= DailyDays THEN <<"D", began[i]>>
  ELSE IF Age(i) <= WeeklyDays THEN <<"W", began[i] \div Week>>
  ELSE <<"M", began[i] \div Month>>

\* Slip: the buckets are filled from the oldest on.
OldestOfBucket_Bug(exempt) ==
  {i \in Listing : \/ i \in exempt \/ ~Thinnable(i)
                   \/ \A j \in Listing \ exempt :
                        Thinnable(j) /\ Bucket(j) = Bucket(i) => ~Newer(i, j)}

\* What stays of each bucket, exempt snapshots aside.
NewestOfBucket(exempt) ==
  {i \in Listing : \/ i \in exempt \/ ~Thinnable(i)
                   \/ \A j \in Listing \ exempt :
                        Thinnable(j) /\ Bucket(j) = Bucket(i) => ~Newer(j, i)}

\* Slip: one more than the cap.
OverCap_Bug(kept) == IF Cardinality(kept) > HardCap + 1 THEN Cardinality(kept) - HardCap - 1 ELSE 0

OverCap(kept) == IF Cardinality(kept) > HardCap THEN Cardinality(kept) - HardCap ELSE 0

\* The oldest of those that may go, as many as there are too many.
Capped(kept, exempt) ==
  LET mayGo == kept \ exempt
  IN kept \ {i \in mayGo : Cardinality({j \in mayGo : Newer(i, j)}) < OverCap(kept)}

Kept(exempt) == Capped(NewestOfBucket(exempt), exempt)

-----------------------------------------------------------------------------
(* Callers *)

NoCall == [at |-> "idle", id |-> 0, target |-> 0, guard |-> FALSE]

\* guard: the trigger is 'pre-action', and the snapshot leaves retention alone.
Calls == [at: {"idle", "dump", "merge"}, id: Ids \union {0}, target: Ids \union {0},
          guard: BOOLEAN]

\* exempt: what a retention spares; doomed: what it has still to unlink.
FileOp(at, by, exempt, doomed) == [at |-> at, exempt |-> exempt, doomed |-> doomed, by |-> by]

NoIO == FileOp("idle", {}, {}, {})

IOs == [at: {"idle", "append", "retain", "unlink"}, exempt: SUBSET Ids, doomed: SUBSET Ids,
        by: SUBSET Callers]

Begin(c, target, guard) ==
  /\ caller[c] = NoCall
  /\ io = NoIO
  /\ lastId < MaxSnaps
  /\ lastId' = lastId + 1
  /\ began' = [began EXCEPT ![lastId + 1] = day]
  /\ caller' = [caller EXCEPT ![c] = [at |-> "dump", id |-> lastId + 1, target |-> target,
                                      guard |-> guard]]
  /\ UNCHANGED <<tar, index, undated, torn, day, io, faults, surplus>>

Snapshot(c, guard) == Begin(c, 0, guard)

\* rollback finds the target and reads it into memory; its safety net follows.
Rollback(c, t) ==
  /\ t \in tar
  /\ Begin(c, t, TRUE)

\* The dump is there: the tarball is written aside, synced and renamed.
Write(c) ==
  /\ io = NoIO
  /\ caller[c].at = "dump"
  /\ tar' = tar \union {caller[c].id}
  /\ surplus' = surplus \union {caller[c].id}
  /\ io' = FileOp("append", {c}, {}, {})
  /\ UNCHANGED <<index, undated, torn, day, began, lastId, caller, faults>>

\* The receipt goes to the end of the index; after half a line it makes one
\* corrupt line together with it.
Append(c) ==
  LET call == caller[c] IN
  /\ io.at = "append" /\ io.by = {c}
  /\ index' = IF torn THEN index ELSE index \union {call.id}
  /\ torn' = FALSE
  /\ io' = IF call.guard THEN NoIO ELSE FileOp("retain", {}, {call.id}, {})
  /\ caller' = [caller EXCEPT ![c] = IF call.target = 0 THEN NoCall
                                     ELSE [call EXCEPT !.at = "merge"]]
  /\ UNCHANGED <<tar, undated, day, began, lastId, faults, surplus>>

\* A forward-merge ends in a retention that spares its target and its net; a
\* replace, a fork, and a merge that fails do not.
EndMerge(c) ==
  /\ io = NoIO
  /\ caller[c].at = "merge"
  /\ caller' = [caller EXCEPT ![c] = NoCall]
  /\ \/ io' = FileOp("retain", {}, {caller[c].id, caller[c].target}, {})
     \/ UNCHANGED io
  /\ UNCHANGED <<tar, index, undated, torn, day, began, lastId, faults, surplus>>

-----------------------------------------------------------------------------
(* Retention *)

\* Slip: the tarballs go first, and the index is rewritten after the last.
Rewrite_Bug ==
  LET kept == Kept(io.exempt) IN
  /\ io.at = "retain"
  /\ UNCHANGED <<index, undated, torn>>
  /\ io' = IF kept = Listing THEN NoIO ELSE FileOp("unlink", {}, {}, Listing \ kept)
  /\ surplus' = IF kept = Listing THEN {} ELSE surplus
  /\ UNCHANGED <<tar, day, began, lastId, caller, faults>>

\* The index is replaced, with what was recovered in it, before anything goes.
Rewrite ==
  LET kept == Kept(io.exempt) IN
  /\ io.at = "retain"
  /\ IF kept = Listing
     THEN UNCHANGED <<index, undated, torn>>
     ELSE /\ index' = kept
          /\ undated' = {i \in kept : ~Dated(i)}
          /\ torn' = FALSE
  /\ io' = IF kept = Listing THEN NoIO ELSE FileOp("unlink", {}, {}, Listing \ kept)
  /\ surplus' = IF kept = Listing THEN {} ELSE surplus
  /\ UNCHANGED <<tar, day, began, lastId, caller, faults>>

Unlinked(i, gone) ==
  /\ io.at = "unlink"
  /\ i \in io.doomed
  /\ tar' = IF gone THEN tar \ {i} ELSE tar
  /\ io' = IF io.doomed = {i} THEN NoIO ELSE [io EXCEPT !.doomed = @ \ {i}]
  /\ UNCHANGED <<index, undated, torn, day, began, lastId, caller>>

\* After the last unlink, what came before the retention is no surplus.
Unlink(i) ==
  /\ Unlinked(i, TRUE)
  /\ surplus' = IF io.doomed = {i} THEN surplus \ index ELSE surplus
  /\ UNCHANGED faults

-----------------------------------------------------------------------------
(* Faults, and time *)

Fault == faults < MaxFaults /\ faults' = faults + 1

\* An unlink that fails is skipped over.
UnlinkFails(i) ==
  /\ Fault
  /\ Unlinked(i, FALSE)
  /\ surplus' = surplus \union {i}

\* A failing dump ends its call; a failing retention is only noted.
CallFails(c) ==
  /\ Fault
  /\ io = NoIO
  /\ caller[c].at = "dump"
  /\ caller' = [caller EXCEPT ![c] = NoCall]
  /\ UNCHANGED <<tar, index, undated, torn, day, began, lastId, io, surplus>>

RetentionFails ==
  /\ Fault
  /\ io.at = "retain"
  /\ io' = NoIO
  /\ UNCHANGED <<tar, index, undated, torn, day, began, lastId, caller, surplus>>

\* The process dies; in the middle of an append it may leave half a line.
Crash ==
  /\ Fault
  /\ io' = NoIO
  /\ caller' = [c \in Callers |-> NoCall]
  /\ torn' \in IF io.at = "append" THEN {torn, TRUE} ELSE {torn}
  /\ UNCHANGED <<tar, index, undated, day, began, lastId, surplus>>

NextDay ==
  /\ io = NoIO
  /\ day < MaxDay
  /\ day' = day + 1
  /\ UNCHANGED <<tar, index, undated, torn, began, lastId, caller, io, faults, surplus>>

ShelfInit ==
  /\ tar = {} /\ index = {} /\ undated = {} /\ torn = FALSE
  /\ day = 0 /\ began = [i \in Ids |-> 0] /\ lastId = 0
  /\ caller = [c \in Callers |-> NoCall]
  /\ io = NoIO
  /\ faults = 0 /\ surplus = {}

ShelfNext ==
  \/ \E c \in Callers :
       \/ \E guard \in BOOLEAN : Snapshot(c, guard)
       \/ \E t \in Ids : Rollback(c, t)
       \/ Write(c) \/ Append(c) \/ EndMerge(c) \/ CallFails(c)
  \/ Rewrite
  \/ \E i \in Ids : Unlink(i) \/ UnlinkFails(i)
  \/ RetentionFails \/ Crash \/ NextDay

ShelfSpec == ShelfInit /\ [][ShelfNext]_shelfVars

-----------------------------------------------------------------------------
(* Properties *)

ShelfTypeOK ==
  /\ tar \subseteq Ids /\ index \subseteq Ids
  /\ undated \subseteq index
  /\ torn \in BOOLEAN
  /\ day \in Nat /\ began \in [Ids -> Nat] /\ lastId \in 0 .. MaxSnaps
  /\ caller \in [Callers -> Calls]
  /\ io \in IOs
  /\ faults \in Nat
  /\ surplus \subseteq Ids

\* A line of the index is a promise that its tarball can be restored: none is
\* broken by a crash, a torn line or a failing unlink.
ListedMeansThere == index \subseteq tar

\* A tarball goes for one of two reasons: it is past its recent days and a
\* newer one of the same day, week or month stays, or the shelf is full.
ReapedForAReason ==
  [][\A i \in tar \ tar' :
       \/ /\ Age(i) > RecentDays
          /\ \E j \in tar' : j > i /\ Bucket(j) = Bucket(i)
       \/ Cardinality(index') >= HardCap]_shelfVars

\* The shelf is bounded: it outgrows its cap only by what came, or outlived its
\* unlink, since the latest retention.
ShelfBounded == Cardinality(Listing) <= HardCap + Cardinality(surplus)

=============================================================================
