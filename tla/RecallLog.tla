------------------------------ MODULE RecallLog ------------------------------
(***************************************************************************)
(* What a search leaves behind: the recall counters of its hits and one    *)
(* row of the recall log (searchMemories, _recordRecall, _bumpAccess,      *)
(* _trimRecallLog, pruneRecallLog).                                        *)
(*                                                                         *)
(* Every statement is a step.  Bookkeeping that fails is swallowed by the  *)
(* search, and a process may be killed anywhere in it; either way the rest *)
(* of the bookkeeping is dropped.  The ids of the log come from a sequence *)
(* that no failed statement gives back.                                    *)
(*                                                                         *)
(* _strengthOf is a curve over recalls and days, of which its readers ask  *)
(* only whether it is under the floor: a counter is strong when a recall   *)
(* is added to it, and in time faded.                                      *)
(***************************************************************************)
EXTENDS Integers, FiniteSets

CONSTANTS
  Files,        \* file names of memories
  Searchers,    \* concurrent callers of searchMemories
  LogMax,       \* ELIFANT_RECALL_LOG_MAX, after its floor
  Slice,        \* the log is trimmed LogMax \div Slice inserts apart (10 in the code),
  MaxEvery,     \* but at most this many apart (64 in the code)
  MaxId         \* bound on the ids given out

ASSUME RecallAssumption ==
  /\ LogMax \in Nat \ {0}
  /\ Slice \in Nat \ {0}
  /\ MaxEvery \in Nat \ {0}
  /\ MaxId \in Nat

VARIABLES
  access,       \* memory_access: per file, its counter
  log,          \* the ids in recall_log
  lastId,       \* where the sequence of ids stands
  search,       \* per caller, where its bookkeeping is
  cutAt,        \* history: where lastId stood when the cut of the latest
                \* effective trim was read
  missed        \* history: the ids that should have trimmed and did not

recallVars == <<access, log, lastId, search, cutAt, missed>>

-----------------------------------------------------------------------------

Strengths == {"none", "faded", "strong"}

Stages == {"idle", "bump", "trim", "cut"}

Searches == [at: Stages, hits: SUBSET Files, id: Nat, cut: Nat, seen: Nat]

\* Where a search is, its hits that still have to be counted, its id in the
\* log, and its cut with where the sequence stood when that was read.
Stage(at, hits, id, cut, seen) ==
  [at |-> at, hits |-> hits, id |-> id, cut |-> cut, seen |-> seen]

NoSearch == Stage("idle", {}, 0, 0, 0)

\* _recallTrimEvery
TrimEvery ==
  LET share == LogMax \div Slice
  IN IF share < 1 THEN 1 ELSE IF share > MaxEvery THEN MaxEvery ELSE share

\* Slip: the log is trimmed at the longest interval, whatever its cap.
TrimsAt_Bug(id) == id % MaxEvery = 0

\* An insert with this id is followed by a trim.
TrimsAt(id) == id % TrimEvery = 0

\* The newest max rows of a log, and the id at which _trimRecallLog cuts: the
\* newest row that has max rows above it, or 0 when there is none.
Above(ids, i) == {j \in ids : j > i}

Cut(ids, max) ==
  IF \E i \in ids : Cardinality(Above(ids, i)) = max
  THEN CHOOSE i \in ids : Cardinality(Above(ids, i)) = max
  ELSE 0

-----------------------------------------------------------------------------
(* The steps of one search *)

\* The query itself; hits are the rows that cleared the loose floor.
Search(s, hits) ==
  /\ search[s].at = "idle"
  /\ lastId < MaxId
  /\ search' = [search EXCEPT ![s] = Stage("bump", hits, 0, 0, 0)]
  /\ UNCHANGED <<access, log, lastId, cutAt, missed>>

\* _bumpAccess, for one of the hits.
Bump(s, f) ==
  /\ search[s].at = "bump"
  /\ f \in search[s].hits
  /\ access' = [access EXCEPT ![f] = "strong"]
  /\ search' = [search EXCEPT ![s] = Stage("bump", @.hits \ {f}, 0, 0, 0)]
  /\ UNCHANGED <<log, lastId, cutAt, missed>>

\* The insert, and the test of its id.
Insert(s) ==
  /\ search[s].at = "bump"
  /\ search[s].hits = {}
  /\ lastId < MaxId
  /\ lastId' = lastId + 1
  /\ log' = log \union {lastId + 1}
  /\ search' = [search EXCEPT ![s] = IF TrimsAt(lastId + 1)
                                     THEN Stage("trim", {}, lastId + 1, 0, 0)
                                     ELSE NoSearch]
  /\ UNCHANGED <<access, cutAt, missed>>

\* An insert that fails has consumed its id.
InsertFails(s) ==
  /\ search[s].at = "bump"
  /\ search[s].hits = {}
  /\ lastId < MaxId
  /\ lastId' = lastId + 1
  /\ missed' = IF TrimsAt(lastId + 1) THEN missed \union {lastId + 1} ELSE missed
  /\ search' = [search EXCEPT ![s] = NoSearch]
  /\ UNCHANGED <<access, log, cutAt>>

\* The first statement of _trimRecallLog; without a row to cut at it is done.
ReadCut(s) ==
  /\ search[s].at = "trim"
  /\ IF Cut(log, LogMax) = 0
     THEN /\ search' = [search EXCEPT ![s] = NoSearch]
          /\ cutAt' = lastId
     ELSE /\ search' = [search EXCEPT ![s] = Stage("cut", {}, @.id, Cut(log, LogMax), lastId)]
          /\ UNCHANGED cutAt
  /\ UNCHANGED <<access, log, lastId, missed>>

\* The second: everything at or under the cut goes.
Trim(s) ==
  /\ search[s].at = "cut"
  /\ log' = Above(log, search[s].cut)
  /\ cutAt' = IF search[s].seen > cutAt THEN search[s].seen ELSE cutAt
  /\ search' = [search EXCEPT ![s] = NoSearch]
  /\ UNCHANGED <<access, lastId, missed>>

\* A statement of the bookkeeping fails, or the process dies in it.
Drop(s) ==
  /\ search[s].at # "idle"
  /\ missed' = IF search[s].at \in {"trim", "cut"} THEN missed \union {search[s].id} ELSE missed
  /\ search' = [search EXCEPT ![s] = NoSearch]
  /\ UNCHANGED <<access, log, lastId, cutAt>>

-----------------------------------------------------------------------------
(* The keyholder, and time *)

\* pruneRecallLog, by time or by count: the oldest rows go.
PruneRecallLog(i) ==
  /\ i \in log
  /\ log' = Above(log, i)
  /\ UNCHANGED <<access, lastId, search, cutAt, missed>>

\* A recall wears off.
Fade(f) ==
  /\ access[f] = "strong"
  /\ access' = [access EXCEPT ![f] = "faded"]
  /\ UNCHANGED <<log, lastId, search, cutAt, missed>>

RecallInit ==
  /\ access = [f \in Files |-> "none"]
  /\ log = {}
  /\ lastId = 0
  /\ search = [s \in Searchers |-> NoSearch]
  /\ cutAt = 0
  /\ missed = {}

\* The steps of bookkeeping that has begun.
Bookkeeping(s) ==
  \/ \E f \in Files : Bump(s, f)
  \/ Insert(s) \/ InsertFails(s)
  \/ ReadCut(s) \/ Trim(s)
  \/ Drop(s)

RecallNext ==
  \/ \E s \in Searchers : Bookkeeping(s) \/ \E hits \in SUBSET Files : Search(s, hits)
  \/ \E i \in 1 .. MaxId : PruneRecallLog(i)
  \/ \E f \in Files : Fade(f)

RecallSpec == RecallInit /\ [][RecallNext]_recallVars

-----------------------------------------------------------------------------
(* Properties *)

RecallTypeOK ==
  /\ access \in [Files -> Strengths]
  /\ log \subseteq 1 .. lastId
  /\ lastId \in Nat
  /\ search \in [Searchers -> Searches]
  /\ cutAt \in 0 .. lastId
  /\ missed \subseteq 1 .. lastId

\* The trims that are due, by ids after the latest cut: missed, or under way.
Due == {i \in cutAt + 1 .. lastId :
          /\ i % TrimEvery = 0
          /\ i \in missed \/ \E s \in Searchers : search[s].at \in {"trim", "cut"}
                                                  /\ search[s].id = i}

\* recallLogCeiling with what really bounds the log: the cap, one interval of
\* overshoot, and one more interval for every trim that was missed or is late.
LogUnderCeiling ==
  Cardinality(log) <= LogMax + TrimEvery - 1 + TrimEvery * Cardinality(Due)

=============================================================================
