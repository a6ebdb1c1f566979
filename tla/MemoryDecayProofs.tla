-------------------------- MODULE MemoryDecayProofs --------------------------
(***************************************************************************)
(* Proofs about MemoryDecay for any memories, searchers, limits and ages,  *)
(* and about the recall log it extends, for any cap.  The bound on the log *)
(* is a count and has an inductive invariant of its own, at the end.       *)
(***************************************************************************)
EXTENDS MemoryDecay, FiniteSetTheorems, TLAPS

-----------------------------------------------------------------------------
(* The inductive invariant.  What decay will set aside has to be known fair  *)
(* from the moment the tick has read it; for its receipt it matters that a   *)
(* tick has a row in hand only between the archive and the telling.          *)

\* What a search has noted is an id given out, and an id that trims is one.
Below(r, n) ==
  /\ r.id \in 0 .. n /\ r.seen \in 0 .. n
  /\ r.at \in {"trim", "cut"} => r.id # 0

SearchBelow == \A s \in Searchers : Below(search[s], lastId)

RecallFine == RecallTypeOK /\ SearchBelow

HandIsTold ==
  /\ tick.at # "tell" => tick.hand = {}
  /\ tick.at = "idle" => tick.plan = {}

PlanIsFair == \A f \in tick.plan \ tick.hand : f \in touched \/ Fair(f)

DecayInv ==
  /\ TypeOK /\ SearchBelow
  /\ HandIsTold /\ PlanIsFair
  /\ DecayIsTold /\ CountersHaveRows

-----------------------------------------------------------------------------
(* The recall log by itself *)

\* The cut is an id of the log, or none.
LEMMA CutType ==
  ASSUME NEW ids \in SUBSET Nat, NEW max
  PROVE  Cut(ids, max) \in Nat
BY DEF Cut

\* A caller that goes on to another stage of its search.
LEMMA SearcherMoves ==
  ASSUME search \in [Searchers -> Searches], NEW s \in Searchers, NEW r \in Searches,
         search' = [search EXCEPT ![s] = r],
         NEW n \in Nat, \A t \in Searchers : Below(search[t], n), Below(r, n)
  PROVE  search' \in [Searchers -> Searches] /\ \A t \in Searchers : Below(search'[t], n)
OBVIOUS

LEMMA StageType ==
  ASSUME NEW at \in Stages, NEW hits \in SUBSET Files, NEW n \in Nat, NEW id \in 0 .. n,
         NEW cut \in Nat, NEW seen \in 0 .. n, at \in {"trim", "cut"} => id # 0
  PROVE  /\ Stage(at, hits, id, cut, seen) \in Searches
         /\ Below(Stage(at, hits, id, cut, seen), n)
BY DEF Stage, Searches, Below

LEMMA IdleType ==
  ASSUME NEW n \in Nat
  PROVE  NoSearch \in Searches /\ Below(NoSearch, n)
BY StageType DEF NoSearch, Stages

LEMMA SearchKeeps ==
  ASSUME RecallFine, NEW s \in Searchers, NEW hits \in SUBSET Files, Search(s, hits)
  PROVE  RecallFine'
<1> DEFINE r == Stage("bump", hits, 0, 0, 0)
<1>1. search' = [search EXCEPT ![s] = r]
  BY DEF Search
<1>2. lastId \in Nat /\ search \in [Searchers -> Searches]
      /\ \A t \in Searchers : Below(search[t], lastId)
  BY DEF RecallFine, RecallTypeOK, SearchBelow
<1>3. r \in Searches /\ Below(r, lastId)
  BY <1>2, StageType DEF Stages
<1>4. search' \in [Searchers -> Searches] /\ \A t \in Searchers : Below(search'[t], lastId)
  <2> HIDE DEF r
  <2> QED BY <1>1, <1>2, <1>3, SearcherMoves
<1> QED BY <1>4 DEF Search, RecallFine, RecallTypeOK, SearchBelow

LEMMA BumpKeeps ==
  ASSUME RecallFine, NEW s \in Searchers, NEW f \in Files, Bump(s, f)
  PROVE  RecallFine'
<1> DEFINE r == Stage("bump", search[s].hits \ {f}, 0, 0, 0)
<1>1. search' = [search EXCEPT ![s] = r]
  BY DEF Bump
<1>2. lastId \in Nat /\ search \in [Searchers -> Searches]
      /\ \A t \in Searchers : Below(search[t], lastId)
  BY DEF RecallFine, RecallTypeOK, SearchBelow
<1>3. r \in Searches /\ Below(r, lastId)
  <2>1. search[s].hits \ {f} \in SUBSET Files
    BY <1>2 DEF Searches
  <2> QED BY <1>2, <2>1, StageType DEF Stages
<1>4. search' \in [Searchers -> Searches] /\ \A t \in Searchers : Below(search'[t], lastId)
  <2> HIDE DEF r
  <2> QED BY <1>1, <1>2, <1>3, SearcherMoves
<1>5. access' \in [Files -> Strengths]
  BY DEF Bump, RecallFine, RecallTypeOK, Strengths
<1> QED BY <1>4, <1>5 DEF Bump, RecallFine, RecallTypeOK, SearchBelow

LEMMA InsertKeeps ==
  ASSUME RecallFine, NEW s \in Searchers, Insert(s) \/ InsertFails(s)
  PROVE  RecallFine'
<1> DEFINE n == lastId + 1
           r == Stage("trim", {}, n, 0, 0)
<1>1. n \in Nat \ {0} /\ 1 .. lastId \subseteq 1 .. n /\ n \in 1 .. n /\ 0 .. lastId \subseteq 0 .. n
      /\ n \in 0 .. n /\ 0 \in 0 .. n /\ {} \in SUBSET Files
  BY DEF RecallFine, RecallTypeOK
<1>2. r \in Searches /\ Below(r, n)
  <2> HIDE DEF n
  <2> QED BY <1>1, StageType DEF Stages
<1>3. search' = [search EXCEPT ![s] = NoSearch] \/ search' = [search EXCEPT ![s] = r]
  BY DEF Insert, InsertFails
<1>4. search' \in [Searchers -> Searches] /\ \A t \in Searchers : Below(search'[t], n)
  <2>1. \A t \in Searchers : Below(search[t], n)
    BY <1>1 DEF RecallFine, SearchBelow, Below
  <2> HIDE DEF n, r
  <2> QED BY <2>1, <1>1, <1>2, <1>3, IdleType, SearcherMoves DEF RecallFine, RecallTypeOK
<1>5. lastId' = n
  BY DEF Insert, InsertFails
<1>6. log' \subseteq 1 .. n /\ missed' \subseteq 1 .. n
  BY <1>1 DEF Insert, InsertFails, RecallFine, RecallTypeOK
<1>7. cutAt' \in 0 .. n /\ access' = access
  BY <1>1 DEF Insert, InsertFails, RecallFine, RecallTypeOK
<1> HIDE DEF n, r
<1> QED BY <1>1, <1>4, <1>5, <1>6, <1>7 DEF RecallFine, RecallTypeOK, SearchBelow

LEMMA ReadCutKeeps ==
  ASSUME RecallFine, NEW s \in Searchers, ReadCut(s)
  PROVE  RecallFine'
<1> DEFINE r == Stage("cut", {}, search[s].id, Cut(log, LogMax), lastId)
<1>1. /\ lastId \in Nat /\ 0 \in 0 .. lastId /\ lastId \in 0 .. lastId
      /\ search \in [Searchers -> Searches]
      /\ \A t \in Searchers : Below(search[t], lastId)
      /\ search[s].at = "trim"
  BY DEF RecallFine, RecallTypeOK, SearchBelow, ReadCut
<1>2. Cut(log, LogMax) \in Nat
  <2>1. log \in SUBSET Nat
    BY DEF RecallFine, RecallTypeOK
  <2> QED BY <2>1, CutType
<1>3. r \in Searches /\ Below(r, lastId)
  <2>1. search[s].id \in 0 .. lastId /\ search[s].id # 0 /\ {} \in SUBSET Files
    BY <1>1 DEF Below
  <2> QED BY <1>1, <1>2, <2>1, StageType DEF Stages
<1>4. search' = [search EXCEPT ![s] = NoSearch] \/ search' = [search EXCEPT ![s] = r]
  BY DEF ReadCut
<1>5. search' \in [Searchers -> Searches] /\ \A t \in Searchers : Below(search'[t], lastId)
  <2> HIDE DEF r
  <2> QED BY <1>1, <1>3, <1>4, IdleType, SearcherMoves
<1> QED BY <1>1, <1>5 DEF ReadCut, RecallFine, RecallTypeOK, SearchBelow

LEMMA TrimKeeps ==
  ASSUME RecallFine, NEW s \in Searchers, Trim(s) \/ Drop(s)
  PROVE  RecallFine'
<1>1. search' \in [Searchers -> Searches] /\ \A t \in Searchers : Below(search'[t], lastId)
  <2>1. search' = [search EXCEPT ![s] = NoSearch]
    BY DEF Trim, Drop
  <2>2. lastId \in Nat
    BY DEF RecallFine, RecallTypeOK
  <2> QED BY <2>1, <2>2, IdleType, SearcherMoves DEF RecallFine, RecallTypeOK, SearchBelow
<1>2. log' \subseteq log /\ cutAt' \in {cutAt, search[s].seen} /\ lastId' = lastId /\ access' = access
  BY DEF Trim, Drop, Above
<1>3. missed' \subseteq 1 .. lastId
  <2>1. CASE Trim(s)
    BY <2>1 DEF Trim, RecallFine, RecallTypeOK
  <2>2. CASE Drop(s)
    <3>1. search[s].at \in {"trim", "cut"} => search[s].id \in 1 .. lastId
      BY DEF RecallFine, RecallTypeOK, SearchBelow, Below
    <3> QED BY <2>2, <3>1 DEF Drop, RecallFine, RecallTypeOK
  <2> QED BY <2>1, <2>2
<1> QED BY <1>1, <1>2, <1>3 DEF RecallFine, RecallTypeOK, SearchBelow, Below

LEMMA PruneLogKeeps ==
  ASSUME RecallFine, NEW i, PruneRecallLog(i)
  PROVE  RecallFine'
BY DEF PruneRecallLog, Above, RecallFine, RecallTypeOK, SearchBelow

LEMMA FadeKeeps ==
  ASSUME RecallFine, NEW f \in Files, Fade(f)
  PROVE  RecallFine'
BY DEF Fade, RecallFine, RecallTypeOK, SearchBelow, Strengths

-----------------------------------------------------------------------------
(* The keyholder *)

\* What a call may make of a row: the row stays there, and decay's mark on it
\* is not the call's doing.
Tended(f, r) ==
  /\ r \in Rows
  /\ r.st # "absent"
  /\ r.archived = "decay" => mem[f].archived = "decay"

LEMMA OnRowKeeps ==
  ASSUME DecayInv, NEW f \in Files, NEW r, Tended(f, r), OnRow(f, r)
  PROVE  DecayInv'
<1>1. /\ mem' \in [Files -> Rows]
      /\ mem'[f] = r /\ \A g \in Files \ {f} : mem'[g] = mem[g]
  BY DEF DecayInv, TypeOK, OnRow, Tended
<1>2. UNCHANGED <<recallVars, now, tick, told, prune, guarded, cutShort, late>>
  BY DEF OnRow
<1>3. calls' \in Nat
  BY DEF DecayInv, TypeOK, OnRow, Call
<1>4. touched' \subseteq Files /\ touched \subseteq touched' /\ (f \in tick.plan => f \in touched')
  BY DEF DecayInv, TypeOK, OnRow, Touch
<1>5. RecallTypeOK' /\ SearchBelow'
  BY <1>2 DEF recallVars, DecayInv, TypeOK, RecallTypeOK, SearchBelow
<1>6. TypeOK'
  BY <1>1, <1>2, <1>3, <1>4, <1>5 DEF DecayInv, TypeOK
<1>7. HandIsTold'
  BY <1>2 DEF DecayInv, HandIsTold
<1>8. PlanIsFair'
  BY <1>1, <1>2, <1>4 DEF DecayInv, TypeOK, Ticks, PlanIsFair, Fair, Live, recallVars
<1>9. DecayIsTold'
  BY <1>1, <1>2 DEF DecayInv, DecayIsTold, Tended
<1>10. CountersHaveRows'
  BY <1>1, <1>2 DEF DecayInv, CountersHaveRows, Tended, Present, recallVars
<1> QED BY <1>5, <1>6, <1>7, <1>8, <1>9, <1>10 DEF DecayInv

\* Every call of the keyholder on a row tends it so.
LEMMA KeyholderKeeps ==
  ASSUME DecayInv, NEW f \in Files,
         \/ Save(f) \/ Pin(f) \/ Unpin(f) \/ Archive(f) \/ Unarchive(f) \/ Delete(f)
         \/ \E at \in 0 .. MaxTime : Arrive(f, at)
  PROVE  DecayInv'
<1>1. mem[f] \in Rows /\ now \in Nat
  BY DEF DecayInv, TypeOK
<1>2. CASE Save(f)
  <2>1. Tended(f, [mem[f] EXCEPT !.st = "live", !.at = now])
    BY <1>1 DEF Tended, Rows, Reasons
  <2> QED BY <1>2, <2>1, OnRowKeeps DEF Save
<1>3. CASE Pin(f)
  <2>1. Tended(f, [mem[f] EXCEPT !.pinned = TRUE, !.direct = TRUE])
    BY <1>1, <1>3 DEF Tended, Rows, Reasons, Pin, Present
  <2> QED BY <1>3, <2>1, OnRowKeeps DEF Pin
<1>4. CASE Unpin(f)
  <2>1. Tended(f, [mem[f] EXCEPT !.pinned = FALSE])
    BY <1>1, <1>4 DEF Tended, Rows, Reasons, Unpin, Present
  <2> QED BY <1>4, <2>1, OnRowKeeps DEF Unpin
<1>5. CASE Archive(f)
  <2>1. Tended(f, [mem[f] EXCEPT !.archived = "keyholder"])
    BY <1>1, <1>5 DEF Tended, Rows, Reasons, Archive, Present
  <2> QED BY <1>5, <2>1, OnRowKeeps DEF Archive
<1>6. CASE Unarchive(f)
  <2>1. Tended(f, [mem[f] EXCEPT !.archived = "no"])
    BY <1>1, <1>6 DEF Tended, Rows, Reasons, Unarchive, Present
  <2> QED BY <1>6, <2>1, OnRowKeeps DEF Unarchive
<1>7. CASE Delete(f)
  <2>1. Tended(f, [mem[f] EXCEPT !.st = "dead"])
    BY <1>1 DEF Tended, Rows, Reasons
  <2> QED BY <1>7, <2>1, OnRowKeeps DEF Delete
<1>8. ASSUME NEW at \in 0 .. MaxTime, Arrive(f, at) PROVE DecayInv'
  <2> DEFINE r == [st |-> "live", pinned |-> FALSE, direct |-> FALSE, archived |-> "no",
                   at |-> at]
  <2>1. Tended(f, r)
    BY DecayAssumption DEF Tended, Rows, Reasons
  <2> QED BY <1>8, <2>1, OnRowKeeps DEF Arrive
<1> QED BY <1>2, <1>3, <1>4, <1>5, <1>6, <1>7, <1>8

\* A search, and the log, leave the memories, the tick and the pruner alone.
LEMMA LogKeeps ==
  ASSUME DecayInv, RecallFine', calls' \in Nat, access' = access,
         UNCHANGED <<mem, now, tick, told, guarded, prune, touched, cutShort, late>>
  PROVE  DecayInv'
<1>1. TypeOK' /\ SearchBelow'
  BY DEF DecayInv, TypeOK, RecallFine
<1>2. HandIsTold' /\ PlanIsFair' /\ DecayIsTold' /\ CountersHaveRows'
  BY DEF DecayInv, HandIsTold, PlanIsFair, Fair, Live, DecayIsTold, CountersHaveRows, Present
<1> QED BY <1>1, <1>2 DEF DecayInv

LEMMA SearcherKeeps ==
  ASSUME DecayInv, NEW s \in Searchers,
         (\E hits \in SUBSET Files : StartSearch(s, hits)) \/ Log(s)
  PROVE  DecayInv'
<1>1. RecallFine /\ calls \in Nat
  BY DEF DecayInv, TypeOK, RecallFine
<1>2. ASSUME NEW hits \in SUBSET Files, StartSearch(s, hits) PROVE DecayInv'
  <2>1. RecallFine'
    BY <1>1, <1>2, SearchKeeps DEF StartSearch
  <2>2. access' = access /\ calls' \in Nat
    BY <1>1, <1>2 DEF StartSearch, Search, Call
  <2> QED BY <1>2, <2>1, <2>2, LogKeeps DEF StartSearch
<1>3. CASE Log(s)
  <2>1. RecallFine'
    BY <1>1, <1>3, InsertKeeps, ReadCutKeeps, TrimKeeps DEF Log
  <2>2. access' = access
    BY <1>3 DEF Log, Insert, InsertFails, ReadCut, Trim, Drop
  <2>3. calls' = calls
    BY <1>3 DEF Log
  <2> QED BY <1>1, <1>3, <2>1, <2>2, <2>3, LogKeeps DEF Log
<1> QED BY <1>2, <1>3

LEMMA CountHitKeeps ==
  ASSUME DecayInv, NEW s \in Searchers, NEW f \in Files, CountHit(s, f)
  PROVE  DecayInv'
<1>1. RecallFine'
  BY BumpKeeps DEF DecayInv, TypeOK, RecallFine, CountHit
<1>2. UNCHANGED <<mem, now, tick, told, guarded, prune, calls, cutShort>>
  BY DEF CountHit
<1>3. access' \in [Files -> Strengths] /\ \A g \in Files \ {f} : access'[g] = access[g]
  BY <1>1 DEF CountHit, Bump, RecallFine, RecallTypeOK, DecayInv, TypeOK
<1>4. touched' \subseteq Files /\ touched \subseteq touched' /\ (f \in tick.plan => f \in touched')
  BY DEF DecayInv, TypeOK, CountHit, Touch
<1>5. late' \subseteq Files /\ late \subseteq late' /\ (~Present(f) => f \in late')
  BY DEF DecayInv, TypeOK, CountHit
<1>6. TypeOK' /\ SearchBelow'
  BY <1>1, <1>2, <1>4, <1>5 DEF DecayInv, TypeOK, RecallFine
<1>7. HandIsTold' /\ DecayIsTold'
  BY <1>2 DEF DecayInv, HandIsTold, DecayIsTold
<1>8. PlanIsFair'
  BY <1>2, <1>3, <1>4 DEF DecayInv, TypeOK, Ticks, PlanIsFair, Fair, Live
<1>9. CountersHaveRows'
  BY <1>2, <1>3, <1>5 DEF DecayInv, CountersHaveRows, Present
<1> QED BY <1>6, <1>7, <1>8, <1>9 DEF DecayInv

-----------------------------------------------------------------------------
(* The pruner *)

LEMMA ReapKeeps ==
  ASSUME DecayInv, NEW fs \in SUBSET Files, Reap(fs)
  PROVE  DecayInv'
<1>1. UNCHANGED <<recallVars, now, tick, told, guarded, cutShort, late>> /\ prune' = "sweep"
  BY DEF Reap
<1>2. /\ mem' \in [Files -> Rows]
      /\ \A f \in Files : mem'[f] = IF f \in fs THEN NoRow ELSE mem[f]
  BY DEF Reap, DecayInv, TypeOK, NoRow, Rows, Reasons
<1>3. calls' \in Nat /\ touched' = touched \union (fs \intersect tick.plan)
  BY DEF Reap, Call, DecayInv, TypeOK
<1>4. RecallTypeOK' /\ SearchBelow'
  BY <1>1 DEF recallVars, DecayInv, TypeOK, RecallTypeOK, SearchBelow
<1>5. TypeOK'
  BY <1>1, <1>2, <1>3, <1>4 DEF DecayInv, TypeOK
<1>6. HandIsTold' /\ CountersHaveRows'
  BY <1>1 DEF DecayInv, HandIsTold, CountersHaveRows
<1>7. PlanIsFair'
  BY <1>1, <1>2, <1>3 DEF DecayInv, TypeOK, Ticks, PlanIsFair, Fair, Live, recallVars
<1>8. DecayIsTold'
  BY <1>1, <1>2 DEF DecayInv, DecayIsTold, NoRow
<1> QED BY <1>4, <1>5, <1>6, <1>7, <1>8 DEF DecayInv

LEMMA SweepKeeps ==
  ASSUME DecayInv, Sweep \/ PruneKilled
  PROVE  DecayInv'
<1>1. UNCHANGED <<mem, now, tick, told, guarded, touched, cutShort>>
  BY DEF Sweep, PruneKilled
<1>2. /\ UNCHANGED <<log, lastId, search, cutAt, missed>>
      /\ \A f \in Files : access'[f] \in {access[f], "none"}
      /\ access' \in [Files -> Strengths]
  BY DEF Sweep, PruneKilled, recallVars, DecayInv, TypeOK, RecallTypeOK, Strengths
<1>3. prune' = "idle" /\ late' \subseteq Files /\ calls' \in Nat
  BY DEF Sweep, PruneKilled, Call, DecayInv, TypeOK
<1>4. RecallTypeOK' /\ SearchBelow'
  BY <1>2 DEF DecayInv, TypeOK, RecallTypeOK, SearchBelow
<1>5. TypeOK'
  BY <1>1, <1>3, <1>4 DEF DecayInv, TypeOK
<1>6. HandIsTold' /\ DecayIsTold'
  BY <1>1 DEF DecayInv, HandIsTold, DecayIsTold
<1>7. PlanIsFair'
  BY <1>1, <1>2 DEF DecayInv, TypeOK, Ticks, PlanIsFair, Fair, Live
<1>8. CountersHaveRows'
  <2>1. CASE Sweep
    BY <2>1 DEF Sweep, Orphans, CountersHaveRows, Present
  <2>2. CASE PruneKilled
    BY <2>2 DEF PruneKilled, CountersHaveRows, Present, recallVars
  <2> QED BY <2>1, <2>2
<1> QED BY <1>4, <1>5, <1>6, <1>7, <1>8 DEF DecayInv

-----------------------------------------------------------------------------
(* The tick *)

\* What a tick plans is fair at that moment.
LEMMA PlannedAreFair ==
  ASSUME NEW f \in Plan
  PROVE  f \in Files /\ Fair(f)
BY DEF Plan, Window, First, Decayable, Old, Weak, Fair

\* A step of the tick that archives nothing.
LEMMA TickKeeps ==
  ASSUME DecayInv, ReadCandidates \/ Guard \/ Tell \/ TickKilled
  PROVE  DecayInv'
<1>1. UNCHANGED <<recallVars, mem, now, prune, late>>
  BY DEF ReadCandidates, Guard, Tell, TickKilled
<1>2. tick' \in Ticks /\ HandIsTold'
  <2>1. CASE ReadCandidates
    <3>1. Plan \subseteq Files
      BY PlannedAreFair
    <3> QED BY <2>1, <3>1 DEF ReadCandidates, NoTick, Ticks, HandIsTold
  <2>2. CASE Guard
    BY <2>2 DEF Guard, DecayInv, TypeOK, Ticks, HandIsTold
  <2>3. CASE Tell
    BY <2>3 DEF Tell, DecayInv, TypeOK, NoTick, Ticks, HandIsTold
  <2>4. CASE TickKilled
    BY <2>4 DEF TickKilled, NoTick, Ticks, HandIsTold
  <2> QED BY <2>1, <2>2, <2>3, <2>4
<1>3. /\ told' \subseteq Files /\ touched' \subseteq Files /\ cutShort' \subseteq Files
      /\ guarded' \in BOOLEAN /\ calls' \in Nat
  <2>1. TypeOK /\ tick.hand \subseteq Files
    BY DEF DecayInv, TypeOK, Ticks
  <2>2. CASE ReadCandidates
    BY <2>1, <2>2 DEF ReadCandidates, TypeOK
  <2>3. CASE Guard
    BY <2>1, <2>3 DEF Guard, TypeOK
  <2>4. CASE Tell
    BY <2>1, <2>4 DEF Tell, TypeOK
  <2>5. CASE TickKilled
    BY <2>1, <2>5 DEF TickKilled, Call, TypeOK
  <2> QED BY <2>2, <2>3, <2>4, <2>5
<1>4. RecallTypeOK' /\ SearchBelow'
  BY <1>1 DEF recallVars, DecayInv, TypeOK, RecallTypeOK, SearchBelow
<1>5. TypeOK'
  BY <1>1, <1>2, <1>3, <1>4 DEF DecayInv, TypeOK
<1>6. PlanIsFair'
  <2>1. \A f : Fair(f)' <=> Fair(f)
    BY <1>1 DEF recallVars, Fair, Live
  <2>2. CASE ReadCandidates
    BY <2>1, <2>2, PlannedAreFair DEF ReadCandidates, NoTick, PlanIsFair
  <2>3. CASE Guard
    BY <2>1, <2>3 DEF Guard, DecayInv, HandIsTold, PlanIsFair
  <2>4. CASE Tell
    BY <2>1, <2>4 DEF Tell, NoTick, DecayInv, PlanIsFair
  <2>5. CASE TickKilled
    BY <2>5 DEF TickKilled, NoTick, PlanIsFair
  <2> QED BY <2>2, <2>3, <2>4, <2>5
<1>7. DecayIsTold'
  <2>1. CASE ReadCandidates
    BY <2>1 DEF ReadCandidates, DecayInv, HandIsTold, DecayIsTold
  <2>2. CASE Guard
    BY <2>2 DEF Guard, DecayInv, HandIsTold, DecayIsTold
  <2>3. CASE Tell
    BY <2>3 DEF Tell, DecayInv, DecayIsTold
  <2>4. CASE TickKilled
    BY <2>4 DEF TickKilled, DecayInv, DecayIsTold
  <2> QED BY <2>1, <2>2, <2>3, <2>4
<1>8. CountersHaveRows'
  BY <1>1 DEF recallVars, DecayInv, CountersHaveRows, Present
<1> QED BY <1>2, <1>4, <1>5, <1>6, <1>7, <1>8 DEF DecayInv

LEMMA SetAsideKeeps ==
  ASSUME DecayInv, NEW f \in Files, SetAside(f)
  PROVE  DecayInv'
<1>1. UNCHANGED <<recallVars, now, told, guarded, prune, calls, touched, cutShort, late>>
  BY DEF SetAside
<1>2. /\ mem' \in [Files -> Rows]
      /\ \A g \in Files \ {f} : mem'[g] = mem[g]
      /\ mem'[f].st = mem[f].st
  BY DEF SetAside, DecayInv, TypeOK, Rows, Reasons
<1>3. tick' = [at |-> "tell", plan |-> tick.plan, hand |-> {f}]
      /\ tick.hand = {}
  BY DEF SetAside, DecayInv, HandIsTold
<1>4. RecallTypeOK' /\ SearchBelow'
  BY <1>1 DEF recallVars, DecayInv, TypeOK, RecallTypeOK, SearchBelow
<1>5. TypeOK'
  BY <1>1, <1>2, <1>3, <1>4 DEF DecayInv, TypeOK, Ticks
<1>6. HandIsTold'
  BY <1>3 DEF HandIsTold
<1>7. PlanIsFair'
  BY <1>1, <1>2, <1>3 DEF DecayInv, TypeOK, Ticks, PlanIsFair, Fair, Live, recallVars
<1>8. DecayIsTold'
  BY <1>1, <1>2, <1>3 DEF DecayInv, DecayIsTold
<1>9. CountersHaveRows'
  BY <1>1, <1>2 DEF DecayInv, CountersHaveRows, Present, recallVars
<1> QED BY <1>4, <1>5, <1>6, <1>7, <1>8, <1>9 DEF DecayInv

-----------------------------------------------------------------------------
(* Time, and everything together *)

LEMMA PassKeeps ==
  ASSUME DecayInv, Pass
  PROVE  DecayInv'
<1>1. UNCHANGED <<recallVars, mem, tick, told, guarded, prune, calls, touched, cutShort, late>>
  BY DEF Pass
<1>2. now \in Nat /\ now' = now + 1
  BY DEF Pass, DecayInv, TypeOK
<1>3. RecallTypeOK' /\ SearchBelow'
  BY <1>1 DEF recallVars, DecayInv, TypeOK, RecallTypeOK, SearchBelow
<1>4. TypeOK'
  BY <1>1, <1>2, <1>3 DEF DecayInv, TypeOK
<1>5. HandIsTold' /\ DecayIsTold' /\ CountersHaveRows'
  BY <1>1 DEF recallVars, DecayInv, HandIsTold, DecayIsTold, CountersHaveRows, Present
<1>6. PlanIsFair'
  <2>1. ASSUME NEW f \in Files, Fair(f) PROVE Fair(f)'
    <3>1. mem[f].at \in Nat /\ DecayAge \in Nat
      BY DecayAssumption DEF DecayInv, TypeOK, Rows
    <3> QED BY <1>1, <1>2, <2>1, <3>1 DEF recallVars, Fair, Live
  <2> QED BY <1>1, <2>1 DEF DecayInv, TypeOK, Ticks, PlanIsFair
<1> QED BY <1>3, <1>4, <1>5, <1>6 DEF DecayInv

LEMMA WearOffKeeps ==
  ASSUME DecayInv, NEW f \in Files, WearOff(f)
  PROVE  DecayInv'
<1>1. UNCHANGED <<mem, now, tick, told, guarded, prune, calls, touched, cutShort, late>>
  BY DEF WearOff
<1>2. RecallFine'
  BY FadeKeeps DEF WearOff, DecayInv, TypeOK, RecallFine
<1>3. /\ access[f] = "strong" /\ access'[f] = "faded"
      /\ \A g \in Files \ {f} : access'[g] = access[g]
  BY DEF WearOff, Fade, DecayInv, TypeOK, RecallTypeOK
<1>4. TypeOK' /\ SearchBelow'
  BY <1>1, <1>2 DEF DecayInv, TypeOK, RecallFine
<1>5. HandIsTold' /\ DecayIsTold'
  BY <1>1 DEF DecayInv, HandIsTold, DecayIsTold
<1>6. PlanIsFair' /\ CountersHaveRows'
  BY <1>1, <1>3 DEF DecayInv, TypeOK, Ticks, PlanIsFair, Fair, Live, CountersHaveRows, Present
<1> QED BY <1>4, <1>5, <1>6 DEF DecayInv

LEMMA PruneRecallKeeps ==
  ASSUME DecayInv, NEW i, KeyholderPrunesLog(i)
  PROVE  DecayInv'
<1>1. RecallFine'
  BY PruneLogKeeps DEF DecayInv, TypeOK, RecallFine, KeyholderPrunesLog
<1>2. access' = access
  BY DEF KeyholderPrunesLog, PruneRecallLog
<1>3. calls' \in Nat
  BY DEF DecayInv, TypeOK, KeyholderPrunesLog, Call
<1>4. UNCHANGED <<mem, now, tick, told, guarded, prune, touched, cutShort, late>>
  BY DEF KeyholderPrunesLog
<1> QED BY <1>1, <1>2, <1>3, <1>4, LogKeeps

LEMMA DecayStarts == Init => DecayInv
<1> SUFFICES ASSUME Init PROVE DecayInv
  OBVIOUS
<1>1. RecallTypeOK /\ SearchBelow
  <2>1. RecallInit
    BY DEF Init
  <2>2. NoSearch \in Searches /\ Below(NoSearch, 0)
    BY IdleType
  <2> QED BY <2>1, <2>2 DEF RecallInit, RecallTypeOK, SearchBelow, Strengths
<1>2. TypeOK
  BY <1>1 DEF Init, TypeOK, NoRow, Rows, Reasons, NoTick, Ticks
<1>3. HandIsTold /\ PlanIsFair /\ DecayIsTold /\ CountersHaveRows
  BY DEF Init, RecallInit, NoTick, NoRow, HandIsTold, PlanIsFair, DecayIsTold, CountersHaveRows
<1> QED BY <1>1, <1>2, <1>3 DEF DecayInv

LEMMA DecayStepKeeps == DecayInv /\ [Next]_decayVars => DecayInv'
<1> SUFFICES ASSUME DecayInv, [Next]_decayVars PROVE DecayInv'
  OBVIOUS
<1>1. ASSUME NEW f \in Files,
             \/ Save(f) \/ Pin(f) \/ Unpin(f) \/ Archive(f) \/ Unarchive(f) \/ Delete(f)
             \/ \E at \in 0 .. MaxTime : Arrive(f, at)
      PROVE DecayInv'
  BY <1>1, KeyholderKeeps
<1>2. ASSUME NEW f \in Files, WearOff(f) PROVE DecayInv'
  BY <1>2, WearOffKeeps
<1>3. ASSUME NEW s \in Searchers,
             (\E hits \in SUBSET Files : StartSearch(s, hits)) \/ Log(s)
      PROVE DecayInv'
  BY <1>3, SearcherKeeps
<1>4. ASSUME NEW s \in Searchers, NEW f \in Files, CountHit(s, f) PROVE DecayInv'
  BY <1>4, CountHitKeeps
<1>5. ASSUME NEW i \in 1 .. MaxId, KeyholderPrunesLog(i) PROVE DecayInv'
  BY <1>5, PruneRecallKeeps
<1>6. ASSUME NEW fs \in SUBSET Files, Reap(fs) PROVE DecayInv'
  BY <1>6, ReapKeeps
<1>7. CASE Sweep \/ PruneKilled
  BY <1>7, SweepKeeps
<1>8. CASE ReadCandidates \/ Guard \/ Tell \/ TickKilled
  BY <1>8, TickKeeps
<1>9. ASSUME NEW f \in Files, SetAside(f) PROVE DecayInv'
  BY <1>9, SetAsideKeeps
<1>10. CASE Pass
  BY <1>10, PassKeeps
<1>11. CASE UNCHANGED decayVars
  BY <1>11 DEF decayVars, recallVars, DecayInv, TypeOK, RecallTypeOK, SearchBelow, HandIsTold,
               PlanIsFair, Fair, Live, DecayIsTold, CountersHaveRows, Present
<1> QED
  BY <1>1, <1>2, <1>3, <1>4, <1>5, <1>6, <1>7, <1>8, <1>9, <1>10, <1>11 DEF Next, TickStep

LEMMA DecayAlways == Spec => []DecayInv
<1>1. Spec => Init /\ [][Next]_decayVars
  BY DEF Spec
<1> QED BY <1>1, DecayStarts, DecayStepKeeps, PTL

\* Only the tick gives a row the mark of decay.
LEMMA OnlyTickSetsAside ==
  ASSUME DecayInv, [Next]_decayVars, NEW f \in Files,
         mem[f].archived # "decay", mem'[f].archived = "decay"
  PROVE  SetAside(f)
<1> USE DEF DecayInv, TypeOK
<1>1. mem' # mem
  OBVIOUS
<1>2. ASSUME NEW g \in Files, NEW r, OnRow(g, r), r.archived # "decay" \/ r.archived = mem[g].archived
      PROVE FALSE
  BY <1>2 DEF OnRow
<1>3. ASSUME NEW g \in Files,
             \/ Save(g) \/ Pin(g) \/ Unpin(g) \/ Archive(g) \/ Unarchive(g) \/ Delete(g)
             \/ \E at \in 0 .. MaxTime : Arrive(g, at)
      PROVE FALSE
  <2>1. mem[g] \in Rows
    OBVIOUS
  <2>2. CASE Save(g)
    BY <1>2, <2>1, <2>2 DEF Save, Rows
  <2>3. CASE Pin(g)
    BY <1>2, <2>1, <2>3 DEF Pin, Rows
  <2>4. CASE Unpin(g)
    BY <1>2, <2>1, <2>4 DEF Unpin, Rows
  <2>5. CASE Archive(g)
    BY <1>2, <2>1, <2>5 DEF Archive, Rows
  <2>6. CASE Unarchive(g)
    BY <1>2, <2>1, <2>6 DEF Unarchive, Rows
  <2>7. CASE Delete(g)
    BY <1>2, <2>1, <2>7 DEF Delete, Rows
  <2>8. CASE \E at \in 0 .. MaxTime : Arrive(g, at)
    BY <1>2, <2>8 DEF Arrive
  <2> QED BY <1>3, <2>2, <2>3, <2>4, <2>5, <2>6, <2>7, <2>8
<1>4. ASSUME NEW fs \in SUBSET Files, Reap(fs) PROVE FALSE
  BY <1>4 DEF Reap, NoRow
<1>5. ASSUME NEW g \in Files, SetAside(g) PROVE SetAside(f)
  BY <1>5 DEF SetAside
<1> QED
  BY <1>1, <1>3, <1>4, <1>5 DEF Next, TickStep, WearOff, StartSearch, CountHit, Log,
     KeyholderPrunesLog, Sweep, PruneKilled, ReadCandidates, Guard, Tell, TickKilled, Pass,
     decayVars

-----------------------------------------------------------------------------

\* The memories, the log and the tick keep their shapes, whatever fails and is
\* killed.
THEOREM TypeCorrect == Spec => []TypeOK
<1>1. DecayInv => TypeOK
  BY DEF DecayInv
<1> QED BY <1>1, DecayAlways, PTL

\* Decay sets nothing aside that is not fair game, but what a call has reached
\* since the tick read it.
THEOREM SetsAsideFairly == Spec => DecayIsFair
<1>1. DecayInv /\ [Next]_decayVars =>
        [\A f \in Files :
           mem[f].archived # "decay" /\ mem'[f].archived = "decay"
             => f \in touched \/ Fair(f)]_decayVars
  <2> SUFFICES ASSUME DecayInv, [Next]_decayVars, NEW f \in Files,
                      mem[f].archived # "decay", mem'[f].archived = "decay"
               PROVE  f \in touched \/ Fair(f)
    OBVIOUS
  <2>1. SetAside(f)
    BY OnlyTickSetsAside
  <2>2. f \in tick.plan \ tick.hand
    BY <2>1 DEF SetAside, DecayInv, HandIsTold
  <2> QED BY <2>2 DEF DecayInv, PlanIsFair
<1>2. Spec => [][Next]_decayVars
  BY DEF Spec
<1> QED BY <1>1, <1>2, DecayAlways, PTL DEF DecayIsFair

\* No row carries the mark of decay without its receipt, but those whose tick
\* was killed before it told.
THEOREM TellsWhatItSetsAside == Spec => []DecayIsTold
<1>1. DecayInv => DecayIsTold
  BY DEF DecayInv
<1> QED BY <1>1, DecayAlways, PTL

\* Whatever searches are under way, a finished pruner leaves no counter behind
\* that a memory saved anew under the same name would inherit.
THEOREM CountersAreSwept == Spec => []CountersHaveRows
<1>1. DecayInv => CountersHaveRows
  BY DEF DecayInv
<1> QED BY <1>1, DecayAlways, PTL


-----------------------------------------------------------------------------
(* Counting in finite sets of numbers *)

\* A finite set of numbers that is not empty has a greatest element: of the sets
\* of what is not under an element, one is minimal.
LEMMA GreatestExists ==
  ASSUME NEW S \in SUBSET Int, IsFiniteSet(S), S # {}
  PROVE  \E x \in S : \A y \in S : y <= x
<1> DEFINE up(x) == {y \in S : x <= y}
           ups == {up(x) : x \in S}
<1>1. ups \subseteq FiniteSubsetsOf(S) /\ ups # {}
  <2>1. ups \subseteq SUBSET S /\ ups # {}
    OBVIOUS
  <2> HIDE DEF ups
  <2> QED
    BY <2>1, FS_FiniteSubsetsOfFinite
<1>2. PICK U \in ups : \A V \in ups : <<V, U>> \notin StrictSubsetOrdering(S)
  BY <1>1, WFMin, FS_StrictSubsetOrderingWellFounded
<1>3. PICK x \in S : U = up(x)
  BY <1>2
<1>4. ASSUME NEW y \in S, x < y PROVE FALSE
  <2>1. up(y) \subseteq up(x) /\ x \in up(x) /\ x \notin up(y)
    <3>1. x \in Int /\ y \in Int /\ \A z \in S : z \in Int
      OBVIOUS
    <3>2. x <= x /\ ~(y <= x) /\ \A z \in S : y <= z => x <= z
      BY <1>4, <3>1
    <3> QED
      BY <3>2
  <2>2. <<up(y), up(x)>> \in StrictSubsetOrdering(S)
    BY <2>1 DEF StrictSubsetOrdering
  <2> QED
    BY <1>2, <1>3, <2>2
<1> QED
  BY <1>4

\* What holds of the first number of an interval, and of the next one with each,
\* holds of the last.
LEMMA StepByStep ==
  ASSUME NEW a \in Int, NEW b \in Int, a <= b, NEW Good \in SUBSET (a .. b),
         a \in Good, \A x \in Good : x < b => x + 1 \in Good
  PROVE  b \in Good
<1>1. IsFiniteSet(Good) /\ Good \in SUBSET Int
  <2> DEFINE I == a .. b
  <2>1. IsFiniteSet(I) /\ Good \in SUBSET I /\ I \subseteq Int
    BY FS_Interval
  <2> HIDE DEF I
  <2> QED
    BY <2>1, FS_Subset
<1>2. PICK x \in Good : \A y \in Good : y <= x
  BY <1>1, GreatestExists
<1>3. x \in Int /\ x <= b /\ ~(x < b)
  BY <1>2
<1> QED
  BY <1>3

\* In a log of more than max rows there is one with max rows above it.
LEMMA RanksExist ==
  ASSUME NEW L \in SUBSET Nat, IsFiniteSet(L), NEW max \in Nat, max < Cardinality(L)
  PROVE  \E i \in L : Cardinality(Above(L, i)) = max
<1> DEFINE Good == {n \in 0 .. max : \E i \in L : Cardinality(Above(L, i)) = n}
<1>1. \A i \in L : Above(L, i) \subseteq L /\ IsFiniteSet(Above(L, i))
  <2> SUFFICES ASSUME NEW i \in L PROVE Above(L, i) \subseteq L /\ IsFiniteSet(Above(L, i))
    OBVIOUS
  <2>1. Above(L, i) \in SUBSET L
    BY DEF Above
  <2> QED
    BY <2>1, FS_Subset
<1>c. Cardinality(L) \in Nat
  BY FS_CardinalityType
<1>2. 0 \in Good
  <2>1. L # {}
    BY FS_EmptySet
  <2>2. PICK i \in L : \A y \in L : y <= i
    BY <2>1, GreatestExists
  <2>3. Above(L, i) = {}
    <3>1. i \in Nat /\ \A y \in L : y \in Nat /\ ~(y > i)
      BY <2>2
    <3> QED
      BY <3>1 DEF Above
  <2> QED
    BY <2>3, FS_EmptySet
<1>3. ASSUME NEW n \in Good, n < max PROVE n + 1 \in Good
  <2>1. PICK i \in L : Cardinality(Above(L, i)) = n
    BY <1>3
  <2> DEFINE A == Above(L, i) \union {i}
             R == L \ A
  <2>2. i \notin Above(L, i)
    BY DEF Above
  <2>3. IsFiniteSet(A) /\ Cardinality(A) = n + 1
    BY <1>1, <2>1, <2>2, FS_AddElement
  <2>4. R # {}
    <3>1. A \subseteq L
      BY <1>1
    <3>2. n + 1 # Cardinality(L)
      BY <1>3, <1>c
    <3>3. A # L
      BY <2>3, <3>2
    <3> QED
      BY <3>1, <3>3
  <2>5. R \subseteq L /\ IsFiniteSet(R)
    BY FS_Difference
  <2>6. PICK x \in R : \A y \in R : y <= x
    <3> HIDE DEF R
    <3>1. R \in SUBSET Int
      BY <2>5
    <3> QED
      BY <2>4, <2>5, <3>1, GreatestExists
  <2>7. Above(L, x) = A
    <3>1. i \in Nat /\ x \in L /\ x \in Nat /\ \A y \in L : y \in Nat
      BY <2>6
    <3>2. x < i
      BY <2>6, <3>1 DEF Above
    <3>3. \A y \in L : y > x => y \in A
      BY <2>6, <3>1
    <3>4. \A y \in A : y \in L /\ y > x
      BY <3>1, <3>2 DEF Above
    <3>5. Above(L, x) = {y \in L : y > x}
      BY DEF Above
    <3> HIDE DEF A
    <3> QED
      BY <3>3, <3>4, <3>5
  <2> QED
    BY <1>3, <2>3, <2>6, <2>7
<1> HIDE DEF Good
<1>4. Good \in SUBSET (0 .. max)
  BY DEF Good
<1>5. max \in Good
  BY <1>2, <1>3, <1>4, StepByStep
<1> QED
  BY <1>5 DEF Good

\* Without a row to cut at, the log is within its cap; and a cut leaves max rows.
LEMMA CutCounts ==
  ASSUME NEW L \in SUBSET (Nat \ {0}), IsFiniteSet(L), NEW max \in Nat
  PROVE  /\ Cut(L, max) = 0 => Cardinality(L) <= max
         /\ Cut(L, max) # 0 => Cardinality(Above(L, Cut(L, max))) = max
<1>1. L \in SUBSET Nat /\ Cardinality(L) \in Nat
  BY FS_CardinalityType
<1>2. CASE \E i \in L : Cardinality(Above(L, i)) = max
  BY <1>2 DEF Cut
<1>3. CASE ~\E i \in L : Cardinality(Above(L, i)) = max
  BY <1>1, <1>3, RanksExist DEF Cut
<1> QED
  BY <1>2, <1>3

\* Between a and b there is a multiple of t for every t numbers.
LEMMA MultiplesCounted ==
  ASSUME NEW a \in Nat, NEW b \in Nat, a <= b, NEW t \in Nat \ {0}
  PROVE  LET M == {i \in a + 1 .. b : i % t = 0}
         IN  /\ IsFiniteSet(M) /\ Cardinality(M) \in Nat
             /\ b - a <= t * Cardinality(M) + t - 1
<1> DEFINE M(x) == {i \in a + 1 .. x : i % t = 0}
           m == a \div t
           Good == {x \in a .. b : x < t * (m + 1 + Cardinality(M(x)))}
<1>1. m \in Nat /\ t * m <= a /\ a < t * (m + 1)
  OBVIOUS
<1> HIDE DEF m
<1>2. \A x \in a .. b : IsFiniteSet(M(x)) /\ Cardinality(M(x)) \in Nat
  <2> SUFFICES ASSUME NEW x \in a .. b PROVE IsFiniteSet(M(x)) /\ Cardinality(M(x)) \in Nat
    OBVIOUS
  <2>1. IsFiniteSet(a + 1 .. x)
    BY FS_Interval
  <2>2. M(x) \in SUBSET (a + 1 .. x)
    OBVIOUS
  <2> HIDE DEF M
  <2> QED
    BY <2>1, <2>2, FS_Subset, FS_CardinalityType
<1>3. a \in Good
  <2>1. M(a) = {}
    OBVIOUS
  <2> QED
    BY <1>1, <2>1, FS_EmptySet
<1>4. ASSUME NEW x \in Good, x < b PROVE x + 1 \in Good
  <2> DEFINE k == Cardinality(M(x))
  <2>0. x \in a .. b /\ x < t * (m + 1 + k)
    OBVIOUS
  <2>1. x \in a .. b /\ x + 1 \in a .. b /\ k \in Nat /\ x < t * (m + 1 + k)
    <3>1. x + 1 \in a .. b
      BY <1>4, <2>0
    <3> HIDE DEF M
    <3> QED
      BY <1>2, <2>0, <3>1
  <2>2. M(x + 1) = IF (x + 1) % t = 0 THEN M(x) \union {x + 1} ELSE M(x)
    BY <2>1
  <2>3. x + 1 \notin M(x)
    BY <2>1
  <2> HIDE DEF M
  <2>4. CASE (x + 1) % t = 0
    <3>1. Cardinality(M(x + 1)) = k + 1
      BY <1>2, <2>1, <2>2, <2>3, <2>4, FS_AddElement
    <3> HIDE DEF k
    <3>2. t * (m + 1 + (k + 1)) = t * (m + 1 + k) + t
      BY <1>1, <2>1
    <3>3. t * (m + 1 + k) \in Int
      BY <1>1, <2>1
    <3>4. x + 1 < t * (m + 1 + (k + 1))
      BY <2>1, <3>2, <3>3
    <3> QED
      BY <2>1, <3>1, <3>4
  <2>5. CASE (x + 1) % t # 0
    <3>1. Cardinality(M(x + 1)) = k
      BY <2>2, <2>5
    <3> HIDE DEF k
    <3>2. \A q \in Nat : (t * q) % t = 0
      OBVIOUS
    <3>3. m + 1 + k \in Nat /\ t * (m + 1 + k) \in Int
      BY <1>1, <2>1
    <3>4. x + 1 # t * (m + 1 + k)
      BY <2>5, <3>2, <3>3
    <3>5. x + 1 < t * (m + 1 + k)
      BY <2>1, <3>3, <3>4
    <3> QED
      BY <2>1, <3>1, <3>5
  <2> QED
    BY <2>4, <2>5
<1>5. b \in Good
  <2>1. Good \in SUBSET (a .. b)
    OBVIOUS
  <2> HIDE DEF Good
  <2> QED
    BY <1>3, <1>4, <2>1, StepByStep
<1>6. IsFiniteSet(M(b)) /\ Cardinality(M(b)) \in Nat /\ b < t * (m + 1 + Cardinality(M(b)))
  BY <1>2, <1>5
<1> DEFINE c == Cardinality(M(b))
<1>7. b - a <= t * c + t - 1
  <2>1. c \in Nat /\ b < t * (m + 1 + c)
    BY <1>6
  <2> HIDE DEF c
  <2>2. t * (m + 1 + c) = t * m + t + t * c /\ t * m \in Int /\ t * c \in Int
    BY <1>1, <2>1
  <2> QED
    BY <1>1, <2>1, <2>2
<1> QED
  BY <1>6, <1>7

-----------------------------------------------------------------------------
(* The recall log stays under its ceiling.  Of the ids up to cutAt the log    *)
(* holds no more than its cap: the trim that moved cutAt there saw to it, and *)
(* nothing old comes back.  Of the ids after it, every one that trims is late *)
(* or missed; a trim that is about to cut leaves within the cap whatever it   *)
(* saw, and saw its own id.                                                   *)

NotTrimmed(i) ==
  i \in missed \/ \E s \in Searchers : search[s].at \in {"trim", "cut"} /\ search[s].id = i

UpTo(i, j) == {k \in log : k > i /\ k <= j}

CutIsGood(r) ==
  r.at = "cut" => r.id <= r.seen /\ Cardinality(UpTo(r.cut, r.seen)) <= LogMax

LogInv ==
  /\ Cardinality(UpTo(0, cutAt)) <= LogMax
  /\ \A i \in cutAt + 1 .. lastId : i % TrimEvery = 0 => NotTrimmed(i)
  /\ \A s \in Searchers : CutIsGood(search[s])

LEMMA IntervalType == TrimEvery \in Nat \ {0}
<1>1. LogMax \div Slice \in Int
  BY RecallAssumption
<1> DEFINE d == LogMax \div Slice
<1>2. d \in Int
  BY <1>1
<1>3. TrimEvery = IF d < 1 THEN 1 ELSE IF d > MaxEvery THEN MaxEvery ELSE d
  BY DEF TrimEvery
<1> HIDE DEF d
<1> QED
  BY <1>2, <1>3, RecallAssumption

\* The log and its parts are finite, and what is in a part of it is counted in it.
LEMMA LogIsFinite ==
  ASSUME RecallFine
  PROVE  /\ IsFiniteSet(log) /\ log \in SUBSET (Nat \ {0}) /\ Cardinality(log) \in Nat
         /\ \A part \in SUBSET log : IsFiniteSet(part) /\ Cardinality(part) \in Nat
<1>1. lastId \in Nat /\ log \in SUBSET (1 .. lastId)
  BY DEF RecallFine, RecallTypeOK
<1> DEFINE I == 1 .. lastId
<1>2. IsFiniteSet(I) /\ log \in SUBSET I /\ I \subseteq Nat \ {0}
  BY <1>1, FS_Interval
<1> HIDE DEF I
<1>3. IsFiniteSet(log)
  BY <1>2, FS_Subset
<1> QED
  BY <1>2, <1>3, FS_Subset, FS_CardinalityType

\* Part of a part of the log is no larger.
LEMMA PartsShrink ==
  ASSUME RecallFine, NEW big \in SUBSET log, NEW small \in SUBSET big,
         Cardinality(big) <= LogMax
  PROVE  Cardinality(small) <= LogMax
<1>1. IsFiniteSet(big) /\ Cardinality(big) \in Nat
  BY LogIsFinite
<1>2. Cardinality(small) \in Nat /\ Cardinality(small) <= Cardinality(big)
  BY <1>1, FS_Subset, FS_CardinalityType
<1> QED
  BY <1>1, <1>2, RecallAssumption

\* A step that takes rows out of the log, or none, and moves no searcher into a
\* cut, or out of a trim whose id is neither noted nor passed by a cut.
LEMMA LogShrinks ==
  ASSUME RecallFine, LogInv, log' \subseteq log, cutAt' = cutAt, lastId' = lastId,
         missed \subseteq missed',
         \A s \in Searchers :
           /\ search'[s].at = "cut" => search'[s] = search[s]
           /\ search[s].at \in {"trim", "cut"} =>
                \/ search'[s].at \in {"trim", "cut"} /\ search'[s].id = search[s].id
                \/ search[s].id \in missed'
  PROVE  LogInv'
<1>1. Cardinality(UpTo(0, cutAt)') <= LogMax
  <2>1. UpTo(0, cutAt) \in SUBSET log /\ UpTo(0, cutAt)' \in SUBSET UpTo(0, cutAt)
    BY DEF UpTo
  <2> QED
    BY <2>1, PartsShrink DEF LogInv
<1>2. \A i : NotTrimmed(i) => NotTrimmed(i)'
  BY DEF NotTrimmed
<1>3. ASSUME NEW s \in Searchers PROVE CutIsGood(search[s])'
  <2> SUFFICES ASSUME search'[s].at = "cut" PROVE CutIsGood(search[s])'
    BY DEF CutIsGood
  <2> DEFINE r == search[s]
  <2>1. search'[s] = r /\ r.at = "cut"
    OBVIOUS
  <2>2. r.id <= r.seen /\ Cardinality(UpTo(r.cut, r.seen)) <= LogMax
    BY <2>1 DEF LogInv, CutIsGood
  <2> HIDE DEF r
  <2>3. UpTo(r.cut, r.seen) \in SUBSET log /\ {k \in log' : k > r.cut /\ k <= r.seen} \in SUBSET UpTo(r.cut, r.seen)
    BY DEF UpTo
  <2>4. Cardinality({k \in log' : k > r.cut /\ k <= r.seen}) <= LogMax
    BY <2>2, <2>3, PartsShrink
  <2> QED
    BY <2>1, <2>2, <2>4 DEF CutIsGood, UpTo
<1> QED
  BY <1>1, <1>2, <1>3 DEF LogInv

\* A new row is above every cut, and its trim, when it is due, is under way or
\* missed.
LEMMA LogInsert ==
  ASSUME RecallFine, LogInv, NEW s \in Searchers, Insert(s) \/ InsertFails(s)
  PROVE  LogInv'
<1> DEFINE n == lastId + 1
<1>1. /\ lastId \in Nat /\ n \in Nat /\ cutAt \in 0 .. lastId /\ log \subseteq 1 .. lastId
      /\ search \in [Searchers -> Searches] /\ \A t \in Searchers : Below(search[t], lastId)
  BY DEF RecallFine, RecallTypeOK, SearchBelow
<1>2. lastId' = n /\ cutAt' = cutAt /\ log' \subseteq log \union {n} /\ missed \subseteq missed'
      /\ log \subseteq log'
  BY DEF Insert, InsertFails
<1>3. \A j \in 0 .. lastId : \A i : {k \in log' : k > i /\ k <= j} = UpTo(i, j)
  <2>1. \A j \in 0 .. lastId : ~(n <= j)
    BY <1>1
  <2>2. \A j \in 0 .. lastId : \A k \in log' : k <= j => k \in log
    BY <1>2, <2>1
  <2> QED
    BY <1>2, <2>2 DEF UpTo
<1>4. /\ search[s].at = "bump"
      /\ search' = [search EXCEPT ![s] = NoSearch] \/ search' = [search EXCEPT ![s] = Stage("trim", {}, n, 0, 0)]
  BY DEF Insert, InsertFails
<1>5. n % TrimEvery = 0 => \/ n \in missed'
                           \/ search'[s].at = "trim" /\ search'[s].id = n
  <2>1. CASE Insert(s)
    <3>1. n % TrimEvery = 0 => search'[s] = Stage("trim", {}, n, 0, 0)
      BY <1>1, <2>1 DEF Insert, TrimsAt
    <3> QED
      BY <3>1 DEF Stage
  <2>2. CASE InsertFails(s)
    BY <2>2 DEF InsertFails, TrimsAt
  <2> QED
    BY <2>1, <2>2
<1>6. \A t \in Searchers : t # s => search'[t] = search[t]
  BY <1>1, <1>4
<1>7. search'[s].at # "cut"
  BY <1>1, <1>4 DEF Stage, NoSearch
<1> HIDE DEF n
<1>8. \A i : NotTrimmed(i) => NotTrimmed(i)'
  BY <1>2, <1>4, <1>6 DEF NotTrimmed
<1>9. \A i \in cutAt' + 1 .. lastId' : i % TrimEvery = 0 => NotTrimmed(i)'
  <2>1. \A i \in cutAt + 1 .. n : i \in cutAt + 1 .. lastId \/ i = n
    BY <1>1 DEF n
  <2>2. \A i : i = n /\ n % TrimEvery = 0 => NotTrimmed(i)'
    BY <1>5 DEF NotTrimmed
  <2>3. TrimEvery' = TrimEvery
    BY DEF TrimEvery
  <2> QED
    BY <1>2, <1>8, <2>1, <2>2, <2>3 DEF LogInv
<1>10. ASSUME NEW t \in Searchers PROVE CutIsGood(search[t])'
  <2>1. CASE t # s /\ search[t].at = "cut"
    <3> DEFINE r == search[t]
    <3>1. r.seen \in 0 .. lastId /\ r.id <= r.seen /\ Cardinality(UpTo(r.cut, r.seen)) <= LogMax
      BY <1>1, <2>1 DEF Below, LogInv, CutIsGood
    <3>2. search'[t] = r
      BY <1>6, <2>1
    <3> HIDE DEF r
    <3>3. {k \in log' : k > r.cut /\ k <= r.seen} = UpTo(r.cut, r.seen)
      BY <1>3, <3>1
    <3> QED
      BY <3>1, <3>2, <3>3 DEF CutIsGood, UpTo
  <2>2. CASE ~(t # s /\ search[t].at = "cut")
    BY <1>6, <1>7, <2>2 DEF CutIsGood
  <2> QED
    BY <2>1, <2>2
<1>11. Cardinality(UpTo(0, cutAt)') <= LogMax
  <2>1. {k \in log' : k > 0 /\ k <= cutAt} = UpTo(0, cutAt)
    BY <1>1, <1>3
  <2> QED
    BY <1>2, <2>1 DEF LogInv, UpTo
<1> QED
  BY <1>9, <1>10, <1>11 DEF LogInv

\* The read of a trim: either the log is within its cap as it is, and cutAt moves
\* to the end of it, or the cut leaves the cap of what is there.
LEMMA LogReadCut ==
  ASSUME RecallFine, LogInv, NEW s \in Searchers, ReadCut(s)
  PROVE  LogInv'
<1> DEFINE c == Cut(log, LogMax)
           r == Stage("cut", {}, search[s].id, c, lastId)
<1>1. /\ lastId \in Nat /\ log \subseteq 1 .. lastId /\ search \in [Searchers -> Searches]
      /\ \A t \in Searchers : Below(search[t], lastId)
      /\ log' = log /\ lastId' = lastId /\ missed' = missed /\ search[s].at = "trim"
  BY DEF RecallFine, RecallTypeOK, SearchBelow, ReadCut
<1>e. \A k \in log : k \in Nat /\ k > 0 /\ k <= lastId
  BY <1>1
<1>2. /\ c = 0 => Cardinality(log) <= LogMax
      /\ c # 0 => Cardinality(Above(log, c)) = LogMax
  BY CutCounts, LogIsFinite, RecallAssumption
<1>3. CASE c = 0
  <2>1. cutAt' = lastId /\ search' = [search EXCEPT ![s] = NoSearch]
    BY <1>3 DEF ReadCut
  <2>2. {k \in log : k > 0 /\ k <= lastId} = log
    BY <1>e
  <2>3. \A i \in cutAt' + 1 .. lastId' : FALSE
    BY <1>1, <2>1
  <2>4. \A t \in Searchers : search'[t].at = "cut" => search'[t] = search[t]
    BY <1>1, <2>1 DEF NoSearch, Stage
  <2>5. \A t \in Searchers : CutIsGood(search[t])'
    BY <1>1, <2>4 DEF LogInv, CutIsGood, UpTo
  <2> QED
    BY <1>1, <1>2, <1>3, <2>1, <2>2, <2>3, <2>5 DEF LogInv, UpTo
<1>4. CASE c # 0
  <2>1. cutAt' = cutAt /\ search' = [search EXCEPT ![s] = r]
    BY <1>4 DEF ReadCut
  <2>2. r.at = "cut" /\ r.id = search[s].id /\ r.seen = lastId /\ r.cut = c
    BY DEF Stage
  <2>3. search[s].id <= lastId
    BY <1>1 DEF Below
  <2>4. {k \in log : k > c /\ k <= lastId} = Above(log, c)
    BY <1>e DEF Above
  <2>5. LogMax \in Nat
    BY RecallAssumption
  <2> HIDE DEF r, c
  <2>6. r.id <= r.seen /\ Cardinality({k \in log' : k > r.cut /\ k <= r.seen}) <= LogMax
    BY <1>1, <1>2, <1>4, <2>2, <2>3, <2>4, <2>5
  <2>7. \A t \in Searchers : search'[t] = IF t = s THEN r ELSE search[t]
    BY <1>1, <2>1
  <2>8. \A t \in Searchers : CutIsGood(search[t])'
    BY <1>1, <2>6, <2>7 DEF LogInv, CutIsGood, UpTo
  <2>9. \A i : NotTrimmed(i) => NotTrimmed(i)'
    BY <1>1, <2>2, <2>7 DEF NotTrimmed
  <2> QED
    BY <1>1, <2>1, <2>8, <2>9 DEF LogInv, UpTo
<1> QED
  BY <1>3, <1>4

\* The cut itself.  When another trim has moved cutAt past what this one saw, it
\* only takes rows; otherwise what it saw, less the cut, is the cap.
LEMMA LogTrim ==
  ASSUME RecallFine, LogInv, NEW s \in Searchers, Trim(s)
  PROVE  LogInv'
<1> DEFINE r == search[s]
<1>1. /\ lastId \in Nat /\ cutAt \in 0 .. lastId /\ search \in [Searchers -> Searches]
      /\ r.seen \in 0 .. lastId /\ r.id \in 0 .. lastId /\ r.at = "cut" /\ r.cut \in Nat
      /\ \A t \in Searchers : Below(search[t], lastId)
      /\ log \subseteq 1 .. lastId
  BY DEF RecallFine, RecallTypeOK, SearchBelow, Trim, Below, Searches
<1>e. \A k \in log : k \in Nat /\ k > 0 /\ k <= lastId
  BY <1>1
<1>2. r.id <= r.seen /\ Cardinality(UpTo(r.cut, r.seen)) <= LogMax
  BY <1>1 DEF LogInv, CutIsGood
<1>3. /\ log' = Above(log, r.cut) /\ lastId' = lastId /\ missed' = missed
      /\ cutAt' = IF r.seen > cutAt THEN r.seen ELSE cutAt
      /\ search' = [search EXCEPT ![s] = NoSearch]
  BY DEF Trim
<1> HIDE DEF r
<1>4. log' \subseteq log
  BY <1>3 DEF Above
<1>5. /\ \A t \in Searchers : search'[t].at = "cut" => search'[t] = search[t]
      /\ \A t \in Searchers : t # s => search'[t] = search[t]
      /\ search'[s].at = "idle"
  BY <1>1, <1>3 DEF NoSearch, Stage
<1>6. ASSUME NEW t \in Searchers PROVE CutIsGood(search[t])'
  <2> SUFFICES ASSUME search'[t].at = "cut" PROVE CutIsGood(search[t])'
    BY DEF CutIsGood
  <2> DEFINE q == search[t]
  <2>1. search'[t] = q /\ q.id <= q.seen /\ Cardinality(UpTo(q.cut, q.seen)) <= LogMax
    BY <1>5 DEF LogInv, CutIsGood
  <2> HIDE DEF q
  <2>2. UpTo(q.cut, q.seen) \in SUBSET log /\ {k \in log' : k > q.cut /\ k <= q.seen} \in SUBSET UpTo(q.cut, q.seen)
    BY <1>4 DEF UpTo
  <2>3. Cardinality({k \in log' : k > q.cut /\ k <= q.seen}) <= LogMax
    BY <2>1, <2>2, PartsShrink
  <2> QED
    BY <2>1, <2>3 DEF CutIsGood, UpTo
<1>7. Cardinality({k \in log' : k > 0 /\ k <= cutAt'}) <= LogMax
  <2>1. CASE r.seen > cutAt
    <3>1. {k \in log' : k > 0 /\ k <= cutAt'} = UpTo(r.cut, r.seen)
      <4>1. cutAt' = r.seen /\ \A k \in log : k > 0
        BY <1>e, <1>3, <2>1
      <4>2. log' = {k \in log : k > r.cut}
        BY <1>3 DEF Above
      <4> QED
        BY <4>1, <4>2 DEF UpTo
    <3> QED
      BY <1>2, <3>1
  <2>2. CASE ~(r.seen > cutAt)
    <3>1. UpTo(0, cutAt) \in SUBSET log /\ {k \in log' : k > 0 /\ k <= cutAt} \in SUBSET UpTo(0, cutAt)
      BY <1>4 DEF UpTo
    <3>2. Cardinality({k \in log' : k > 0 /\ k <= cutAt}) <= LogMax
      BY <3>1, PartsShrink DEF LogInv
    <3> QED
      BY <1>3, <2>2, <3>2
  <2> QED
    BY <2>1, <2>2
<1>8. \A i \in cutAt' + 1 .. lastId' : i % TrimEvery = 0 => NotTrimmed(i)'
  <2> SUFFICES ASSUME NEW i \in cutAt' + 1 .. lastId', i % TrimEvery = 0
               PROVE  NotTrimmed(i)'
    BY DEF TrimEvery
  <2>1. i \in cutAt + 1 .. lastId /\ i # r.id
    BY <1>1, <1>2, <1>3
  <2>2. NotTrimmed(i)
    BY <2>1 DEF LogInv
  <2> QED
    BY <1>3, <1>5, <2>1, <2>2 DEF NotTrimmed, r
<1> QED
  BY <1>6, <1>7, <1>8 DEF LogInv, UpTo

LEMMA LogStep == DecayInv /\ LogInv /\ [Next]_decayVars => LogInv'
<1> SUFFICES ASSUME DecayInv, LogInv, [Next]_decayVars PROVE LogInv'
  OBVIOUS
<1>f. RecallFine /\ search \in [Searchers -> Searches]
  BY DEF DecayInv, TypeOK, RecallFine, RecallTypeOK
<1>1. CASE UNCHANGED <<log, lastId, search, cutAt, missed>>
  BY <1>1 DEF LogInv, NotTrimmed, CutIsGood, UpTo, TrimEvery
<1>2. ASSUME NEW s \in Searchers, NEW hits \in SUBSET Files, Search(s, hits) PROVE LogInv'
  BY <1>2, <1>f, LogShrinks DEF Search, Stage
<1>3. ASSUME NEW s \in Searchers, NEW f \in Files, Bump(s, f) PROVE LogInv'
  BY <1>3, <1>f, LogShrinks DEF Bump, Stage
<1>4. ASSUME NEW s \in Searchers, Drop(s) PROVE LogInv'
  <2>1. \A t \in Searchers : /\ search'[t].at = "cut" => search'[t] = search[t]
                             /\ search[t].at \in {"trim", "cut"} =>
                                  \/ search'[t].at \in {"trim", "cut"} /\ search'[t].id = search[t].id
                                  \/ search[t].id \in missed'
    BY <1>4, <1>f DEF Drop, NoSearch, Stage
  <2> QED
    BY <1>4, <1>f, <2>1, LogShrinks DEF Drop
<1>5. ASSUME NEW i, PruneRecallLog(i) PROVE LogInv'
  <2>1. log' \subseteq log
    BY <1>5 DEF PruneRecallLog, Above
  <2> QED
    BY <1>5, <1>f, <2>1, LogShrinks DEF PruneRecallLog
<1>6. ASSUME NEW s \in Searchers, Log(s) PROVE LogInv'
  BY <1>4, <1>6, <1>f, LogInsert, LogReadCut, LogTrim DEF Log
<1>7. ASSUME NEW f \in Files,
             \/ Save(f) \/ Pin(f) \/ Unpin(f) \/ Archive(f) \/ Unarchive(f) \/ Delete(f)
             \/ \E at \in 0 .. MaxTime : Arrive(f, at)
             \/ WearOff(f)
      PROVE  LogInv'
  BY <1>1, <1>7
  DEF Save, Pin, Unpin, Archive, Unarchive, Delete, Arrive, OnRow, recallVars, WearOff, Fade
<1>8. CASE TickStep \/ TickKilled \/ Pass \/ UNCHANGED decayVars
  BY <1>1, <1>8
  DEF TickStep, ReadCandidates, Guard, SetAside, Tell, TickKilled, Pass, decayVars, recallVars
<1>9. CASE (\E fs \in SUBSET Files : Reap(fs)) \/ Sweep \/ PruneKilled
  BY <1>1, <1>9 DEF Reap, Sweep, PruneKilled, recallVars
<1> QED
  BY <1>2, <1>3, <1>5, <1>6, <1>7, <1>8, <1>9
  DEF Next, StartSearch, CountHit, KeyholderPrunesLog

\* What the invariant says of the length of the log: a cap up to cutAt, and after
\* it no more than the intervals between the ids that should have trimmed.
LEMMA LogCounted ==
  ASSUME RecallFine, LogInv
  PROVE  LogUnderCeiling
<1>1. lastId \in Nat /\ cutAt \in 0 .. lastId /\ log \subseteq 1 .. lastId /\ TrimEvery \in Nat \ {0}
  BY IntervalType DEF RecallFine, RecallTypeOK
<1> DEFINE old == UpTo(0, cutAt)
           new == UpTo(cutAt, lastId)
           tail == cutAt + 1 .. lastId
           M == {i \in cutAt + 1 .. lastId : i % TrimEvery = 0}
<1>e. \A k \in log : k \in Nat /\ k > 0 /\ k <= lastId
  BY <1>1
<1>2. log = old \union new /\ old \subseteq log /\ new \subseteq log /\ new \subseteq tail
  <2>1. \A k \in log : k <= cutAt \/ k > cutAt
    BY <1>1, <1>e
  <2>2. \A k \in log : k > cutAt => k \in tail
    BY <1>1, <1>e
  <2> HIDE DEF tail
  <2> QED
    BY <1>e, <2>1, <2>2 DEF UpTo
<1>3. IsFiniteSet(tail) /\ Cardinality(tail) = lastId - cutAt
  <2>1. cutAt + 1 \in Int /\ lastId \in Int /\ cutAt <= lastId
    BY <1>1
  <2>2. IsFiniteSet(tail) /\ Cardinality(tail) = IF cutAt + 1 > lastId THEN 0 ELSE lastId - (cutAt + 1) + 1
    BY <2>1, FS_Interval
  <2> QED
    BY <1>1, <2>1, <2>2
<1>4. IsFiniteSet(M) /\ Cardinality(M) \in Nat
      /\ lastId - cutAt <= TrimEvery * Cardinality(M) + TrimEvery - 1
  <2>1. cutAt \in Nat /\ cutAt <= lastId
    BY <1>1
  <2> QED
    BY <1>1, <2>1, MultiplesCounted
<1>5. Due = M
  BY DEF Due, NotTrimmed, LogInv
<1> HIDE DEF old, new, tail, M
<1>6. /\ IsFiniteSet(old) /\ Cardinality(old) \in Nat /\ IsFiniteSet(new) /\ Cardinality(new) \in Nat
  BY <1>2, LogIsFinite
<1>7. Cardinality(new) <= lastId - cutAt
  BY <1>2, <1>3, FS_Subset
<1>8. Cardinality(log) <= Cardinality(old) + Cardinality(new)
  <2>1. IsFiniteSet(old \intersect new)
    BY <1>6, FS_Intersection
  <2>2. Cardinality(old \intersect new) \in Nat
    BY <2>1, FS_CardinalityType
  <2> QED
    <3>1. Cardinality(old \union new) = Cardinality(old) + Cardinality(new) - Cardinality(old \intersect new)
      BY <1>6, FS_Union
    <3>2. Cardinality(log) = Cardinality(old \union new)
      BY <1>2
    <3> QED
      BY <1>6, <2>2, <3>1, <3>2
<1>9. Cardinality(old) <= LogMax
  BY DEF LogInv, old
<1>10. TrimEvery * Cardinality(M) \in Nat
  BY <1>1, <1>4
<1>11. Cardinality(log) <= LogMax + TrimEvery - 1 + TrimEvery * Cardinality(M)
  <2> DEFINE product == TrimEvery * Cardinality(M)
  <2>1. lastId - cutAt <= product + TrimEvery - 1 /\ product \in Nat
    BY <1>4, <1>10
  <2> HIDE DEF product
  <2>2. Cardinality(log) \in Nat /\ LogMax \in Nat
    BY LogIsFinite, RecallAssumption
  <2>3. Cardinality(log) <= LogMax + TrimEvery - 1 + product
    BY <1>1, <1>6, <1>7, <1>8, <1>9, <2>1, <2>2
  <2> QED
    BY <2>3 DEF product
<1> QED
  BY <1>5, <1>11 DEF LogUnderCeiling

\* The recall log never outgrows its cap and one interval by more than one
\* interval for every trim that is late or was missed.
THEOREM LogStaysUnderCeiling == Spec => []LogUnderCeiling
<1>1. Init => LogInv
  <2> SUFFICES ASSUME Init PROVE LogInv
    OBVIOUS
  <2>1. log = {} /\ cutAt = 0 /\ lastId = 0 /\ \A s \in Searchers : search[s].at = "idle"
    BY DEF Init, RecallInit, NoSearch, Stage
  <2>2. UpTo(0, cutAt) = {} /\ \A i \in cutAt + 1 .. lastId : FALSE
    BY <2>1 DEF UpTo
  <2>3. Cardinality(UpTo(0, cutAt)) <= LogMax
    BY <2>2, FS_EmptySet, RecallAssumption
  <2> QED
    BY <2>1, <2>2, <2>3 DEF LogInv, CutIsGood
<1>2. DecayInv => RecallFine
  BY DEF DecayInv, TypeOK, RecallFine
<1>3. RecallFine /\ LogInv => LogUnderCeiling
  BY LogCounted
<1>4. Spec => Init /\ [][Next]_decayVars
  BY DEF Spec
<1> QED
  BY <1>1, <1>2, <1>3, <1>4, LogStep, DecayAlways, PTL
=============================================================================
