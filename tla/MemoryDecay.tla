----------------------------- MODULE MemoryDecay -----------------------------
(***************************************************************************)
(* The memories as their keyholder, the decay tick and the tombstone       *)
(* pruner treat them: setMemory, setMemoryPin, setMemoryArchive,           *)
(* deleteMemory, searchMemories, pruneTombstones, and decay.js.            *)
(*                                                                         *)
(* A call of the keyholder is one statement and one step.  The tick and    *)
(* the pruner are several, with calls of the keyholder in between, and may *)
(* be killed between any two.  The rows that a tick has picked are         *)
(* archived in any order.  File names are numbers, in their order as text. *)
(***************************************************************************)
EXTENDS RecallLog

CONSTANTS
  DecayAge,     \* decayAgeDays, on the clock of the model
  ScanLimit,    \* rows a tick looks at
  Batch,        \* rows a tick archives
  MaxTime,      \* bound on the clock
  MaxCalls      \* bound on the keyholder's calls, searches and kills

ASSUME DecayAssumption ==
  /\ Files \subseteq Nat
  /\ DecayAge \in Nat /\ MaxTime \in Nat /\ MaxCalls \in Nat
  /\ ScanLimit \in Nat \ {0} /\ Batch \in Nat \ {0}

VARIABLES
  mem,          \* memories: the row of every file
  now,          \* the kernel's clock
  tick,         \* the decay tick
  told,         \* the files that have a 'decayed' capture
  guarded,      \* whether decay_last_snapshot is set
  prune,        \* pruneTombstones: "idle", or the sweep is still to come
  calls,        \* calls so far
  touched,      \* history: files of the tick's plan that a call has reached
                \* since the tick read them
  cutShort,     \* history: files whose archive the tick did not live to tell
  late          \* history: files without a row that a search counted, or that
                \* a killed pruner has left a counter of

decayVars == <<recallVars, mem, now, tick, told, guarded, prune, calls,
               touched, cutShort, late>>

-----------------------------------------------------------------------------
(* Rows *)

Reasons == {"no", "keyholder", "decay"}    \* archived, and archived_reason

Rows == [st: {"absent", "live", "dead"}, pinned: BOOLEAN, direct: BOOLEAN,
         archived: Reasons, at: Nat]

NoRow == [st |-> "absent", pinned |-> FALSE, direct |-> TRUE, archived |-> "no", at |-> 0]

Present(f) == mem[f].st # "absent"
Live(f) == mem[f].st = "live"

\* Slips: archived rows stay in the window; pinned rows are not spared.
ArchivedToo_Bug(f) == Live(f) /\ ~mem[f].pinned /\ mem[f].direct
PinnedToo_Bug(f) == Live(f) /\ mem[f].direct /\ mem[f].archived = "no"

\* The WHERE of _oldCandidates, but for the age.
Decayable(f) ==
  Live(f) /\ ~mem[f].pinned /\ mem[f].direct /\ mem[f].archived = "no"

Old(f) == mem[f].at + DecayAge <= now
Weak(f) == access[f] # "strong"

\* ORDER BY updated_at, filename; and the first n of a set of files in it.
Before(f, g) == mem[f].at < mem[g].at \/ (mem[f].at = mem[g].at /\ f < g)
First(n, fs) == {f \in fs : Cardinality({g \in fs : Before(g, f)}) < n}

Window == First(ScanLimit, {f \in Files : Decayable(f) /\ Old(f)})
Plan == First(Batch, {f \in Window : Weak(f)})

-----------------------------------------------------------------------------
(* The keyholder *)

Call == calls < MaxCalls /\ calls' = calls + 1

\* Remembers that a call has reached a file that the tick has in its plan.
Touch(f) == touched' = IF f \in tick.plan THEN touched \union {f} ELSE touched

OnRow(f, r) ==
  /\ Call
  /\ mem' = [mem EXCEPT ![f] = r]
  /\ Touch(f)
  /\ UNCHANGED <<recallVars, now, tick, told, guarded, prune, cutShort, late>>

\* setMemory: pin, tier and archive of a row that is there are left alone, the
\* ones of a tombstone too.
Save(f) == OnRow(f, [mem[f] EXCEPT !.st = "live", !.at = now])

\* A row of somebody else that an import brings in, with its own stamp.
Arrive(f, at) ==
  /\ ~Present(f)
  /\ at <= now
  /\ OnRow(f, [st |-> "live", pinned |-> FALSE, direct |-> FALSE, archived |-> "no", at |-> at])

\* setMemoryPin: a pin also makes the row the keyholder's own.
Pin(f) == Present(f) /\ OnRow(f, [mem[f] EXCEPT !.pinned = TRUE, !.direct = TRUE])
Unpin(f) == Present(f) /\ OnRow(f, [mem[f] EXCEPT !.pinned = FALSE])

\* setMemoryArchive
Archive(f) == Present(f) /\ OnRow(f, [mem[f] EXCEPT !.archived = "keyholder"])
Unarchive(f) == Present(f) /\ OnRow(f, [mem[f] EXCEPT !.archived = "no"])

\* deleteMemory
Delete(f) == Live(f) /\ OnRow(f, [mem[f] EXCEPT !.st = "dead"])

\* searchMemories and its bookkeeping.
StartSearch(s, hits) ==
  /\ \A f \in hits : Live(f) /\ mem[f].archived = "no"
  /\ Search(s, hits)
  /\ Call
  /\ UNCHANGED <<mem, now, tick, told, guarded, prune, touched, cutShort, late>>

CountHit(s, f) ==
  /\ Bump(s, f)
  /\ Touch(f)
  /\ late' = IF Present(f) THEN late ELSE late \union {f}
  /\ UNCHANGED <<mem, now, tick, told, guarded, prune, calls, cutShort>>

Log(s) ==
  /\ Insert(s) \/ InsertFails(s) \/ ReadCut(s) \/ Trim(s) \/ Drop(s)
  /\ UNCHANGED <<mem, now, tick, told, guarded, prune, calls, touched, cutShort, late>>

KeyholderPrunesLog(i) ==
  /\ PruneRecallLog(i)
  /\ Call
  /\ UNCHANGED <<mem, now, tick, told, guarded, prune, touched, cutShort, late>>

-----------------------------------------------------------------------------
(* pruneTombstones *)

\* The tombstones that are old enough go; how old, the caller says.
Reap(fs) ==
  /\ prune = "idle"
  /\ \A f \in fs : mem[f].st = "dead"
  /\ Call
  /\ mem' = [f \in Files |-> IF f \in fs THEN NoRow ELSE mem[f]]
  /\ prune' = "sweep"
  /\ touched' = touched \union (fs \intersect tick.plan)
  /\ UNCHANGED <<recallVars, now, tick, told, guarded, cutShort, late>>

\* Slip: only what this call could have stranded is swept.
Orphans_Bug == {f \in Files : ~Present(f) /\ f \notin late}

\* The counters that belong to no row.
Orphans == {f \in Files : ~Present(f)}

Sweep ==
  /\ prune = "sweep"
  /\ access' = [f \in Files |-> IF f \in Orphans THEN "none" ELSE access[f]]
  /\ prune' = "idle"
  /\ late' = {}
  /\ UNCHANGED <<log, lastId, search, cutAt, missed,
                 mem, now, tick, told, guarded, calls, touched, cutShort>>

PruneKilled ==
  /\ prune = "sweep"
  /\ Call
  /\ prune' = "idle"
  /\ late' = late \union {f \in Files : ~Present(f) /\ access[f] # "none"}
  /\ UNCHANGED <<recallVars, mem, now, tick, told, guarded, touched, cutShort>>

-----------------------------------------------------------------------------
(* The decay tick *)

NoTick == [at |-> "idle", plan |-> {}, hand |-> {}]

Ticks == [at: {"idle", "guard", "archive", "tell"}, plan: SUBSET Files, hand: SUBSET Files]

\* _oldCandidates and the choice of the weak ones; with none, the tick is over.
ReadCandidates ==
  /\ tick.at = "idle"
  /\ tick' = IF Plan = {} THEN NoTick ELSE [at |-> "guard", plan |-> Plan, hand |-> {}]
  /\ touched' = {}
  /\ UNCHANGED <<recallVars, mem, now, told, guarded, prune, calls, cutShort, late>>

\* _maybeSnapshot
Guard ==
  /\ tick.at = "guard"
  /\ tick' = [at |-> "archive", plan |-> tick.plan, hand |-> {}]
  /\ guarded' = TRUE
  /\ UNCHANGED <<recallVars, mem, now, told, prune, calls, touched, cutShort, late>>

\* setMemoryArchive(filename, true, 'decay'), by name.
SetAside(f) ==
  /\ tick.at = "archive"
  /\ f \in tick.plan
  /\ mem' = [mem EXCEPT ![f].archived = IF Present(f) THEN "decay" ELSE @]
  /\ tick' = [at |-> "tell", plan |-> tick.plan, hand |-> {f}]
  /\ UNCHANGED <<recallVars, now, told, guarded, prune, calls, touched, cutShort, late>>

\* The receipt; after the last one the tick is noted and over.
Tell ==
  /\ tick.at = "tell"
  /\ told' = told \union tick.hand
  /\ tick' = IF tick.plan = tick.hand
             THEN NoTick
             ELSE [at |-> "archive", plan |-> tick.plan \ tick.hand, hand |-> {}]
  /\ UNCHANGED <<recallVars, mem, now, guarded, prune, calls, touched, cutShort, late>>

TickKilled ==
  /\ tick.at # "idle"
  /\ Call
  /\ tick' = NoTick
  /\ cutShort' = cutShort \union tick.hand
  /\ UNCHANGED <<recallVars, mem, now, told, guarded, prune, touched, late>>

-----------------------------------------------------------------------------
(* Time *)

Pass ==
  /\ now < MaxTime
  /\ now' = now + 1
  /\ UNCHANGED <<recallVars, mem, tick, told, guarded, prune, calls, touched, cutShort, late>>

WearOff(f) ==
  /\ Fade(f)
  /\ UNCHANGED <<mem, now, tick, told, guarded, prune, calls, touched, cutShort, late>>

Init ==
  /\ RecallInit
  /\ mem = [f \in Files |-> NoRow]
  /\ now = 0
  /\ tick = NoTick
  /\ told = {} /\ guarded = FALSE /\ prune = "idle" /\ calls = 0
  /\ touched = {} /\ cutShort = {} /\ late = {}

TickStep == ReadCandidates \/ Guard \/ (\E f \in Files : SetAside(f)) \/ Tell

Next ==
  \/ \E f \in Files :
       \/ Save(f) \/ Pin(f) \/ Unpin(f) \/ Archive(f) \/ Unarchive(f) \/ Delete(f)
       \/ \E at \in 0 .. MaxTime : Arrive(f, at)
       \/ WearOff(f)
  \/ \E s \in Searchers :
       \/ \E hits \in SUBSET Files : StartSearch(s, hits)
       \/ \E f \in Files : CountHit(s, f)
       \/ Log(s)
  \/ \E i \in 1 .. MaxId : KeyholderPrunesLog(i)
  \/ (\E fs \in SUBSET Files : Reap(fs)) \/ Sweep \/ PruneKilled
  \/ TickStep \/ TickKilled
  \/ Pass

\* A host polls the tick, and recalls wear off.
Fairness ==
  /\ WF_decayVars(TickStep)
  /\ \A f \in Files : WF_decayVars(WearOff(f))

Spec == Init /\ [][Next]_decayVars /\ Fairness

-----------------------------------------------------------------------------
(* Properties *)

TypeOK ==
  /\ RecallTypeOK
  /\ mem \in [Files -> Rows]
  /\ now \in Nat /\ calls \in Nat
  /\ tick \in Ticks
  /\ prune \in {"idle", "sweep"}
  /\ guarded \in BOOLEAN
  /\ told \subseteq Files /\ touched \subseteq Files
  /\ cutShort \subseteq Files /\ late \subseteq Files

\* What decay may set aside: a live row of the keyholder's own that is not
\* pinned, was not edited for DecayAge, and is weak.
Fair(f) ==
  /\ Live(f) /\ mem[f].direct /\ ~mem[f].pinned /\ mem[f].archived = "no"
  /\ mem[f].at + DecayAge <= now
  /\ access[f] # "strong"

\* Decay sets aside only what is fair game at that very moment, unless a call
\* has reached the row between the read of the tick and its write.
DecayIsFair ==
  [][\A f \in Files :
       mem[f].archived # "decay" /\ mem'[f].archived = "decay"
         => f \in touched \/ Fair(f)]_decayVars

\* Decay never decides silently: a row it has set aside is in the stream of
\* captures, or about to be, but for one row per tick that was killed.
DecayIsTold ==
  \A f \in Files :
    mem[f].archived = "decay" => f \in told \union tick.hand \union cutShort

\* Once a pruner is done, a counter belongs to a row: a file that is saved
\* anew starts with no recalls but those of a search that was under way.
CountersHaveRows ==
  \A f \in Files : access[f] # "none" /\ ~Present(f) => prune = "sweep" \/ f \in late

\* Once the keyholder rests (the calls are bounded), a row that is fair game is
\* set aside, however many old rows stand before it in the window of a tick:
\* the weak ones among them go, and the others get weak.
QuietRowsGo == \A f \in Files : Fair(f) ~> ~Fair(f)

=============================================================================
