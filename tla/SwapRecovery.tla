----------------------------- MODULE SwapRecovery -----------------------------
(***************************************************************************)
(* rollback(id, 'replace') and its crash recovery: the journaled swap of   *)
(* the directories brain, brain.new and brain.old, init with               *)
(* _recoverInterruptedSwap, and the writes of other users around the swap. *)
(*                                                                         *)
(* A file operation is one step and the process may die between any two.   *)
(* Removing a directory tree and loading one are not atomic: they leave a  *)
(* directory that may or may not still look like a store (PG_VERSION).     *)
(* A store's data is the set of writes in it.  The code that recovers is   *)
(* synchronous; the code that swaps is async, and another caller's write,  *)
(* two steps long (_ensure, then the statement), can come in between.      *)
(***************************************************************************)
EXTENDS Naturals, FiniteSets

CONSTANTS
  Writes,       \* the writes that users may make
  Callers,      \* concurrent users of the brain handle
  MaxSnaps,     \* bound on the snapshots on disk
  None          \* no caller

ASSUME SwapAssumption ==
  /\ MaxSnaps \in Nat
  /\ None \notin Callers

VARIABLES
  dir,          \* the three directories: state, and writes in the store
  journal,      \* .rollback-journal.json: "none", "torn" or "whole"
  snaps,        \* snapshots on disk: the writes in each
  target,       \* the snapshot being restored
  pc,           \* where the process is
  swapper,      \* the caller whose rollback is running
  swapping,     \* _swapInProgress
  pend,         \* per caller, the writes it is about to make (at most one)
  acked,        \* writes that were reported as done
  booted,       \* how often init bootstrapped an empty store
  had,          \* history: what the brain's users last had in it
  offered       \* history: the snapshot that rename#1 made room for, until it is
                \* known whether the brain became that (else {})

vars == <<dir, journal, snaps, target, pc, swapper, swapping, pend, acked, booted, had,
          offered>>

-----------------------------------------------------------------------------
(* Directories *)

Names == {"brain", "new", "old"}

\* "bare": something, but no PG_VERSION; "torn": PG_VERSION, but not whole.
States == {"none", "bare", "torn", "whole"}

Stores == [st: States, data: SUBSET Writes]

Gone == [st |-> "none", data |-> {}]
Whole(data) == [st |-> "whole", data |-> data]

\* valid(d): fs.existsSync(path.join(d, 'PG_VERSION'))
Valid(n) == dir[n].st \in {"torn", "whole"}

Moved(from, to) == [dir EXCEPT ![to] = dir[from], ![from] = Gone]

\* rm -r of a directory, some way through or all the way.
Removed(n, st) == IF dir[n].st = "none" THEN dir
                  ELSE [dir EXCEPT ![n] = [st |-> st, data |-> {}]]

\* What is left of a tree whose removal was cut short; PG_VERSION does not
\* come back.
Remnants(n) == {st \in {"bare", "torn"} : st = "torn" => Valid(n)}

-----------------------------------------------------------------------------
(* init: _recoverInterruptedSwap, then open *)

RecoveryPlaces == {"recover", "forward", "forwardMove", "back", "backMove", "tidyOld",
                   "tidyNew", "unlink", "boot"}
SwapPlaces == {"safety", "rmNew", "rmOld", "load", "journal", "rename1", "rename2",
               "clear", "reopen", "cleanup", "undo"}
Places == {"down", "open", "offline"} \union RecoveryPlaces \union SwapPlaces

\* The process has the store in brain open.
DbOpen == pc \in {"open", "safety", "rmNew", "rmOld", "load", "journal", "cleanup"}

Goto(place) == pc' = place

KeepUsers == UNCHANGED <<snaps, target, swapper, swapping, pend, acked, had, offered>>

InitStart ==
  /\ pc \in {"down", "offline"}
  /\ Goto("recover")
  /\ UNCHANGED <<dir, journal, booted>>
  /\ KeepUsers

\* Slip: without a journal, whatever is not brain/ is taken for strays.
NoJournalNoRecovery_Bug == IF journal # "whole" THEN "tidyOld"
                           ELSE IF Valid("brain") THEN "tidyOld"
                           ELSE IF Valid("new") THEN "forward"
                           ELSE IF Valid("old") THEN "back" ELSE "offline"

\* Slip: a whole journal is taken to say that the brain has been moved aside.
ForwardFirst_Bug == IF journal = "whole" /\ Valid("new") THEN "forward"
                    ELSE IF Valid("brain") THEN "tidyOld"
                    ELSE IF Valid("old") THEN "back"
                    ELSE IF Valid("new") THEN "forward" ELSE "boot"

\* Slip: recovery gives up rather than go on without a journal.
NeedsJournal_Bug == IF Valid("brain") THEN "tidyOld"
                    ELSE IF journal = "whole" /\ Valid("new") THEN "forward"
                    ELSE IF Valid("old") \/ Valid("new") THEN "offline" ELSE "boot"

\* Which way recovery goes, if init does not throw.  A torn journal does not parse
\* and counts as none; without one the pre-rollback store comes first, with one
\* the snapshot does.
Plan ==
  CASE Valid("brain") -> "tidyOld"
    [] ~Valid("brain") /\ journal = "whole" /\ Valid("new") -> "forward"
    [] ~Valid("brain") /\ journal = "whole" /\ ~Valid("new") /\ Valid("old") -> "back"
    [] ~Valid("brain") /\ journal = "whole" /\ ~Valid("new") /\ ~Valid("old") -> "offline"
    [] ~Valid("brain") /\ journal # "whole" /\ Valid("old") -> "back"
    [] ~Valid("brain") /\ journal # "whole" /\ ~Valid("old") /\ Valid("new") -> "forward"
    [] ~Valid("brain") /\ journal # "whole" /\ ~Valid("old") /\ ~Valid("new") -> "boot"

Recover ==
  /\ pc = "recover"
  /\ Goto(Plan)
  /\ UNCHANGED <<dir, journal, booted>>
  /\ KeepUsers

\* rm(d) of recovery: goes on whether it works or not.  (brain.old goes before
\* brain.new here; without a journal the code has it the other way round.)
RecoveryRemove(place, n, next) ==
  /\ pc = place
  /\ \/ Goto(next) /\ dir' = Removed(n, "none")
     \/ Goto(next) /\ dir' = dir
     \/ pc' \in {pc, next} /\ \E st \in Remnants(n) : dir' = Removed(n, st)
  /\ UNCHANGED <<journal, booted>>
  /\ KeepUsers

\* renameSync onto brain/: init throws when something is still there.  (One that
\* fails for another reason is like a kill before it: see Crash.)
RecoveryMove(place, from, next) ==
  /\ pc = place
  /\ IF dir["brain"].st = "none"
     THEN dir' = Moved(from, "brain") /\ Goto(next)
     ELSE dir' = dir /\ Goto("offline")
  /\ UNCHANGED <<journal, booted>>
  /\ KeepUsers

\* _clearJournal, and recovery's own unlink: a failure is passed over.
Cleared == {"none", journal}

\* Only a journal that was read is unlinked.
Unlink ==
  /\ pc = "unlink"
  /\ journal' \in IF journal = "whole" THEN Cleared ELSE {journal}
  /\ Goto("boot")
  /\ UNCHANGED <<dir, booted>>
  /\ KeepUsers

\* Opening a directory that is not a store makes it an empty one.  What recovery
\* may have left in brain was settled before it began: what the users had or,
\* when rename#1 had been made and rename#2 had not, the snapshot.
Boot ==
  /\ pc = "boot"
  /\ Goto("open")
  /\ IF Valid("brain") THEN UNCHANGED <<dir, booted>>
     ELSE /\ dir' = [dir EXCEPT !["brain"] = Whole({})]
          /\ booted' = booted + 1
  /\ had' = IF dir'["brain"].data \in offered THEN dir'["brain"].data ELSE had
  /\ offered' = {}
  /\ UNCHANGED <<journal, snaps, target, swapper, swapping, pend, acked>>

Recovery ==
  \/ Recover \/ Unlink \/ Boot
  \/ RecoveryRemove("forward", "brain", "forwardMove")
  \/ RecoveryMove("forwardMove", "new", "tidyOld")
  \/ RecoveryRemove("back", "brain", "backMove")
  \/ RecoveryMove("backMove", "old", "tidyNew")
  \/ RecoveryRemove("tidyOld", "old", "tidyNew")
  \/ RecoveryRemove("tidyNew", "new", "unlink")

-----------------------------------------------------------------------------
(* Users *)

Ensure == pc \notin {"down", "offline"} \union RecoveryPlaces /\ ~swapping

StartWrite(c, w) ==
  /\ Ensure
  /\ c # swapper
  /\ pend[c] = {}
  /\ w \notin acked \union UNION {pend[b] : b \in Callers}
  /\ pend' = [pend EXCEPT ![c] = {w}]
  /\ UNCHANGED <<dir, journal, snaps, target, pc, swapper, swapping, acked, booted, had,
                 offered>>

\* The statement runs if there is an open store to run on, and fails if not.
FinishWrite(c) ==
  /\ pend[c] # {}
  /\ pend' = [pend EXCEPT ![c] = {}]
  /\ IF DbOpen
     THEN /\ dir' = [dir EXCEPT !["brain"].data = @ \union pend[c]]
          /\ acked' = acked \union pend[c]
          /\ had' = had \union pend[c]
     ELSE UNCHANGED <<dir, acked, had>>
  /\ UNCHANGED <<journal, snaps, target, pc, swapper, swapping, booted, offered>>

Snapshot(c) ==
  /\ Ensure
  /\ DbOpen
  /\ c # swapper
  /\ pend[c] = {}
  /\ Cardinality(snaps) < MaxSnaps
  /\ snaps' = snaps \union {dir["brain"].data}
  /\ UNCHANGED <<dir, journal, target, pc, swapper, swapping, pend, acked, booted, had,
                 offered>>

-----------------------------------------------------------------------------
(* _rollbackReplace *)

\* Slip: the pre-action snapshot forgotten.
NoSafetyNet_Bug == snaps

\* The safety snapshot; its dump is taken here, its file written later.
SafetyNet == snaps \union {dir["brain"].data}

StartReplace(c, s) ==
  /\ pc = "open" /\ ~swapping
  /\ pend[c] = {}
  /\ snaps' = SafetyNet
  /\ target' = s
  /\ swapper' = c
  /\ Goto("safety")
  /\ UNCHANGED <<dir, journal, swapping, pend, acked, booted, had, offered>>

KeepCall == UNCHANGED <<snaps, target, swapper, swapping, pend, acked, booted>>

KeepSwap == KeepCall /\ UNCHANGED <<had, offered>>

\* Slip: the flag is not reset on every way out.
FlagLeft_Bug(place) ==
  Goto(place) /\ swapping' = (place = "offline") /\ swapper' = None /\ target' = {}

\* The finally: the rollback returns or throws, and users are let in again.
Ended(place) ==
  Goto(place) /\ swapping' = FALSE /\ swapper' = None /\ target' = {}

KeepData == UNCHANGED <<snaps, pend, acked, booted, had, offered>>

BlockUsers ==
  /\ pc = "safety"
  /\ swapping' = TRUE
  /\ Goto("rmNew")
  /\ UNCHANGED <<dir, journal, snaps, target, swapper, pend, acked, booted, had, offered>>

\* _rmDir: to the end, or (still at it) some of the way.
SwapRemove(place, n, next) ==
  /\ pc = place
  /\ \/ Goto(next) /\ dir' = Removed(n, "none")
     \/ Goto(pc) /\ \E st \in Remnants(n) : dir' = Removed(n, st)
  /\ UNCHANGED journal
  /\ KeepSwap

\* What the load leaves in brain.new once SELECT 1, the schema and the probe
\* of the vector extension have passed.
Verified == {Whole(target)}

\* The snapshot is loaded into brain.new, verified and closed.
Load ==
  /\ pc = "load"
  /\ \/ Goto("journal") /\ \E store \in Verified : dir' = [dir EXCEPT !["new"] = store]
     \/ Goto(pc) /\ \E st \in {"bare", "torn"} : dir' = [dir EXCEPT !["new"].st = st]
  /\ UNCHANGED journal
  /\ KeepSwap

Written == "whole"

\* The journal is truncated, written, fsynced; then the store is closed.
Journal ==
  /\ pc = "journal"
  /\ \/ journal' = "torn" /\ Goto(pc)
     \/ journal' = Written /\ Goto("rename1")
  /\ UNCHANGED dir
  /\ KeepSwap

\* Anything up to here may throw: the live store goes on, brain.new is removed
\* if the load was at fault and stays otherwise, as does a half-written journal.
Abort ==
  /\ pc \in {"rmNew", "rmOld", "load", "journal"}
  /\ dir' \in IF pc = "load" THEN {Removed("new", "none"), dir} ELSE {dir}
  /\ Ended("open")
  /\ UNCHANGED journal
  /\ KeepData

\* rename#1 moves the live store aside, or fails and leaves it.  The close
\* before it may throw as well, and the handle is then unusable.
Rename1 ==
  /\ pc = "rename1"
  /\ UNCHANGED journal
  /\ \/ /\ dir' = Moved("brain", "old") /\ Goto("rename2")
        /\ offered' = {target} /\ had' = had /\ KeepCall
     \/ dir' = dir /\ Goto("undo") /\ KeepSwap
     \/ dir' = dir /\ Ended("offline") /\ KeepData

\* rename#1 was blocked: clear the journal, drop brain.new at best effort,
\* reopen brain (which may fail).
Undo ==
  /\ pc = "undo"
  /\ journal' \in Cleared
  /\ dir' \in {dir} \union {Removed("new", st) : st \in Remnants("new") \union {"none"}}
  /\ Ended("open") \/ Ended("offline")
  /\ KeepData

\* rename#2 puts the snapshot in place, or fails: the handle is unusable until
\* the next init.
Rename2 ==
  /\ pc = "rename2"
  /\ UNCHANGED journal
  /\ \/ /\ dir' = Moved("new", "brain") /\ Goto("clear")
        /\ had' = target /\ offered' = {} /\ KeepCall
     \/ dir' = dir /\ Ended("offline") /\ KeepData

Clear ==
  /\ pc = "clear"
  /\ journal' \in Cleared
  /\ Goto("reopen")
  /\ UNCHANGED dir
  /\ KeepSwap

ReopenBrain ==
  /\ pc = "reopen"
  /\ UNCHANGED <<dir, journal>>
  /\ \/ Goto("cleanup") /\ KeepSwap
     \/ Ended("offline") /\ KeepData

\* brain.old is removed; when that fails the rollback throws, the swap done.
Cleanup ==
  /\ pc = "cleanup"
  /\ UNCHANGED journal
  /\ \/ dir' \in {dir, Removed("old", "none")} /\ Ended("open") /\ KeepData
     \/ Goto(pc) /\ (\E st \in Remnants("old") : dir' = Removed("old", st)) /\ KeepSwap

Swap ==
  \/ BlockUsers
  \/ SwapRemove("rmNew", "new", "rmOld")
  \/ SwapRemove("rmOld", "old", "load")
  \/ Load \/ Journal \/ Abort \/ Rename1 \/ Undo \/ Rename2 \/ Clear \/ ReopenBrain \/ Cleanup

-----------------------------------------------------------------------------
(* The outside world *)

Crash ==
  /\ pc # "down"
  /\ Goto("down")
  /\ swapping' = FALSE
  /\ swapper' = None
  /\ target' = {}
  /\ pend' = [c \in Callers |-> {}]
  /\ UNCHANGED <<dir, journal, snaps, acked, booted, had, offered>>

\* A journal that does not come back: power loss, quarantine, a copy tool that
\* skips dotfiles.
JournalLost ==
  /\ pc = "down"
  /\ journal' \in {"none", "torn"}
  /\ UNCHANGED <<dir, pc, booted>>
  /\ KeepUsers

Init ==
  /\ dir = [n \in Names |-> Gone]
  /\ journal = "none"
  /\ snaps = {}
  /\ target = {}
  /\ pc = "down"
  /\ swapper = None
  /\ swapping = FALSE
  /\ pend = [c \in Callers |-> {}]
  /\ acked = {}
  /\ booted = 0
  /\ had = {}
  /\ offered = {}

Next ==
  \/ InitStart \/ Recovery \/ Swap \/ Crash \/ JournalLost
  \/ \E c \in Callers, w \in Writes : StartWrite(c, w)
  \/ \E c \in Callers :
       \/ FinishWrite(c) \/ Snapshot(c)
       \/ \E s \in snaps : StartReplace(c, s)

Spec == Init /\ [][Next]_vars

\* A process that is not killed goes on with what it is doing (a removal or a
\* load ends), and the host opens a brain that is not open.
Fairness ==
  /\ WF_vars((InitStart \/ Recovery) /\ pc' # pc)
  /\ WF_vars(Swap /\ pc' # pc)

FairSpec == Spec /\ Fairness

-----------------------------------------------------------------------------
(* Properties *)

\* Every variable keeps its shape.
TypeOK ==
  /\ dir \in [Names -> Stores]
  /\ journal \in {"none", "torn", "whole"}
  /\ snaps \subseteq SUBSET Writes
  /\ target \subseteq Writes
  /\ pc \in Places
  /\ swapper \in Callers \union {None}
  /\ swapping \in BOOLEAN
  /\ pend \in [Callers -> SUBSET Writes]
  /\ acked \subseteq Writes
  /\ booted \in Nat
  /\ had \subseteq Writes
  /\ offered \subseteq SUBSET Writes

\* init bootstraps an empty brain once in the life of a data directory, and
\* never over recoverable data, wherever the process was killed.
NeverEmptyAgain == booted <= 1

\* A brain that is open, or about to be, is a whole store: recovery never
\* settles for the remains of a removed or half-loaded one.
OpensWhole == DbOpen => dir["brain"].st = "whole"

\* A write that was reported as done is in the brain, or in a store or snapshot
\* from which it can be had back.
NoWriteLost ==
  \A w \in acked :
    \/ \E n \in Names : dir[n].st = "whole" /\ w \in dir[n].data
    \/ \E s \in snaps : w \in s

\* A replace is all or nothing, however it or its recovery was cut short.  Until
\* the live store has been moved aside the brain that opens has exactly what its
\* users had; after rename#2 it has exactly the snapshot; and in between it comes
\* back as one of the two, to stay so.  It is never an empty store, a mixture, or
\* what an earlier replace left behind.
AllOrNothing == DbOpen => dir["brain"].data = had

\* Users are not locked out for good by a rollback, however it ends.
SwapEnds == swapping ~> ~swapping

\* Unless it keeps being killed, a brain that is down comes back: recovery
\* always finds a way.
ComesBack == <>[][~Crash]_vars => (pc = "down" ~> pc = "open")

=============================================================================
