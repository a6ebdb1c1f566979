----------------------------- MODULE InstanceArmor -----------------------------
(***************************************************************************)
(* The armor around the one PGlite instance: _guardedCall, the canary,     *)
(* _reopen with its single-flight promise, _rawTxnDepth, and the explicit  *)
(* transaction of an import (BEGIN, statements, COMMIT or ROLLBACK), run   *)
(* by several callers over one connection.                                 *)
(*                                                                         *)
(* A running statement may break the instance: "dead", and every statement *)
(* on it throws, or "silent", and every statement on it returns no rows.   *)
(* A statement that breaks the instance, or runs on a silent one, may or   *)
(* may not have taken effect.  A statement and the bookkeeping that        *)
(* follows it are one step; canary, waits and retries are steps of their   *)
(* own.                                                                    *)
(***************************************************************************)
EXTENDS Naturals

CONSTANTS
  Users,      \* concurrent users of the module's one connection
  Modes,        \* how an instance may break, among "dead" and "silent"
  MaxBreaks     \* bound on the times it does

ASSUME ArmorAssumption ==
  /\ Modes \subseteq {"dead", "silent"}
  /\ MaxBreaks \in Nat

VARIABLES
  db,           \* the data directory, and the transaction open over it
  health,       \* of the instance that _db is
  depth,        \* _rawTxnDepth
  reopening,    \* _reopenPromise: "no", "closing" the old, "schema" on the new
  call,         \* the statement each caller is in
  breaks,       \* how often an instance broke
  confirmed     \* were the empty answers that a canary confirmed true?

armorVars == <<db, health, depth, reopening, call, breaks, confirmed>>

-----------------------------------------------------------------------------
(* Statements *)

\* A read, a write, or an import: BEGIN, a row, a look-up, a row, COMMIT.
Steps == {"read", "write", "begin", "put1", "look", "put2", "commit", "rollback"}
Rows == {"write", "put1", "put2"}
Reads == {"read", "look"}
Ends == {"commit", "rollback"}

Dbs == [store: SUBSET Rows, open: BOOLEAN, rows: SUBSET Rows]

Visible == db.store \union db.rows

\* BEGIN in a transaction and COMMIT or ROLLBACK outside one do nothing.
Executed(step) ==
  CASE step \in Reads -> db
    [] step \in Rows -> IF db.open THEN [db EXCEPT !.rows = @ \union {step}]
                        ELSE [db EXCEPT !.store = @ \union {step}]
    [] step = "begin" -> [db EXCEPT !.open = TRUE]
    [] step = "commit" -> [store |-> Visible, open |-> FALSE, rows |-> {}]
    [] step = "rollback" -> [db EXCEPT !.open = FALSE, !.rows = {}]

Counted(step) ==
  CASE step = "begin" -> depth + 1
    [] step \in Ends -> IF depth = 0 THEN 0 ELSE depth - 1
    [] OTHER -> depth

Phases == {"idle", "run", "canary", "awaitCanary", "checked", "awaitDeath", "caught",
           "retryCanary", "retryDeath", "thrown"}

\* live: bound to the instance that _db still is.  true: an empty answer was.
Calls == [step: Steps \union {"none"}, at: Phases, live: BOOLEAN, inTxn: BOOLEAN, true: BOOLEAN]

Idle == [step |-> "none", at |-> "idle", live |-> FALSE, inTxn |-> FALSE, true |-> TRUE]

\* A statement is bound to the instance that _db is when it is made.
Bound(step) == [step |-> step, at |-> "run", live |-> TRUE, inTxn |-> FALSE, true |-> TRUE]

\* What a caller does after a statement: an import goes on, or rolls back when
\* a statement after its BEGIN threw.
Following(step, ok) ==
  CASE step = "begin" /\ ok -> "put1"
    [] step = "put1" /\ ok -> "look"
    [] step = "look" /\ ok -> "put2"
    [] step = "put2" /\ ok -> "commit"
    [] step \in {"put1", "look", "put2", "commit"} /\ ~ok -> "rollback"
    [] OTHER -> "none"

Return(c, ok) ==
  LET next == Following(call[c].step, ok)
  IN call' = [call EXCEPT ![c] = IF next = "none" THEN Idle ELSE Bound(next)]

Start(c, step) ==
  /\ call[c] = Idle
  /\ call' = [call EXCEPT ![c] = Bound(step)]
  /\ UNCHANGED <<db, health, depth, reopening, breaks, confirmed>>

-----------------------------------------------------------------------------
(* _guardedCall *)

\* _reopen: the first to call it starts it, later ones wait for the same one.
JoinReopen == reopening' = IF reopening = "no" THEN "closing" ELSE reopening

Died(c) ==
  /\ call' = [call EXCEPT ![c].at = "awaitDeath", ![c].inTxn = depth > 0]
  /\ JoinReopen
  /\ UNCHANGED <<depth, confirmed>>

\* A result came back: reads without rows go to the canary.
Answered(c, empty) ==
  /\ depth' = Counted(call[c].step)
  /\ UNCHANGED <<reopening, confirmed>>
  /\ IF call[c].step \in Reads /\ empty
     THEN call' = [call EXCEPT ![c].at = "canary", ![c].true = (Visible = {})]
     ELSE Return(c, TRUE)

Threw(c) == Return(c, FALSE) /\ UNCHANGED <<depth, reopening, confirmed>>

Sound(c) ==
  /\ call[c].live /\ health = "ok"
  /\ db' = Executed(call[c].step)
  /\ Answered(c, Visible = {})
  /\ UNCHANGED <<health, breaks>>

\* What a statement that broke, or ran on, an instance in this mode looks like.
Failed(c, mode) ==
  \/ mode = "dead" /\ Died(c)
  \/ mode = "silent" /\ Answered(c, TRUE)

Break(c, mode) ==
  /\ call[c].live /\ health = "ok" /\ breaks < MaxBreaks
  /\ health' = mode
  /\ breaks' = breaks + 1
  /\ db' \in {db, Executed(call[c].step)}
  /\ Failed(c, mode)

OnBroken(c) ==
  /\ call[c].live /\ health # "ok"
  /\ db' \in IF health = "dead" THEN {db} ELSE {db, Executed(call[c].step)}
  /\ Failed(c, health)
  /\ UNCHANGED <<health, breaks>>

\* The instance has been replaced since: it is closed, or was abandoned broken.
OnReplaced(c) ==
  /\ ~call[c].live
  /\ Threw(c) \/ Died(c) \/ Answered(c, TRUE)
  /\ UNCHANGED <<db, health, breaks>>

Run(c) ==
  /\ call[c].at = "run"
  /\ \/ Sound(c) \/ OnBroken(c) \/ OnReplaced(c)
     \/ \E mode \in Modes : Break(c, mode)

\* Slip: the canary goes to whatever instance _db is by now.
Alive_Bug(c) == health = "ok"

\* SELECT 1 on the instance the read ran on.
Alive(c) == call[c].live /\ health = "ok"

Canary(c) ==
  /\ call[c].at = "canary"
  /\ IF Alive(c)
     THEN /\ Return(c, TRUE)
          /\ confirmed' = confirmed \union {call[c].true}
          /\ UNCHANGED reopening
     ELSE /\ call' = [call EXCEPT ![c].at = "awaitCanary"]
          /\ JoinReopen
          /\ UNCHANGED confirmed
  /\ UNCHANGED <<db, health, depth, breaks>>

Retry(c, at) == call' = [call EXCEPT ![c].at = at, ![c].live = TRUE]

\* After the reopen: a read is tried again on the raw handle at depth 0.
Checked(c) ==
  /\ call[c].at = "checked"
  /\ depth' = 0
  /\ IF depth = 0 THEN Retry(c, "retryCanary") ELSE Return(c, FALSE)
  /\ UNCHANGED <<db, health, reopening, breaks, confirmed>>

Caught(c) ==
  /\ call[c].at = "caught"
  /\ IF ~call[c].inTxn /\ call[c].step \notin {"begin"} \union Ends
     THEN Retry(c, "retryDeath") ELSE Return(c, FALSE)
  /\ UNCHANGED <<db, health, depth, reopening, breaks, confirmed>>

Thrown(c) ==
  /\ call[c].at = "thrown"
  /\ Threw(c)
  /\ UNCHANGED <<db, health, breaks>>

\* The retry is raw: nobody looks at what comes back, and only the one after a
\* canary is still inside the try.
RetryDied(c) == IF call[c].at = "retryCanary" THEN Died(c) ELSE Threw(c)

RetryAnswered(c) == Return(c, TRUE) /\ UNCHANGED <<depth, reopening, confirmed>>

RunRetry(c) ==
  /\ call[c].at \in {"retryCanary", "retryDeath"}
  /\ \/ /\ call[c].live /\ health # "dead"
        /\ db' \in IF health = "ok" THEN {Executed(call[c].step)}
                   ELSE {db, Executed(call[c].step)}
        /\ RetryAnswered(c)
        /\ UNCHANGED <<health, breaks>>
     \/ /\ call[c].live /\ health = "dead"
        /\ RetryDied(c)
        /\ UNCHANGED <<db, health, breaks>>
     \/ /\ call[c].live /\ health = "ok" /\ breaks < MaxBreaks
        /\ \E mode \in Modes :
             /\ health' = mode
             /\ IF mode = "dead" THEN RetryDied(c) ELSE RetryAnswered(c)
        /\ breaks' = breaks + 1
        /\ db' \in {db, Executed(call[c].step)}
     \/ /\ ~call[c].live
        /\ RetryDied(c) \/ RetryAnswered(c) \/ Threw(c)
        /\ UNCHANGED <<db, health, breaks>>

Guarded(c) == Run(c) \/ Canary(c) \/ Checked(c) \/ Caught(c) \/ Thrown(c) \/ RunRetry(c)

-----------------------------------------------------------------------------
(* _reopen *)

\* The old instance is closed, or given two seconds and abandoned; _db is
\* another one over the same directory, and an open transaction is gone.
NewInstance ==
  /\ reopening = "closing"
  /\ reopening' = "schema"
  /\ call' = [c \in Users |-> [call[c] EXCEPT !.live = FALSE]]
  /\ health' = "ok"
  /\ db' = [db EXCEPT !.open = FALSE, !.rows = {}]
  /\ UNCHANGED <<depth, breaks, confirmed>>

\* Slip: errors of _applySchema swallowed.
SchemaApplies_Bug == TRUE

\* Other callers are on the new instance by now, and may have broken it.
SchemaApplies == health # "dead"

Reopened ==
  /\ reopening = "schema" /\ SchemaApplies
  /\ reopening' = "no"
  /\ depth' = 0
  /\ call' = [c \in Users |->
                CASE call[c].at = "awaitCanary" -> [call[c] EXCEPT !.at = "checked"]
                  [] call[c].at = "awaitDeath" -> [call[c] EXCEPT !.at = "caught"]
                  [] OTHER -> call[c]]
  /\ UNCHANGED <<db, health, breaks, confirmed>>

\* Slip: a reopen that fails is reported to those that wait in the catch only.
ReopenFails_Bug ==
  /\ reopening = "schema" /\ ~SchemaApplies
  /\ reopening' = "no"
  /\ call' = [c \in Users |-> IF call[c].at = "awaitDeath"
                               THEN [call[c] EXCEPT !.at = "thrown"] ELSE call[c]]
  /\ UNCHANGED <<db, health, depth, breaks, confirmed>>

\* The promise rejects with a WASM death.  A wait in the catch throws it; the
\* one after a canary is inside the try, so that it is caught there.
ReopenFails ==
  /\ reopening = "schema" /\ ~SchemaApplies
  /\ reopening' = IF \E c \in Users : call[c].at = "awaitCanary" THEN "closing" ELSE "no"
  /\ call' = [c \in Users |->
                CASE call[c].at = "awaitCanary" ->
                       [call[c] EXCEPT !.at = "awaitDeath", !.inTxn = depth > 0]
                  [] call[c].at = "awaitDeath" -> [call[c] EXCEPT !.at = "thrown"]
                  [] OTHER -> call[c]]
  /\ UNCHANGED <<db, health, depth, breaks, confirmed>>

Reopen == NewInstance \/ Reopened \/ ReopenFails

-----------------------------------------------------------------------------

ArmorInit ==
  /\ db \in {[store |-> s, open |-> FALSE, rows |-> {}] : s \in {{}, {"write"}}}
  /\ health = "ok"
  /\ depth = 0
  /\ reopening = "no"
  /\ call = [c \in Users |-> Idle]
  /\ breaks = 0
  /\ confirmed = {}

ArmorNext ==
  \/ Reopen
  \/ \E c \in Users :
       Guarded(c) \/ \E step \in {"read", "write", "begin"} : Start(c, step)

\* Promises settle: a statement on an instance, also on a broken one, ends, and
\* so does a reopen, which gives a hanging close two seconds.
ArmorFairness == WF_armorVars(Reopen) /\ \A c \in Users : WF_armorVars(Guarded(c))

ArmorSpec == ArmorInit /\ [][ArmorNext]_armorVars /\ ArmorFairness

-----------------------------------------------------------------------------
(* Properties *)

\* Every variable keeps its shape.
ArmorTypeOK ==
  /\ db \in Dbs
  /\ breaks \in Nat /\ depth \in Nat
  /\ health \in {"ok", "dead", "silent"}
  /\ reopening \in {"no", "closing", "schema"}
  /\ call \in [Users -> Calls]
  /\ confirmed \subseteq BOOLEAN

\* No lying: an empty answer that the canary let pass was the truth, also when
\* the instance has been replaced since the read.
NoFalseEmpty == FALSE \notin confirmed

\* No zombie: a call that met a dead instance goes on only when _db is another
\* one, whoever's failure started the reopen it waited for.
NoZombie == \A c \in Users : call[c].at = "caught" => ~call[c].live

\* Every call comes back: failures that share a reopen, or happen during one,
\* never wait for one another for ever.
CallsEnd == \A c \in Users : call[c].at # "idle" ~> call[c].at = "idle"

\* A statement of an explicit transaction is never retried: what the instance
\* did before it is gone, and what comes after would be committed alone.  A
\* canary that finds a silent instance breaks this: _reopen resets the depth.
NoRetryInTxn ==
  \A c \in Users : call[c].at \in {"retryCanary", "retryDeath"} =>
    call[c].step \notin {"put1", "look", "put2"}

=============================================================================
