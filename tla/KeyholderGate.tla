----------------------------- MODULE KeyholderGate -----------------------------
(***************************************************************************)
(* The trust anchor of importBrain: the pins of table keyholders (key,     *)
(* the stamp of the newest export accepted and the signature accepted      *)
(* last), the checks a soul passes before a row is applied, and the        *)
(* explicit transaction around pin and rows.                               *)
(*                                                                         *)
(* Peers export souls, stamped in whole seconds of their own clocks, and   *)
(* change keys; souls arrive late, repeatedly and in any order.  A soul's  *)
(* rows are one thing.  Calls that run while an import is at it share its  *)
(* connection, and so its transaction.  The bowl's own souls and unsigned  *)
(* ones leave the pins alone and are left out, and so is the flag trusted, *)
(* on which nothing here depends.                                          *)
(***************************************************************************)
EXTENDS Integers, FiniteSets

CONSTANTS
  Peers,        \* substrate identities of other bowls
  Keys,         \* signing keys (public halves)
  Importers,    \* concurrent importBrain calls
  Skew,         \* REPLAY_FUTURE_SKEW_MS
  MidImport,    \* may pins be made and forgotten while an import is running?
  MaxTime,      \* bound on clocks
  MaxPerSecond, \* bound on a peer's souls with the same stamp
  None          \* no soul

ASSUME GateAssumption ==
  /\ Skew \in Nat
  /\ MaxTime \in Nat \ {0}
  /\ MaxPerSecond \in Nat
  /\ MidImport \in BOOLEAN
  /\ Keys # {}

VARIABLES
  brain,        \* keyholders and the souls whose rows are in: as statements see them
  txn,          \* is an explicit transaction open?
  saved,        \* brain as it was at BEGIN: what a ROLLBACK or a crash leaves
  now,          \* this bowl's clock
  clock,        \* each peer's clock
  key,          \* each peer's signing key
  souls,        \* souls exported
  pend,         \* each importer's soul, overrides, place, and the pin it read
  taken,        \* souls imported from a pinned peer, without an override
  twice,        \* those of them that were imported so again
  rotated       \* peers whose pin has changed key

vars == <<brain, txn, saved, now, clock, key, souls, pend, taken, twice, rotated>>

-----------------------------------------------------------------------------
(* Souls and pins *)

Times == 1..MaxTime
Souls == [peer: Peers, key: Keys, at: Times, no: 1..MaxPerSecond]

\* last_exported_at: 0 when NULL, as pinKeyholder leaves it.
Pins == [pinned: BOOLEAN, key: Keys, high: 0..MaxTime, last: Souls \union {None}]

Pinned(k, high, last) == [pinned |-> TRUE, key |-> k, high |-> high, last |-> last]

SomeKey == CHOOSE k \in Keys : TRUE
Unknown == [pinned |-> FALSE, key |-> SomeKey, high |-> 0, last |-> None]

Blank == [known |-> [q \in Peers |-> Unknown], applied |-> {}]
Brains == [known: [Peers -> Pins], applied: SUBSET Souls]

\* The brain b with this pin of peer q.
WithPin(b, q, pin) == [known |-> [b.known EXCEPT ![q] = pin], applied |-> b.applied]

\* replay: allow_replay; change: accept_key_change.
Overrides == [replay: BOOLEAN, change: BOOLEAN]
Plain == [replay |-> FALSE, change |-> FALSE]

\* The steps of an import; the soul is None when there is none.
Places == {"idle", "lookup", "gate", "rows", "commit", "rollback"}
Idle == [at |-> "idle", soul |-> None, over |-> Plain, pin |-> Unknown]

Imports == [at: Places, soul: Souls \union {None}, over: Overrides, pin: Pins]

\* An import that moves on, and one that has read its pin.
Going(p, at) == [p EXCEPT !.at = at]
Read(p, at, pin) == [at |-> at, soul |-> p.soul, over |-> p.over, pin |-> pin]

\* What is on disk.
Committed == IF txn THEN saved ELSE brain

TooFarAhead(s) == s.at > now + Skew
IsOlder(pin, s) == pin.high # 0 /\ s.at < pin.high
IsExactReconsume(pin, s) == pin.last = s

\* Slip: the exact soul is not recognised.
Replay_Bug(pin, s) == IsOlder(pin, s)

Replay(pin, s) == IsOlder(pin, s) \/ IsExactReconsume(pin, s)

\* Slip: a stamp equal to the high-water counts as older.
Refused_Bug(pin, s, over) ==
  /\ pin.pinned
  /\ IF pin.key = s.key THEN s.at <= pin.high /\ ~over.replay ELSE ~over.change

Refused(pin, s, over) ==
  /\ pin.pinned
  /\ IF pin.key = s.key THEN Replay(pin, s) /\ ~over.replay ELSE ~over.change

-----------------------------------------------------------------------------
(* importBrain *)

Keep == UNCHANGED <<now, clock, key, souls>>

\* The signature verifies; the soul is checked against the clock only inside
\* the transaction.  BEGIN in a transaction does nothing.
Start(i, s, over) ==
  /\ pend[i] = Idle
  /\ pend' = [pend EXCEPT ![i] = [at |-> "lookup", soul |-> s, over |-> over, pin |-> Unknown]]
  /\ txn' = TRUE
  /\ saved' = Committed
  /\ UNCHANGED <<brain, taken, twice, rotated>>
  /\ Keep

Lookup(i) ==
  /\ pend[i].at = "lookup"
  /\ pend' = [pend EXCEPT ![i] = Read(@, IF TooFarAhead(@.soul) THEN "rollback" ELSE "gate",
                                       brain.known[@.soul.peer])]
  /\ UNCHANGED <<brain, txn, saved, taken, twice, rotated>>
  /\ Keep

\* First contact: INSERT ... ON CONFLICT DO NOTHING.
Contact(cur, s) ==
  IF cur.pinned THEN cur ELSE Pinned(s.key, s.at, s)

\* A return visit: high-water and signature advance together, and only forward
\* of the pin as it was read.
Return(cur, pin, s) ==
  IF cur.pinned /\ (pin.high = 0 \/ s.at > pin.high) THEN Pinned(cur.key, s.at, s) ELSE cur

\* Slip: a rotation re-baselines the high-water on the incoming soul.
Rotated_Bug(cur, pin, s) ==
  IF cur.pinned THEN Pinned(s.key, s.at, s) ELSE cur

Rotated(cur, pin, s) ==
  IF cur.pinned THEN Pinned(s.key, IF pin.high >= s.at THEN pin.high ELSE s.at, s) ELSE cur

Repinned(cur, pin, s) ==
  CASE ~pin.pinned -> Contact(cur, s)
    [] pin.pinned /\ pin.key = s.key -> Return(cur, pin, s)
    [] OTHER -> Rotated(cur, pin, s)

\* The pin is judged as it was read, and written by identity.
Gate(i) ==
  LET p == pend[i] IN
  /\ p.at = "gate"
  /\ IF Refused(p.pin, p.soul, p.over)
     THEN pend' = [pend EXCEPT ![i] = Going(p, "rollback")] /\ UNCHANGED brain
     ELSE /\ brain' = WithPin(brain, p.soul.peer,
                              Repinned(brain.known[p.soul.peer], p.pin, p.soul))
          /\ pend' = [pend EXCEPT ![i] = Going(p, "rows")]
  /\ rotated' = rotated \union (IF p.pin.pinned /\ p.pin.key # p.soul.key THEN {p.soul.peer} ELSE {})
  /\ UNCHANGED <<txn, saved, taken, twice>>
  /\ Keep

ApplyRows(i) ==
  /\ pend[i].at = "rows"
  /\ brain' = [brain EXCEPT !.applied = @ \union {pend[i].soul}]
  /\ pend' = [pend EXCEPT ![i] = Going(@, "commit")]
  /\ UNCHANGED <<txn, saved, taken, twice, rotated>>
  /\ Keep

\* A malformed row or brain_meta.
RowsFail(i) ==
  /\ pend[i].at \in {"rows", "commit"}
  /\ pend' = [pend EXCEPT ![i] = Going(@, "rollback")]
  /\ UNCHANGED <<brain, txn, saved, taken, twice, rotated>>
  /\ Keep

\* Taken without an override: the replay check was in force.
Guarded(p) == p.pin.pinned /\ p.pin.key = p.soul.key /\ ~p.over.replay

Commit(i) ==
  LET p == pend[i]
      again == Guarded(p) /\ p.soul \in taken
  IN
  /\ p.at = "commit"
  /\ txn' = FALSE
  /\ saved' = Blank
  /\ taken' = taken \union {p.soul}
  /\ twice' = twice \union (IF again THEN {p.soul} ELSE {})
  /\ pend' = [pend EXCEPT ![i] = Idle]
  /\ UNCHANGED <<brain, rotated>>
  /\ Keep

\* Slip: the pin survives the rollback of the rows.
Undone_Bug == [Committed EXCEPT !.known = brain.known]

Undone == Committed

Rollback(i) ==
  /\ pend[i].at = "rollback"
  /\ brain' = Undone
  /\ txn' = FALSE
  /\ saved' = Blank
  /\ pend' = [pend EXCEPT ![i] = Idle]
  /\ UNCHANGED <<taken, twice, rotated>>
  /\ Keep

Import(i) ==
  Lookup(i) \/ Gate(i) \/ ApplyRows(i) \/ RowsFail(i) \/ Commit(i) \/ Rollback(i)

-----------------------------------------------------------------------------
(* Other calls: one statement each *)

\* setKeyholderTrust and listKeyholders touch nothing that is modelled.
Undisturbed == MidImport \/ \A i \in Importers : pend[i] = Idle

\* Forgotten: what was taken from the peer counts as never taken.
Forget(q) ==
  /\ Undisturbed
  /\ brain' = WithPin(brain, q, Unknown)
  /\ taken' = {s \in taken : s.peer # q}
  /\ UNCHANGED <<txn, saved, pend, twice, rotated>>
  /\ Keep

\* pinKeyholder: the stamps of a pin that is there stay.
PinOutOfBand(q, k) ==
  /\ Undisturbed
  /\ brain' = WithPin(brain, q, Pinned(k, brain.known[q].high, brain.known[q].last))
  /\ rotated' = rotated \union (IF brain.known[q].pinned /\ brain.known[q].key # k THEN {q} ELSE {})
  /\ UNCHANGED <<txn, saved, pend, taken, twice>>
  /\ Keep

\* The process dies and comes back.
Crash ==
  /\ brain' = Committed
  /\ txn' = FALSE
  /\ saved' = Blank
  /\ pend' = [i \in Importers |-> Idle]
  /\ UNCHANGED <<taken, twice, rotated>>
  /\ Keep

-----------------------------------------------------------------------------
(* Peers and clocks *)

KeepBrain == UNCHANGED <<brain, txn, saved, pend, taken, twice, rotated>>

Tick ==
  /\ now < MaxTime
  /\ now' = now + 1
  /\ KeepBrain
  /\ UNCHANGED <<clock, key, souls>>

\* Clocks of peers may be ahead or behind, and never go back.
PeerTick(q) ==
  /\ clock[q] < MaxTime
  /\ clock' = [clock EXCEPT ![q] = @ + 1]
  /\ KeepBrain
  /\ UNCHANGED <<now, key, souls>>

Export(q) ==
  LET before == {s \in souls : s.peer = q /\ s.at = clock[q]} IN
  /\ Cardinality(before) < MaxPerSecond
  /\ souls' = souls \union {[peer |-> q, key |-> key[q], at |-> clock[q],
                            no |-> Cardinality(before) + 1]}
  /\ KeepBrain
  /\ UNCHANGED <<now, clock, key>>

NewKey(q, k) ==
  /\ key' = [key EXCEPT ![q] = k]
  /\ KeepBrain
  /\ UNCHANGED <<now, clock, souls>>

Init ==
  /\ brain = Blank
  /\ saved = Blank
  /\ txn = FALSE
  /\ now = 1
  /\ clock = [q \in Peers |-> 1]
  /\ key = [q \in Peers |-> SomeKey]
  /\ souls = {}
  /\ pend = [i \in Importers |-> Idle]
  /\ taken = {}
  /\ twice = {}
  /\ rotated = {}

Next ==
  \/ \E i \in Importers : Import(i) \/ \E s \in souls, over \in Overrides : Start(i, s, over)
  \/ \E q \in Peers :
       \/ Forget(q) \/ PeerTick(q) \/ Export(q)
       \/ \E k \in Keys : PinOutOfBand(q, k) \/ NewKey(q, k)
  \/ Crash \/ Tick

Spec == Init /\ [][Next]_vars

-----------------------------------------------------------------------------
(* Properties *)

\* Every variable keeps its shape.
TypeOK ==
  /\ brain \in Brains /\ saved \in Brains
  /\ txn \in BOOLEAN
  /\ now \in Times
  /\ clock \in [Peers -> Times]
  /\ key \in [Peers -> Keys]
  /\ souls \subseteq Souls /\ taken \subseteq Souls /\ twice \subseteq Souls
  /\ rotated \subseteq Peers
  /\ pend \in [Importers -> Imports]

\* The high-water is monotonic: while a peer stays pinned no import, rotation,
\* failure or crash moves the stamp on disk backward.
HighWaterRises ==
  [][\A q \in Peers :
       LET before == Committed.known[q]
           after == Committed'.known[q]
       IN before.pinned /\ after.pinned => after.high >= before.high]_vars

\* No stamp seeds a high-water further ahead than the skew, which would lock out
\* what the peer exports until then.
HighWaterNotAhead == \A q \in Peers : Committed.known[q].high <= now + Skew

\* The soul a pin on disk names as last accepted has its rows on disk: the
\* high-water never moves on an import that failed.
HighWaterMeansApplied ==
  \A q \in Peers : Committed.known[q].last \in Committed.applied \union {None}

\* While a peer keeps its pinned key, no soul of it comes in twice unless an
\* override asks for it.
SoulOnce == \A s \in twice : s.peer \in rotated

\* The newest export of a peer, under the key that is pinned, is refused only
\* when it is the one accepted last.
NewestIsWelcome ==
  \A i \in Importers :
    LET p == pend[i]
        newer == {s \in souls : s.peer = p.soul.peer /\ s.at > p.soul.at}
    IN p.at = "gate" /\ p.pin.key = p.soul.key /\ newer = {} /\ Refused(p.pin, p.soul, p.over)
         => p.pin.last = p.soul

=============================================================================
