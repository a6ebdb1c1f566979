------------------------- MODULE KeyholderGateProofs -------------------------
(***************************************************************************)
(* Proofs about KeyholderGate: what holds for any number of imports that   *)
(* share the connection, and what holds for one at a time, with no pin     *)
(* made or forgotten while it is running.                                  *)
(***************************************************************************)
EXTENDS KeyholderGate, TLAPS, FiniteSetTheorems

-----------------------------------------------------------------------------
(* Any number of imports.  A stamp that is kept is one of a soul that was     *)
(* exported, and was not too far ahead when it was looked at.                *)

PinTrue(pin, q) ==
  /\ pin \in Pins
  /\ pin.high <= now + Skew
  /\ pin.high = 0 \/ \E s \in souls : s.peer = q /\ s.at = pin.high

PinsTrue(b) == \A q \in Peers : PinTrue(b.known[q], q)

ImportTrue(p) ==
  /\ p.at # "idle" => p.soul \in souls /\ PinTrue(p.pin, p.soul.peer)
  /\ p.at = "gate" => p.soul.at <= now + Skew

GateInv ==
  /\ TypeOK /\ IsFiniteSet(souls)
  /\ PinsTrue(brain) /\ PinsTrue(saved)
  /\ \A i \in Importers : ImportTrue(pend[i])

LEMMA BlankTrue ==
  ASSUME now \in Nat
  PROVE  /\ SomeKey \in Keys /\ Unknown \in Pins /\ Unknown.high = 0
         /\ Blank \in Brains /\ PinsTrue(Blank)
         /\ Idle \in Imports /\ Idle.at = "idle"
<1>1. SomeKey \in Keys
  BY GateAssumption DEF SomeKey
<1>2. Unknown \in Pins /\ Unknown.high = 0
  BY <1>1, GateAssumption DEF Unknown, Pins
<1>3. Blank \in Brains /\ \A q \in Peers : Blank.known[q] = Unknown
  BY <1>2 DEF Blank, Brains
<1>4. PinsTrue(Blank)
  BY <1>2, <1>3, GateAssumption DEF PinsTrue, PinTrue
<1>5. Idle \in Imports /\ Idle.at = "idle"
  BY <1>2 DEF Idle, Imports, Places, Plain, Overrides
<1> QED BY <1>1, <1>2, <1>3, <1>4, <1>5

LEMMA SoulsType ==
  ASSUME TypeOK, NEW s \in souls
  PROVE  s \in Souls /\ s.peer \in Peers /\ s.key \in Keys /\ s.at \in Nat \ {0} /\ s.at \in 1 .. MaxTime
BY GateAssumption DEF TypeOK, Souls, Times

\* The pin that an accepted soul leaves.
LEMMA RepinnedTrue ==
  ASSUME TypeOK, NEW s \in souls, s.at <= now + Skew,
         NEW cur, PinTrue(cur, s.peer), NEW pin, PinTrue(pin, s.peer)
  PROVE  PinTrue(Repinned(cur, pin, s), s.peer)
<1>1. s \in Souls /\ s.key \in Keys /\ s.at \in 1 .. MaxTime /\ now \in Nat
  BY SoulsType DEF TypeOK, Times
<1>2. ASSUME NEW k \in Keys, NEW h \in {s.at, pin.high} PROVE PinTrue(Pinned(k, h, s), s.peer)
  BY <1>1, <1>2 DEF PinTrue, Pinned, Pins
<1>3. cur.key \in Keys
  BY DEF PinTrue, Pins
<1> QED BY <1>1, <1>2, <1>3 DEF Repinned, Contact, Return, Rotated

LEMMA WithPinTrue ==
  ASSUME NEW b \in Brains, PinsTrue(b), NEW q \in Peers, NEW pin, PinTrue(pin, q)
  PROVE  /\ WithPin(b, q, pin) \in Brains /\ PinsTrue(WithPin(b, q, pin))
         /\ WithPin(b, q, pin).known[q] = pin
         /\ \A r \in Peers \ {q} : WithPin(b, q, pin).known[r] = b.known[r]
         /\ WithPin(b, q, pin).applied = b.applied
BY DEF WithPin, Brains, PinsTrue, PinTrue

LEMMA GoingTrue ==
  ASSUME NEW p \in Imports, ImportTrue(p), p.at # "idle", NEW at \in Places \ {"gate", "idle"}
  PROVE  /\ Going(p, at) \in Imports /\ ImportTrue(Going(p, at))
         /\ Going(p, at).at = at /\ Going(p, at).soul = p.soul
         /\ Going(p, at).over = p.over /\ Going(p, at).pin = p.pin
BY DEF Going, Imports, ImportTrue

\* Nothing of this depends on anything but the clock and the souls.
LEMMA SameClock ==
  ASSUME UNCHANGED <<now, souls>>
  PROVE  /\ \A b : PinsTrue(b) => PinsTrue(b)'
         /\ \A p : ImportTrue(p) => ImportTrue(p)'
<1>1. \A pin, q : PinTrue(pin, q) => PinTrue(pin, q)'
  BY DEF PinTrue
<1>2. \A b : PinsTrue(b) => PinsTrue(b)'
  BY <1>1 DEF PinsTrue
<1>3. \A p : ImportTrue(p) => ImportTrue(p)'
  BY <1>1 DEF ImportTrue
<1> QED BY <1>2, <1>3

\* One import moves.
LEMMA ImportMoves ==
  ASSUME GateInv, NEW i \in Importers, NEW n, n \in Imports, ImportTrue(n),
         pend' = [pend EXCEPT ![i] = n]
  PROVE  /\ pend' \in [Importers -> Imports] /\ pend'[i] = n
         /\ \A j \in Importers \ {i} : pend'[j] = pend[j]
         /\ \A j \in Importers : ImportTrue(pend'[j])
BY DEF GateInv, TypeOK

\* A step of this bowl, as far as this invariant goes.
LEMMA BowlKeeps ==
  ASSUME GateInv, Keep,
         NEW b, b \in Brains, PinsTrue(b), brain' = b,
         NEW d, d \in Brains, PinsTrue(d), saved' = d,
         NEW f, f \in [Importers -> Imports], \A j \in Importers : ImportTrue(f[j]), pend' = f,
         txn' \in BOOLEAN, taken' \subseteq Souls, twice' \subseteq Souls, rotated' \subseteq Peers
  PROVE  GateInv'
<1>1. TypeOK'
  BY DEF GateInv, TypeOK, Keep
<1>2. PinsTrue(b)' /\ PinsTrue(d)' /\ \A j \in Importers : ImportTrue(f[j])'
  BY SameClock DEF Keep
<1> QED BY <1>1, <1>2 DEF GateInv, PinsTrue, ImportTrue, Keep

LEMMA CommittedTrue ==
  ASSUME GateInv
  PROVE  Committed \in Brains /\ PinsTrue(Committed)
BY DEF GateInv, TypeOK, Committed

LEMMA StartKeeps ==
  ASSUME GateInv, NEW i \in Importers, NEW s \in souls, NEW over \in Overrides, Start(i, s, over)
  PROVE  GateInv'
<1> DEFINE n == [at |-> "lookup", soul |-> s, over |-> over, pin |-> Unknown]
<1>1. n \in Imports /\ ImportTrue(n)
  <2>1. s \in Souls /\ now \in Nat /\ Skew \in Nat
    BY SoulsType, GateAssumption DEF GateInv, TypeOK, Times
  <2>2. Unknown \in Pins /\ Unknown.high = 0
    BY <2>1, BlankTrue
  <2> QED BY <2>1, <2>2 DEF Imports, Places, ImportTrue, PinTrue
<1>2. pend' = [pend EXCEPT ![i] = n]
  BY DEF Start
<1>3. pend' \in [Importers -> Imports] /\ \A j \in Importers : ImportTrue(pend'[j])
  <2> HIDE DEF n
  <2> QED BY <1>1, <1>2, ImportMoves
<1>4. /\ brain' = brain /\ saved' = Committed /\ txn' = TRUE
      /\ UNCHANGED <<taken, twice, rotated>> /\ Keep
  BY DEF Start
<1>5. brain \in Brains /\ PinsTrue(brain)
      /\ taken \subseteq Souls /\ twice \subseteq Souls /\ rotated \subseteq Peers
  BY DEF GateInv, TypeOK
<1> QED BY <1>3, <1>4, <1>5, CommittedTrue, BowlKeeps

LEMMA LookupKeeps ==
  ASSUME GateInv, NEW i \in Importers, Lookup(i)
  PROVE  GateInv'
<1> DEFINE p == pend[i]
           at == IF TooFarAhead(p.soul) THEN "rollback" ELSE "gate"
           n == Read(p, at, brain.known[p.soul.peer])
<1>1. p \in Imports /\ p.soul \in souls /\ p.soul.peer \in Peers /\ p.soul.at \in Nat
      /\ now \in Nat /\ Skew \in Nat
  BY SoulsType, GateAssumption DEF Lookup, GateInv, ImportTrue, TypeOK, Times
<1>2. n \in Imports /\ ImportTrue(n)
  <2>1. at \in Places /\ (at = "gate" => p.soul.at <= now + Skew)
    BY <1>1 DEF Places, TooFarAhead
  <2>2. PinTrue(brain.known[p.soul.peer], p.soul.peer)
    BY <1>1 DEF GateInv, PinsTrue
  <2> HIDE DEF at, p
  <2> QED BY <1>1, <2>1, <2>2 DEF Read, Imports, ImportTrue, PinTrue
<1>3. pend' = [pend EXCEPT ![i] = n]
  BY DEF Lookup
<1>4. pend' \in [Importers -> Imports] /\ \A j \in Importers : ImportTrue(pend'[j])
  <2> HIDE DEF n
  <2> QED BY <1>2, <1>3, ImportMoves
<1>5. UNCHANGED <<brain, txn, saved, taken, twice, rotated>> /\ Keep
  BY DEF Lookup
<1> HIDE DEF n, at, p
<1> QED BY <1>4, <1>5, BowlKeeps DEF GateInv, TypeOK

\* An import that moves on to a stage that is not the gate.
LEMMA GoesOn ==
  ASSUME GateInv, NEW i \in Importers, pend[i].at # "idle", NEW at \in Places \ {"gate", "idle"},
         pend' = [pend EXCEPT ![i] = Going(pend[i], at)]
  PROVE  pend' \in [Importers -> Imports] /\ \A j \in Importers : ImportTrue(pend'[j])
<1>1. Going(pend[i], at) \in Imports /\ ImportTrue(Going(pend[i], at))
  BY GoingTrue DEF GateInv, TypeOK
<1> QED BY <1>1, ImportMoves

LEMMA GateKeeps ==
  ASSUME GateInv, NEW i \in Importers, Gate(i)
  PROVE  GateInv'
<1> DEFINE p == pend[i]
           pin == Repinned(brain.known[p.soul.peer], p.pin, p.soul)
<1>1. p.at = "gate" /\ p.soul \in souls /\ p.soul.peer \in Peers /\ p.soul.at <= now + Skew
  BY SoulsType DEF Gate, GateInv, ImportTrue
<1>2. \E at \in {"rows", "rollback"} : pend' = [pend EXCEPT ![i] = Going(pend[i], at)]
  BY DEF Gate
<1>3. pend' \in [Importers -> Imports] /\ \A j \in Importers : ImportTrue(pend'[j])
  BY <1>1, <1>2, GoesOn DEF Places
<1>4. brain' \in Brains /\ PinsTrue(brain')
  <2>1. PinTrue(pin, p.soul.peer)
    <3>1. PinTrue(brain.known[p.soul.peer], p.soul.peer) /\ PinTrue(p.pin, p.soul.peer)
      BY <1>1 DEF GateInv, PinsTrue, ImportTrue
    <3> QED BY <1>1, <3>1, RepinnedTrue DEF GateInv
  <2>2. brain' = brain \/ brain' = WithPin(brain, p.soul.peer, pin)
    BY DEF Gate
  <2> HIDE DEF pin
  <2> QED BY <1>1, <2>1, <2>2, WithPinTrue DEF GateInv, TypeOK
<1>5. rotated' \subseteq Peers /\ UNCHANGED <<txn, saved, taken, twice>> /\ Keep
  BY <1>1 DEF Gate, GateInv, TypeOK
<1> HIDE DEF p, pin
<1> QED BY <1>3, <1>4, <1>5, BowlKeeps DEF GateInv, TypeOK

LEMMA RowsKeep ==
  ASSUME GateInv, NEW i \in Importers, ApplyRows(i) \/ RowsFail(i)
  PROVE  GateInv'
<1>1. pend[i].at # "idle" /\ pend[i].soul \in Souls
  BY SoulsType DEF ApplyRows, RowsFail, GateInv, ImportTrue
<1>2. \E at \in {"commit", "rollback"} : pend' = [pend EXCEPT ![i] = Going(pend[i], at)]
  BY DEF ApplyRows, RowsFail
<1>3. pend' \in [Importers -> Imports] /\ \A j \in Importers : ImportTrue(pend'[j])
  BY <1>1, <1>2, GoesOn DEF Places
<1>4. brain' \in Brains /\ brain'.known = brain.known
  BY <1>1 DEF ApplyRows, RowsFail, GateInv, TypeOK, Brains
<1>5. PinsTrue(brain')
  BY <1>4 DEF GateInv, PinsTrue
<1>6. UNCHANGED <<txn, saved, taken, twice, rotated>> /\ Keep
  BY DEF ApplyRows, RowsFail
<1> QED BY <1>3, <1>4, <1>5, <1>6, BowlKeeps DEF GateInv, TypeOK

\* An import that ends.
LEMMA EndsKeep ==
  ASSUME GateInv, NEW i \in Importers, Commit(i) \/ Rollback(i)
  PROVE  GateInv'
<1>1. now \in Nat
  BY DEF GateInv, TypeOK, Times
<1>2. pend' = [pend EXCEPT ![i] = Idle]
  BY DEF Commit, Rollback
<1>3. pend' \in [Importers -> Imports] /\ \A j \in Importers : ImportTrue(pend'[j])
  <2>1. Idle \in Imports /\ ImportTrue(Idle)
    BY <1>1, BlankTrue DEF ImportTrue
  <2> QED BY <1>2, <2>1, ImportMoves
<1>4. brain' \in Brains /\ PinsTrue(brain') /\ saved' = Blank /\ txn' = FALSE
  BY CommittedTrue DEF Commit, Rollback, Undone, GateInv, TypeOK
<1>5. taken' \subseteq Souls /\ twice' \subseteq Souls /\ rotated' = rotated /\ Keep
  <2>1. pend[i].at # "idle" => pend[i].soul \in Souls
    BY SoulsType DEF GateInv, ImportTrue
  <2> QED BY <2>1 DEF Commit, Rollback, GateInv, TypeOK
<1> QED BY <1>1, <1>3, <1>4, <1>5, BlankTrue, BowlKeeps DEF GateInv, TypeOK

LEMMA PinCallsKeep ==
  ASSUME GateInv, NEW q \in Peers, Forget(q) \/ \E k \in Keys : PinOutOfBand(q, k)
  PROVE  GateInv'
<1>1. now \in Nat /\ PinTrue(brain.known[q], q) /\ Skew \in Nat
  BY GateAssumption DEF GateInv, TypeOK, Times, PinsTrue
<1>2. brain' \in Brains /\ PinsTrue(brain')
  <2>1. CASE Forget(q)
    <3>1. PinTrue(Unknown, q)
      BY <1>1, BlankTrue DEF PinTrue
    <3> QED BY <2>1, <3>1, WithPinTrue DEF Forget, GateInv, TypeOK
  <2>2. ASSUME NEW k \in Keys, PinOutOfBand(q, k) PROVE brain' \in Brains /\ PinsTrue(brain')
    <3>1. PinTrue(Pinned(k, brain.known[q].high, brain.known[q].last), q)
      BY <1>1 DEF PinTrue, Pinned, Pins
    <3> QED BY <2>2, <3>1, WithPinTrue DEF PinOutOfBand, GateInv, TypeOK
  <2> QED BY <2>1, <2>2
<1>3. /\ taken' \subseteq Souls /\ twice' = twice /\ rotated' \subseteq Peers
      /\ UNCHANGED <<txn, saved, pend>> /\ Keep
  BY DEF Forget, PinOutOfBand, GateInv, TypeOK
<1> QED BY <1>2, <1>3, BowlKeeps DEF GateInv, TypeOK

LEMMA CrashKeeps ==
  ASSUME GateInv, Crash
  PROVE  GateInv'
<1>1. now \in Nat
  BY DEF GateInv, TypeOK, Times
<1>2. pend' \in [Importers -> Imports] /\ \A j \in Importers : ImportTrue(pend'[j])
  BY <1>1, BlankTrue DEF Crash, ImportTrue
<1> QED BY <1>1, <1>2, BlankTrue, CommittedTrue, BowlKeeps DEF Crash, GateInv, TypeOK

\* Time passes, and more souls are exported.
LEMMA WorldKeeps ==
  ASSUME GateInv, KeepBrain, now' \in Times, now <= now', souls \subseteq souls',
         souls' \subseteq Souls, IsFiniteSet(souls'), clock' \in [Peers -> Times], key' \in [Peers -> Keys]
  PROVE  GateInv'
<1>1. now \in Nat /\ now' \in Nat /\ Skew \in Nat
  BY GateAssumption DEF GateInv, TypeOK, Times
<1>2. \A pin, q : PinTrue(pin, q) => PinTrue(pin, q)'
  BY <1>1 DEF PinTrue, Pins
<1>3. \A s \in souls : s.at \in Nat
  BY SoulsType DEF GateInv
<1>4. TypeOK'
  BY DEF GateInv, TypeOK, KeepBrain
<1>5. PinsTrue(brain)' /\ PinsTrue(saved)'
  BY <1>2 DEF GateInv, PinsTrue, KeepBrain
<1>6. \A i \in Importers : ImportTrue(pend[i])'
  BY <1>1, <1>2, <1>3 DEF GateInv, ImportTrue, KeepBrain
<1> QED BY <1>4, <1>5, <1>6 DEF GateInv

LEMMA PeersKeep ==
  ASSUME GateInv,
         Tick \/ \E q \in Peers : PeerTick(q) \/ Export(q) \/ \E k \in Keys : NewKey(q, k)
  PROVE  GateInv' /\ KeepBrain /\ souls \subseteq souls'
<1>1. now \in Nat /\ MaxTime \in Nat /\ clock \in [Peers -> 1 .. MaxTime] /\ key \in [Peers -> Keys]
      /\ now \in 1 .. MaxTime /\ IsFiniteSet(souls) /\ souls \subseteq Souls
  BY GateAssumption DEF GateInv, TypeOK, Times
<1>2. CASE Tick
  <2>1. now' \in Times /\ now <= now' /\ UNCHANGED <<clock, key, souls>> /\ KeepBrain
    BY <1>1, <1>2 DEF Tick, Times
  <2> QED BY <1>1, <2>1, WorldKeeps DEF Times
<1>3. ASSUME NEW q \in Peers, PeerTick(q) PROVE GateInv' /\ KeepBrain /\ souls \subseteq souls'
  <2>1. clock' \in [Peers -> Times] /\ UNCHANGED <<now, key, souls>> /\ KeepBrain
    BY <1>1, <1>3 DEF PeerTick, Times
  <2> QED BY <1>1, <2>1, WorldKeeps DEF Times
<1>4. ASSUME NEW q \in Peers, NEW k \in Keys, NewKey(q, k)
      PROVE GateInv' /\ KeepBrain /\ souls \subseteq souls'
  <2>1. key' \in [Peers -> Keys] /\ UNCHANGED <<now, clock, souls>> /\ KeepBrain
    BY <1>1, <1>4 DEF NewKey
  <2> QED BY <1>1, <2>1, WorldKeeps DEF Times
<1>5. ASSUME NEW q \in Peers, Export(q) PROVE GateInv' /\ KeepBrain /\ souls \subseteq souls'
  <2> DEFINE before == {s \in souls : s.peer = q /\ s.at = clock[q]}
             new == [peer |-> q, key |-> key[q], at |-> clock[q], no |-> Cardinality(before) + 1]
  <2>1. Cardinality(before) + 1 \in 1 .. MaxPerSecond
    <3>1. Cardinality(before) \in Nat
      BY <1>1, FS_Subset, FS_CardinalityType
    <3>2. Cardinality(before) < MaxPerSecond
      BY <1>5 DEF Export
    <3> HIDE DEF before
    <3> QED BY <3>1, <3>2, GateAssumption
  <2>2. new \in Souls
    <3> HIDE DEF before
    <3> QED BY <1>1, <2>1 DEF Souls, Times
  <2>3. souls' = souls \union {new} /\ UNCHANGED <<now, clock, key>> /\ KeepBrain
    BY <1>5 DEF Export
  <2>4. IsFiniteSet(souls')
    BY <1>1, <2>3, FS_AddElement
  <2> HIDE DEF new
  <2> QED BY <1>1, <2>2, <2>3, <2>4, WorldKeeps DEF Times
<1> QED BY <1>2, <1>3, <1>4, <1>5

LEMMA GateStarts == Init => GateInv
<1> SUFFICES ASSUME Init PROVE GateInv
  OBVIOUS
<1>1. now = 1 /\ 1 \in Times
  BY GateAssumption DEF Init, Times
<1>2. /\ Blank \in Brains /\ PinsTrue(Blank) /\ SomeKey \in Keys
      /\ Idle \in Imports /\ Idle.at = "idle"
  BY <1>1, BlankTrue
<1>3. TypeOK
  BY <1>1, <1>2 DEF Init, TypeOK
<1>4. IsFiniteSet(souls)
  BY FS_EmptySet DEF Init
<1> QED BY <1>2, <1>3, <1>4 DEF Init, GateInv, ImportTrue

LEMMA GateStepKeeps == GateInv /\ [Next]_vars => GateInv'
<1> SUFFICES ASSUME GateInv, [Next]_vars PROVE GateInv'
  OBVIOUS
<1>1. ASSUME NEW i \in Importers, Import(i) PROVE GateInv'
  BY <1>1, LookupKeeps, GateKeeps, RowsKeep, EndsKeep DEF Import
<1>2. ASSUME NEW i \in Importers, NEW s \in souls, NEW over \in Overrides, Start(i, s, over)
      PROVE GateInv'
  BY <1>2, StartKeeps
<1>3. ASSUME NEW q \in Peers, Forget(q) \/ \E k \in Keys : PinOutOfBand(q, k) PROVE GateInv'
  BY <1>3, PinCallsKeep
<1>4. CASE Tick \/ \E q \in Peers : PeerTick(q) \/ Export(q) \/ \E k \in Keys : NewKey(q, k)
  BY <1>4, PeersKeep
<1>5. CASE Crash
  BY <1>5, CrashKeeps
<1>6. CASE UNCHANGED vars
  BY <1>6 DEF vars, GateInv, TypeOK, PinsTrue, ImportTrue, PinTrue
<1> QED BY <1>1, <1>2, <1>3, <1>4, <1>5, <1>6 DEF Next

LEMMA GateAlways == Spec => []GateInv
BY GateStarts, GateStepKeeps, PTL DEF Spec

-----------------------------------------------------------------------------

\* Pins, souls and imports keep their shapes.
THEOREM TypeCorrect == Spec => []TypeOK
<1>1. GateInv => TypeOK
  BY DEF GateInv
<1> QED BY <1>1, GateAlways, PTL

\* No stamp on disk is ahead by more than the skew, however many imports share
\* the connection.
THEOREM NotAhead == Spec => []HighWaterNotAhead
<1>1. GateInv => HighWaterNotAhead
  BY CommittedTrue DEF PinsTrue, PinTrue, HighWaterNotAhead
<1> QED BY <1>1, GateAlways, PTL

\* The newest soul of a peer is refused for nothing but being the last one.
THEOREM WelcomesTheNewest == Spec => []NewestIsWelcome
<1>1. GateInv => NewestIsWelcome
  <2> SUFFICES ASSUME GateInv, NEW i \in Importers,
                      pend[i].at = "gate", pend[i].pin.key = pend[i].soul.key,
                      {s \in souls : s.peer = pend[i].soul.peer /\ s.at > pend[i].soul.at} = {},
                      Refused(pend[i].pin, pend[i].soul, pend[i].over)
               PROVE  pend[i].pin.last = pend[i].soul
    BY DEF NewestIsWelcome
  <2>1. IsOlder(pend[i].pin, pend[i].soul) \/ pend[i].pin.last = pend[i].soul
    BY DEF Refused, Replay, IsExactReconsume
  <2>2. PinTrue(pend[i].pin, pend[i].soul.peer)
    BY DEF GateInv, ImportTrue
  <2>3. ~IsOlder(pend[i].pin, pend[i].soul)
    BY <2>2 DEF IsOlder, PinTrue
  <2> QED BY <2>1, <2>3
<1> QED BY <1>1, GateAlways, PTL

-----------------------------------------------------------------------------
(* One import at a time, and no pins made or forgotten while it runs.  Then   *)
(* the connection's transaction is its own: what the tables say meanwhile is  *)
(* what is on disk with the steps of this import applied.                     *)

OneAtATime == ~MidImport /\ \A i, j \in Importers : i = j

\* Every soul that a pin names has its rows, but for the one that is under way.
CleanBut(b, s) == \A q \in Peers : b.known[q].last \in b.applied \union {None, s}

ImportSerial(p) ==
  /\ p.at # "idle" => txn
  /\ p.at \in {"lookup", "gate", "commit"} => CleanBut(brain, None)
  /\ p.at = "rows" => CleanBut(brain, p.soul)
  /\ p.at = "gate" => p.pin = brain.known[p.soul.peer]

\* The high-waters of b are not behind those of a.
Risen(a, b) ==
  \A q \in Peers : a.known[q].pinned =>
                     b.known[q].pinned /\ b.known[q].high >= a.known[q].high

SerialInv ==
  /\ \A i \in Importers : ImportSerial(pend[i])
  /\ txn => \E i \in Importers : pend[i].at # "idle"
  /\ CleanBut(Committed, None)
  /\ txn => Risen(saved, brain)

\* The one import moves.
LEMMA TheImportMoves ==
  ASSUME OneAtATime, GateInv, NEW i \in Importers, NEW n, pend' = [pend EXCEPT ![i] = n]
  PROVE  pend'[i] = n /\ \A j \in Importers : pend'[j] = n
BY DEF OneAtATime, GateInv, TypeOK

LEMMA BrainsType ==
  ASSUME GateInv
  PROVE  /\ \A q \in Peers : brain.known[q] \in Pins /\ saved.known[q] \in Pins
         /\ \A q \in Peers : brain.known[q].high \in Nat /\ saved.known[q].high \in Nat
         /\ Risen(brain, brain)
BY GateAssumption DEF GateInv, TypeOK, Brains, Pins, Risen

LEMMA GoingFields ==
  ASSUME NEW p \in Imports, NEW at
  PROVE  /\ Going(p, at).at = at /\ Going(p, at).soul = p.soul
         /\ Going(p, at).over = p.over /\ Going(p, at).pin = p.pin
BY DEF Going, Imports

\* A pin judged as it stands never loses its key holder, nor goes back.
LEMMA RepinnedRises ==
  ASSUME NEW pin \in Pins, NEW s \in Souls
  PROVE  /\ pin.pinned => Repinned(pin, pin, s).pinned /\ Repinned(pin, pin, s).high >= pin.high
         /\ Repinned(pin, pin, s).last \in {pin.last, s}
BY GateAssumption DEF Repinned, Contact, Return, Rotated, Pinned, Pins, Souls, Times

LEMMA SerialStart ==
  ASSUME OneAtATime, GateInv, SerialInv, NEW i \in Importers, NEW s, NEW over, Start(i, s, over)
  PROVE  SerialInv' /\ Committed' = Committed
<1> DEFINE n == [at |-> "lookup", soul |-> s, over |-> over, pin |-> Unknown]
<1>1. pend[i] = Idle /\ \A j \in Importers : pend[j].at = "idle"
  BY DEF Start, OneAtATime, Idle
<1>2. ~txn /\ Committed = brain
  BY <1>1 DEF SerialInv, Committed
<1>3. pend' = [pend EXCEPT ![i] = n] /\ txn' = TRUE /\ saved' = brain /\ brain' = brain
  BY <1>2 DEF Start
<1>4. pend'[i] = n /\ \A j \in Importers : pend'[j] = n
  <2> HIDE DEF n
  <2> QED BY <1>3, TheImportMoves
<1>5. CleanBut(brain, None) /\ Risen(brain, brain)
  BY <1>2, BrainsType DEF SerialInv
<1>6. Committed' = Committed
  BY <1>2, <1>3 DEF Committed
<1>7. \A j \in Importers : ImportSerial(pend[j])'
  BY <1>3, <1>4, <1>5 DEF ImportSerial, CleanBut
<1>8. CleanBut(Committed, None)' /\ Risen(saved, brain)'
  BY <1>2, <1>3, <1>5, <1>6 DEF CleanBut, Risen
<1> QED BY <1>4, <1>6, <1>7, <1>8 DEF SerialInv

\* A step inside the import: the transaction stays open.
LEMMA SerialInside ==
  ASSUME OneAtATime, GateInv, SerialInv, NEW i \in Importers, pend[i].at # "idle",
         NEW n, pend' = [pend EXCEPT ![i] = n], n.at # "idle",
         UNCHANGED <<txn, saved>>, Risen(saved, brain)',
         n.at \in {"lookup", "gate", "commit"} => CleanBut(brain, None)',
         n.at = "rows" => CleanBut(brain', n.soul),
         n.at = "gate" => n.pin = brain'.known[n.soul.peer]
  PROVE  SerialInv' /\ Committed' = Committed
<1>1. txn /\ txn' /\ Committed = saved /\ Committed' = saved
  BY DEF SerialInv, ImportSerial, Committed
<1>2. pend'[i] = n /\ \A j \in Importers : pend'[j] = n
  BY TheImportMoves
<1>3. \A j \in Importers : ImportSerial(pend[j])'
  BY <1>1, <1>2 DEF ImportSerial, CleanBut
<1>4. CleanBut(Committed, None)'
  BY <1>1 DEF SerialInv, CleanBut
<1> QED BY <1>1, <1>2, <1>3, <1>4 DEF SerialInv

LEMMA SerialLookup ==
  ASSUME OneAtATime, GateInv, SerialInv, NEW i \in Importers, Lookup(i)
  PROVE  SerialInv' /\ Committed' = Committed
<1> DEFINE p == pend[i]
           at == IF TooFarAhead(p.soul) THEN "rollback" ELSE "gate"
           n == Read(p, at, brain.known[p.soul.peer])
<1>1. pend' = [pend EXCEPT ![i] = n] /\ UNCHANGED <<brain, txn, saved>> /\ p.at = "lookup"
  BY DEF Lookup
<1>2. n.at \in {"rollback", "gate"} /\ n.pin = brain.known[n.soul.peer]
  BY DEF Read
<1>3. CleanBut(brain, None) /\ Risen(saved, brain)
  BY <1>1 DEF SerialInv, ImportSerial
<1>4. CleanBut(brain, None)' /\ Risen(saved, brain)'
  BY <1>1, <1>3 DEF CleanBut, Risen
<1> HIDE DEF n, at
<1> QED BY <1>1, <1>2, <1>4, SerialInside

LEMMA SerialGate ==
  ASSUME OneAtATime, GateInv, SerialInv, NEW i \in Importers, Gate(i)
  PROVE  SerialInv' /\ Committed' = Committed
<1> DEFINE p == pend[i]
           q == p.soul.peer
           pin == Repinned(brain.known[q], p.pin, p.soul)
<1>1. /\ p \in Imports /\ p.at = "gate" /\ p.soul \in Souls /\ q \in Peers
      /\ p.pin = brain.known[q] /\ p.pin \in Pins
      /\ CleanBut(brain, None) /\ Risen(saved, brain) /\ UNCHANGED <<txn, saved>>
  <2>1. p.at = "gate" /\ UNCHANGED <<txn, saved>>
    BY DEF Gate
  <2>2. ImportSerial(p) /\ txn /\ Risen(saved, brain)
    BY <2>1 DEF SerialInv, ImportSerial
  <2>3. p \in Imports /\ p.soul \in Souls /\ q \in Peers
    BY <2>1, SoulsType DEF GateInv, TypeOK, ImportTrue
  <2> QED BY <2>1, <2>2, <2>3, BrainsType DEF ImportSerial
<1>2. CASE Refused(p.pin, p.soul, p.over)
  <2>1. pend' = [pend EXCEPT ![i] = Going(p, "rollback")] /\ brain' = brain
    BY <1>2 DEF Gate
  <2>2. Going(p, "rollback").at = "rollback"
    BY <1>1, GoingFields
  <2>3. Risen(saved, brain)'
    BY <1>1, <2>1 DEF Risen
  <2> HIDE DEF p
  <2> QED BY <1>1, <2>1, <2>2, <2>3, SerialInside DEF p
<1>3. CASE ~Refused(p.pin, p.soul, p.over)
  <2>1. pend' = [pend EXCEPT ![i] = Going(p, "rows")] /\ brain' = WithPin(brain, q, pin)
    BY <1>3 DEF Gate
  <2>2. Going(p, "rows").at = "rows" /\ Going(p, "rows").soul = p.soul
    BY <1>1, GoingFields
  <2>3. /\ brain'.known[q] = pin /\ \A r \in Peers \ {q} : brain'.known[r] = brain.known[r]
        /\ brain'.applied = brain.applied
    BY <1>1, <2>1 DEF WithPin, GateInv, TypeOK, Brains
  <2>4. /\ p.pin.pinned => pin.pinned /\ pin.high >= p.pin.high
        /\ pin.last \in {p.pin.last, p.soul} /\ pin.high \in Nat
    <3>1. PinTrue(pin, q)
      <4>1. p.soul \in souls /\ p.soul.at <= now + Skew /\ PinTrue(p.pin, q) /\ PinTrue(brain.known[q], q)
        BY <1>1 DEF GateInv, ImportTrue, PinsTrue
      <4> QED BY <4>1, RepinnedTrue DEF GateInv
    <3>2. pin.high \in Nat
      BY <3>1, GateAssumption DEF PinTrue, Pins
    <3> QED BY <1>1, <3>2, RepinnedRises
  <2> HIDE DEF pin
  <2>5. CleanBut(brain', p.soul)
    BY <1>1, <2>3, <2>4 DEF CleanBut
  <2>6. Risen(saved, brain')
    BY <1>1, <2>3, <2>4, BrainsType DEF Risen
  <2>7. Risen(saved, brain)'
    BY <1>1, <2>6 DEF Risen
  <2> HIDE DEF p
  <2> QED BY <1>1, <2>1, <2>2, <2>5, <2>7, SerialInside DEF p
<1> QED BY <1>2, <1>3

LEMMA SerialRows ==
  ASSUME OneAtATime, GateInv, SerialInv, NEW i \in Importers, ApplyRows(i) \/ RowsFail(i)
  PROVE  SerialInv' /\ Committed' = Committed
<1>1. pend[i] \in Imports /\ pend[i].at # "idle" /\ UNCHANGED <<txn, saved>>
  BY DEF ApplyRows, RowsFail, GateInv, TypeOK
<1>2. Risen(saved, brain)
  BY <1>1 DEF SerialInv, ImportSerial
<1>3. brain'.known = brain.known
  BY DEF ApplyRows, RowsFail, GateInv, TypeOK, Brains
<1>4. Risen(saved, brain)'
  BY <1>1, <1>2, <1>3 DEF Risen
<1>5. CASE ApplyRows(i)
  <2>1. pend' = [pend EXCEPT ![i] = Going(pend[i], "commit")] /\ pend[i].at = "rows"
    BY <1>5 DEF ApplyRows
  <2>2. Going(pend[i], "commit").at = "commit"
    BY <1>1, GoingFields
  <2>3. brain'.applied = brain.applied \union {pend[i].soul}
    BY <1>5 DEF ApplyRows, GateInv, TypeOK, Brains
  <2>4. CleanBut(brain, None)'
    BY <1>3, <2>1, <2>3 DEF SerialInv, ImportSerial, CleanBut
  <2> QED BY <1>1, <1>4, <2>1, <2>2, <2>4, SerialInside
<1>6. CASE RowsFail(i)
  <2>1. pend' = [pend EXCEPT ![i] = Going(pend[i], "rollback")]
    BY <1>6 DEF RowsFail
  <2>2. Going(pend[i], "rollback").at = "rollback"
    BY <1>1, GoingFields
  <2> QED BY <1>1, <1>4, <2>1, <2>2, SerialInside
<1> QED BY <1>5, <1>6

\* The import is over, and the transaction with it.
LEMMA SerialEnd ==
  ASSUME OneAtATime, GateInv, SerialInv, \A j \in Importers : pend'[j] = Idle, ~txn',
         CleanBut(brain', None)
  PROVE  SerialInv'
BY DEF SerialInv, ImportSerial, Committed, Idle, CleanBut

LEMMA SerialCommit ==
  ASSUME OneAtATime, GateInv, SerialInv, NEW i \in Importers, Commit(i)
  PROVE  SerialInv' /\ Risen(Committed, Committed')
<1>1. pend[i].at = "commit" /\ brain' = brain /\ txn' = FALSE /\ pend' = [pend EXCEPT ![i] = Idle]
  BY DEF Commit
<1>2. txn /\ CleanBut(brain, None) /\ Risen(saved, brain)
  BY <1>1 DEF SerialInv, ImportSerial
<1>3. Committed = saved /\ Committed' = brain
  BY <1>1, <1>2 DEF Committed
<1>4. \A j \in Importers : pend'[j] = Idle
  BY <1>1, TheImportMoves
<1> QED BY <1>1, <1>2, <1>3, <1>4, SerialEnd

\* What was not committed is gone.
LEMMA SerialUndo ==
  ASSUME OneAtATime, GateInv, SerialInv, Crash \/ \E i \in Importers : Rollback(i)
  PROVE  SerialInv' /\ Committed' = Committed
<1>1. brain' = Committed /\ txn' = FALSE
  BY DEF Crash, Rollback, Undone
<1>2. \A j \in Importers : pend'[j] = Idle
  <2>1. CASE Crash
    BY <2>1 DEF Crash
  <2>2. ASSUME NEW i \in Importers, Rollback(i) PROVE \A j \in Importers : pend'[j] = Idle
    BY <2>2, TheImportMoves DEF Rollback
  <2> QED BY <2>1, <2>2
<1>3. Committed' = Committed
  BY <1>1 DEF Committed
<1> QED BY <1>1, <1>2, <1>3, SerialEnd DEF SerialInv

\* Pins are made and forgotten between imports only.
LEMMA SerialPins ==
  ASSUME OneAtATime, GateInv, SerialInv, NEW q \in Peers,
         Forget(q) \/ \E k \in Keys : PinOutOfBand(q, k)
  PROVE  /\ SerialInv' /\ Committed = brain /\ Committed' = brain'
         /\ \A r \in Peers \ {q} : brain'.known[r] = brain.known[r]
         /\ brain'.known[q].pinned => brain'.known[q].high = brain.known[q].high
<1>1. \A j \in Importers : pend[j] = Idle
  BY DEF Forget, PinOutOfBand, Undisturbed, OneAtATime
<1>2. ~txn /\ txn' = txn /\ pend' = pend
  BY <1>1 DEF SerialInv, Idle, Forget, PinOutOfBand
<1>3. Committed = brain /\ Committed' = brain' /\ CleanBut(brain, None)
  BY <1>2 DEF Committed, SerialInv
<1>4. PICK pin : /\ brain' = WithPin(brain, q, pin)
                 /\ pin.last \in {brain.known[q].last, None}
                 /\ pin.pinned => pin.high = brain.known[q].high
  <2>1. CASE Forget(q)
    <3>1. brain' = WithPin(brain, q, Unknown) /\ Unknown.last = None /\ ~Unknown.pinned
      BY <2>1 DEF Forget, Unknown
    <3> QED BY <3>1
  <2>2. ASSUME NEW k \in Keys, PinOutOfBand(q, k)
        PROVE \E pin : /\ brain' = WithPin(brain, q, pin)
                       /\ pin.last \in {brain.known[q].last, None}
                       /\ pin.pinned => pin.high = brain.known[q].high
    <3> DEFINE pin == Pinned(k, brain.known[q].high, brain.known[q].last)
    <3>1. /\ brain' = WithPin(brain, q, pin)
          /\ pin.last = brain.known[q].last /\ pin.high = brain.known[q].high
      BY <2>2 DEF PinOutOfBand, Pinned
    <3> HIDE DEF pin
    <3> QED BY <3>1
  <2> QED BY <2>1, <2>2
<1>5. /\ brain'.known[q] = pin /\ brain'.applied = brain.applied
      /\ \A r \in Peers \ {q} : brain'.known[r] = brain.known[r]
  BY <1>4 DEF WithPin, GateInv, TypeOK, Brains
<1>6. CleanBut(brain', None)
  BY <1>3, <1>4, <1>5 DEF CleanBut
<1> QED BY <1>1, <1>2, <1>3, <1>4, <1>5, <1>6, SerialEnd

LEMMA SerialStill ==
  ASSUME SerialInv, UNCHANGED <<brain, txn, saved, pend>>
  PROVE  SerialInv' /\ Committed' = Committed
<1>1. Committed' = Committed
  BY DEF Committed
<1> QED BY <1>1 DEF SerialInv, ImportSerial, CleanBut, Risen

LEMMA SerialStep ==
  ASSUME OneAtATime, GateInv, SerialInv, [Next]_vars
  PROVE  /\ SerialInv'
         /\ \A q \in Peers :
              Committed.known[q].pinned /\ Committed'.known[q].pinned
                => Committed'.known[q].high >= Committed.known[q].high
<1> DEFINE Rises == \A q \in Peers :
              Committed.known[q].pinned /\ Committed'.known[q].pinned
                => Committed'.known[q].high >= Committed.known[q].high
<1>1. \A q \in Peers : Committed.known[q].high \in Nat
  BY BrainsType DEF Committed
<1>2. Committed' = Committed => Rises
  BY <1>1
<1>3. ASSUME NEW i \in Importers, Lookup(i) \/ Gate(i) \/ ApplyRows(i) \/ RowsFail(i)
      PROVE SerialInv' /\ Committed' = Committed
  BY <1>3, SerialLookup, SerialGate, SerialRows
<1>4. ASSUME NEW i \in Importers, Commit(i) PROVE SerialInv' /\ Rises
  BY <1>4, SerialCommit DEF Risen
<1>5. ASSUME NEW i \in Importers, Rollback(i) PROVE SerialInv' /\ Committed' = Committed
  BY <1>5, SerialUndo
<1>6. ASSUME NEW i \in Importers, NEW s \in souls, NEW over \in Overrides, Start(i, s, over)
      PROVE SerialInv' /\ Committed' = Committed
  BY <1>6, SerialStart
<1>7. ASSUME NEW q \in Peers, Forget(q) \/ \E k \in Keys : PinOutOfBand(q, k)
      PROVE SerialInv' /\ Rises
  BY <1>1, <1>7, SerialPins
<1>8. ASSUME Tick \/ \E q \in Peers : PeerTick(q) \/ Export(q) \/ \E k \in Keys : NewKey(q, k)
      PROVE SerialInv' /\ Committed' = Committed
  <2>1. KeepBrain
    BY <1>8, PeersKeep
  <2> QED BY <2>1, SerialStill DEF KeepBrain
<1>9. ASSUME Crash PROVE SerialInv' /\ Committed' = Committed
  BY <1>9, SerialUndo
<1>10. ASSUME UNCHANGED vars PROVE SerialInv' /\ Committed' = Committed
  BY <1>10, SerialStill DEF vars
<1> HIDE DEF Rises
<1>11. SerialInv' /\ Rises
  BY <1>2, <1>3, <1>4, <1>5, <1>6, <1>7, <1>8, <1>9, <1>10 DEF Next, Import
<1> QED BY <1>11 DEF Rises

LEMMA SerialStarts == Init => SerialInv
BY DEF Init, SerialInv, ImportSerial, Idle, Committed, CleanBut, Blank, Unknown

LEMMA SerialAlways ==
  ASSUME OneAtATime
  PROVE  Spec => []SerialInv
<1>1. GateInv /\ SerialInv /\ [Next]_vars => SerialInv'
  BY SerialStep
<1> QED BY <1>1, SerialStarts, GateAlways, PTL DEF Spec

\* One import at a time: a pin on disk never names a soul whose rows did not
\* come in, through failures and crashes.
THEOREM PinsComeWithTheirRows ==
  ASSUME OneAtATime
  PROVE  Spec => []HighWaterMeansApplied
<1>1. SerialInv => HighWaterMeansApplied
  BY DEF SerialInv, CleanBut, HighWaterMeansApplied
<1> QED BY <1>1, SerialAlways, PTL

\* One import at a time: no stamp on disk moves backward while its peer stays
\* pinned.
THEOREM RisesOnly ==
  ASSUME OneAtATime
  PROVE  Spec => HighWaterRises
<1>1. GateInv /\ SerialInv /\ [Next]_vars =>
        [\A q \in Peers :
           LET before == Committed.known[q]
               after == Committed'.known[q]
           IN before.pinned /\ after.pinned => after.high >= before.high]_vars
  BY SerialStep
<1>2. Spec => [][Next]_vars
  BY DEF Spec
<1> QED BY <1>1, <1>2, SerialAlways, GateAlways, PTL DEF HighWaterRises

-----------------------------------------------------------------------------
(* One import at a time, and one soul a second and peer.  While a peer keeps  *)
(* its key the pin remembers what came in: nothing of the peer's that came in *)
(* is newer than its stamp, and what is as new is the soul it names.          *)

OneASecond == OneAtATime /\ MaxPerSecond = 1

Unique == \A s, t \in souls : s.peer = t.peer /\ s.at = t.at => s = t

\* The pin k of peer q remembers the souls of the set t.
Remembers(k, q, t) ==
  /\ k.high # 0 => k.last \in souls /\ k.last.peer = q /\ k.last.at = k.high
  /\ \A s \in t : s.peer = q => /\ k.pinned /\ s.at <= k.high
                                /\ s.at = k.high => k.last = s

AllRemember(b, t) == \A q \in Peers \ rotated : Remembers(b.known[q], q, t)

ImportOnce(p) ==
  p.at \in {"rows", "commit"} =>
    /\ AllRemember(brain, {p.soul})
    /\ Guarded(p) => p.soul \notin taken \/ p.soul.peer \in rotated

OnceInv ==
  /\ Unique
  /\ AllRemember(brain, taken)
  /\ txn => AllRemember(saved, taken)
  /\ \A i \in Importers : ImportOnce(pend[i])
  /\ SoulOnce

LEMMA CommittedRemembers ==
  ASSUME OnceInv
  PROVE  AllRemember(Committed, taken)
BY DEF OnceInv, Committed

\* More souls, more peers that changed their key, fewer souls taken.
LEMMA RemembersMore ==
  ASSUME NEW b, NEW t, AllRemember(b, t), souls \subseteq souls', rotated \subseteq rotated',
         NEW u, u \subseteq t
  PROVE  AllRemember(b, u)'
BY DEF AllRemember, Remembers

\* The pin that an accepted soul leaves, when the key is the one that is pinned.
LEMMA RepinnedRemembers ==
  ASSUME Unique, NEW s \in souls, s \in Souls, NEW pin \in Pins,
         NEW t, t \subseteq Souls, Remembers(pin, s.peer, t),
         pin.pinned => pin.key = s.key, NEW over, ~Refused(pin, s, over)
  PROVE  /\ Remembers(Repinned(pin, pin, s), s.peer, t \union {s})
         /\ pin.pinned /\ ~over.replay => s \notin t
<1>1. /\ s.at \in Nat /\ s.at # 0 /\ pin.high \in Nat /\ \A u \in t : u.at \in Nat /\ u.at # 0
  BY GateAssumption DEF Souls, Times, Pins
<1>2. CASE ~pin.pinned
  <2>1. Repinned(pin, pin, s) = Pinned(s.key, s.at, s)
    BY <1>2 DEF Repinned, Contact
  <2> QED BY <1>1, <1>2, <2>1 DEF Remembers, Pinned
<1>3. CASE pin.pinned
  <2>1. Repinned(pin, pin, s) = Return(pin, pin, s)
    BY <1>3 DEF Repinned
  <2>2. CASE pin.high = 0 \/ s.at > pin.high
    <3>1. Repinned(pin, pin, s) = Pinned(pin.key, s.at, s)
      BY <1>3, <2>1, <2>2 DEF Return
    <3>2. \A u \in t : u.peer = s.peer => u.at < s.at
      BY <1>1, <2>2 DEF Remembers
    <3> QED BY <1>1, <3>1, <3>2 DEF Remembers, Pinned
  <2>3. CASE pin.high # 0 /\ s.at <= pin.high
    <3>1. Repinned(pin, pin, s) = pin
      BY <1>1, <2>1, <2>3 DEF Return
    <3>2. s.at = pin.high => pin.last = s
      BY <2>3 DEF Remembers, Unique
    <3>3. ~over.replay => ~Replay(pin, s)
      BY <1>3 DEF Refused
    <3>4. over.replay
      BY <1>1, <2>3, <3>2, <3>3 DEF Replay, IsOlder, IsExactReconsume
    <3> QED BY <1>3, <2>3, <3>1, <3>2, <3>4 DEF Remembers
  <2> QED BY <1>1, <2>2, <2>3
<1> QED BY <1>2, <1>3

LEMMA OnceStart ==
  ASSUME OneASecond, GateInv, SerialInv, OnceInv,
         NEW i \in Importers, NEW s, NEW over, Start(i, s, over)
  PROVE  OnceInv'
<1> DEFINE n == [at |-> "lookup", soul |-> s, over |-> over, pin |-> Unknown]
<1>1. pend' = [pend EXCEPT ![i] = n] /\ saved' = Committed
      /\ UNCHANGED <<brain, taken, twice, rotated, souls>>
  BY DEF Start, Keep
<1>2. \A j \in Importers : pend'[j].at = "lookup"
  <2>1. n.at = "lookup"
    OBVIOUS
  <2> HIDE DEF n
  <2> QED BY <1>1, <2>1, TheImportMoves DEF OneASecond
<1>3. \A j \in Importers : ImportOnce(pend[j])'
  BY <1>2 DEF ImportOnce
<1>4. AllRemember(Committed, taken) /\ AllRemember(brain, taken)
  BY CommittedRemembers DEF OnceInv
<1>5. AllRemember(brain, taken)' /\ AllRemember(saved, taken)'
  BY <1>1, <1>4 DEF AllRemember, Remembers
<1> QED BY <1>1, <1>3, <1>5 DEF OnceInv, Unique, SoulOnce

\* A step of an import that writes no pin, and does not end it.
LEMMA OnceInside ==
  ASSUME OneASecond, GateInv, SerialInv, OnceInv, NEW i \in Importers,
         Lookup(i) \/ ApplyRows(i) \/ RowsFail(i)
  PROVE  OnceInv'
<1>1. UNCHANGED <<txn, saved, taken, twice, rotated, souls>>
  BY DEF Lookup, ApplyRows, RowsFail, Keep
<1>2. brain'.known = brain.known
  BY DEF Lookup, ApplyRows, RowsFail, GateInv, TypeOK, Brains
<1>3. \A t : AllRemember(brain, t) => AllRemember(brain, t)'
  BY <1>1, <1>2 DEF AllRemember, Remembers
<1>4. AllRemember(brain, taken)' /\ (txn' => AllRemember(saved, taken)')
  BY <1>1, <1>3 DEF OnceInv, AllRemember, Remembers
<1>5. \A j \in Importers : ImportOnce(pend[j])'
  <2>1. PICK n : /\ pend' = [pend EXCEPT ![i] = n]
                 /\ n.at \in {"rows", "commit"} =>
                      /\ n.at = "commit" /\ pend[i].at = "rows"
                      /\ n.soul = pend[i].soul /\ n.over = pend[i].over /\ n.pin = pend[i].pin
    <3>1. CASE Lookup(i)
      <4> DEFINE at == IF TooFarAhead(pend[i].soul) THEN "rollback" ELSE "gate"
                 n == Read(pend[i], at, brain.known[pend[i].soul.peer])
      <4>1. pend' = [pend EXCEPT ![i] = n] /\ n.at \notin {"rows", "commit"}
        BY <3>1 DEF Lookup, Read
      <4> HIDE DEF n
      <4> QED BY <4>1
    <3>2. CASE ApplyRows(i) \/ RowsFail(i)
      <4>1. PICK at \in {"commit", "rollback"} :
              /\ pend' = [pend EXCEPT ![i] = Going(pend[i], at)]
              /\ at = "commit" => pend[i].at = "rows"
        BY <3>2 DEF ApplyRows, RowsFail
      <4>2. /\ Going(pend[i], at).at = at /\ Going(pend[i], at).soul = pend[i].soul
            /\ Going(pend[i], at).over = pend[i].over /\ Going(pend[i], at).pin = pend[i].pin
        BY GoingFields DEF GateInv, TypeOK
      <4> QED BY <4>1, <4>2
    <3> QED BY <3>1, <3>2
  <2>2. \A j \in Importers : pend'[j] = n
    BY <2>1, TheImportMoves DEF OneASecond
  <2> PICK soul : soul = pend[i].soul
    OBVIOUS
  <2>3. pend[i].at = "rows" =>
          /\ AllRemember(brain, {soul})'
          /\ Guarded(pend[i]) => soul \notin taken \/ soul.peer \in rotated
    <3>1. pend[i].at = "rows" =>
            /\ AllRemember(brain, {soul})
            /\ Guarded(pend[i]) => soul \notin taken \/ soul.peer \in rotated
      BY DEF OnceInv, ImportOnce
    <3> QED BY <1>3, <3>1
  <2>4. n.at \in {"rows", "commit"} =>
          /\ AllRemember(brain, {soul})' /\ n.soul = soul
          /\ Guarded(n) => n.soul \notin taken' \/ n.soul.peer \in rotated'
    BY <1>1, <2>1, <2>3 DEF Guarded
  <2> QED BY <2>2, <2>4 DEF ImportOnce, AllRemember, Remembers, Guarded
<1> QED BY <1>1, <1>4, <1>5 DEF OnceInv, Unique, SoulOnce

LEMMA OnceGate ==
  ASSUME OneASecond, GateInv, SerialInv, OnceInv, NEW i \in Importers, Gate(i)
  PROVE  OnceInv'
<1> DEFINE p == pend[i]
           q == p.soul.peer
           pin == Repinned(brain.known[q], p.pin, p.soul)
<1>1. p.at = "gate" /\ UNCHANGED <<txn, saved, taken, twice, souls>> /\ rotated \subseteq rotated'
  BY DEF Gate, Keep
<1>2. /\ p \in Imports /\ p.soul \in souls /\ p.soul \in Souls /\ q \in Peers
      /\ p.pin = brain.known[q] /\ p.pin \in Pins /\ taken \subseteq Souls
  <2>1. p \in Imports /\ p.soul \in souls /\ p.soul \in Souls /\ q \in Peers
    BY <1>1, SoulsType DEF GateInv, TypeOK, ImportTrue
  <2>2. p.pin = brain.known[q]
    BY <1>1 DEF SerialInv, ImportSerial
  <2> QED BY <2>1, <2>2, BrainsType DEF GateInv, TypeOK
<1>3. txn' => AllRemember(saved, taken)'
  <2>1. txn => AllRemember(saved, taken)'
    BY <1>1, RemembersMore DEF OnceInv
  <2> QED BY <1>1, <2>1 DEF AllRemember, Remembers
<1>4. SoulOnce' /\ Unique'
  BY <1>1 DEF OnceInv, SoulOnce, Unique
<1>5. CASE Refused(p.pin, p.soul, p.over)
  <2>1. pend' = [pend EXCEPT ![i] = Going(p, "rollback")] /\ brain' = brain
    BY <1>5 DEF Gate
  <2>2. Going(p, "rollback").at = "rollback"
    BY <1>2, GoingFields
  <2>3. \A j \in Importers : pend'[j].at = "rollback"
    BY <2>1, <2>2, TheImportMoves DEF OneASecond
  <2>4. AllRemember(brain, taken)'
    BY <1>1, <2>1 DEF OnceInv, AllRemember, Remembers
  <2> QED BY <1>3, <1>4, <2>3, <2>4 DEF OnceInv, ImportOnce
<1>6. CASE ~Refused(p.pin, p.soul, p.over)
  <2>1. pend' = [pend EXCEPT ![i] = Going(p, "rows")] /\ brain' = WithPin(brain, q, pin)
    BY <1>6 DEF Gate
  <2>2. /\ Going(p, "rows").at = "rows" /\ Going(p, "rows").soul = p.soul
        /\ Going(p, "rows").over = p.over /\ Going(p, "rows").pin = p.pin
    BY <1>2, GoingFields
  <2>3. \A j \in Importers : pend'[j] = Going(p, "rows")
    BY <2>1, TheImportMoves DEF OneASecond
  <2>4. brain'.known[q] = pin /\ \A r \in Peers \ {q} : brain'.known[r] = brain.known[r]
    BY <1>2, <2>1 DEF WithPin, GateInv, TypeOK, Brains
  <2>5. ASSUME q \notin rotated'
        PROVE  /\ Remembers(pin, q, taken \union {p.soul})
               /\ Guarded(p) => p.soul \notin taken
    <3>1. p.pin.pinned => p.pin.key = p.soul.key
      BY <2>5 DEF Gate
    <3>2. Remembers(p.pin, q, taken)
      BY <1>1, <1>2, <2>5 DEF OnceInv, AllRemember
    <3> HIDE DEF p
    <3> QED BY <1>2, <1>6, <3>1, <3>2, RepinnedRemembers DEF OnceInv, Guarded
  <2>6. ASSUME NEW r \in Peers \ rotated'
        PROVE  Remembers(brain'.known[r], r, taken) /\ Remembers(brain'.known[r], r, {p.soul})
    <3>1. CASE r = q
      <4> HIDE DEF pin, p
      <4>1. Remembers(pin, q, taken \union {p.soul})
        BY <2>5, <2>6, <3>1
      <4> QED BY <2>4, <3>1, <4>1 DEF Remembers
    <3>2. CASE r # q
      <4>1. Remembers(brain.known[r], r, taken)
        BY <1>1, <2>6 DEF OnceInv, AllRemember
      <4> HIDE DEF pin
      <4> QED BY <2>4, <2>6, <3>2, <4>1 DEF Remembers
    <3> QED BY <3>1, <3>2
  <2> HIDE DEF pin
  <2>7. AllRemember(brain, taken)'
    BY <1>1, <2>6 DEF AllRemember, Remembers
  <2>8. \A j \in Importers : ImportOnce(pend[j])'
    <3> PICK soul : soul = p.soul
      OBVIOUS
    <3>1. AllRemember(brain, {soul})'
      BY <1>1, <2>6 DEF AllRemember, Remembers
    <3>2. Guarded(p) => soul \notin taken' \/ soul.peer \in rotated'
      BY <1>1, <2>5
    <3> HIDE DEF p
    <3>3. Guarded(Going(p, "rows")) = Guarded(p)
      BY <2>2 DEF Guarded
    <3>4. ASSUME NEW j \in Importers PROVE ImportOnce(pend[j])'
      <4>1. (pend[j])' = Going(p, "rows")
        BY <2>3
      <4> QED BY <4>1, <2>2, <3>1, <3>2, <3>3 DEF ImportOnce, AllRemember, Remembers, Guarded
    <3> QED BY <3>4
  <2> QED BY <1>3, <1>4, <2>7, <2>8 DEF OnceInv
<1> QED BY <1>5, <1>6

LEMMA OnceCommit ==
  ASSUME OneASecond, GateInv, SerialInv, OnceInv, NEW i \in Importers, Commit(i)
  PROVE  OnceInv'
<1>1. /\ pend[i].at = "commit" /\ taken' = taken \union {pend[i].soul}
      /\ UNCHANGED <<brain, rotated, souls>> /\ txn' = FALSE
      /\ pend' = [pend EXCEPT ![i] = Idle]
  BY DEF Commit, Keep
<1>2. /\ AllRemember(brain, taken) /\ AllRemember(brain, {pend[i].soul})
      /\ Guarded(pend[i]) => pend[i].soul \notin taken \/ pend[i].soul.peer \in rotated
  BY <1>1 DEF OnceInv, ImportOnce
<1>3. AllRemember(brain, taken)'
  BY <1>1, <1>2 DEF AllRemember, Remembers
<1>4. SoulOnce'
  BY <1>1, <1>2 DEF Commit, OnceInv, SoulOnce
<1>5. \A j \in Importers : pend'[j] = Idle
  BY <1>1, TheImportMoves DEF OneASecond
<1>6. \A j \in Importers : ImportOnce(pend[j])'
  BY <1>5 DEF ImportOnce, Idle
<1> QED BY <1>1, <1>3, <1>4, <1>6 DEF OnceInv, Unique

LEMMA OnceUndo ==
  ASSUME OneASecond, GateInv, SerialInv, OnceInv, Crash \/ \E i \in Importers : Rollback(i)
  PROVE  OnceInv'
<1>1. brain' = Committed /\ txn' = FALSE /\ UNCHANGED <<taken, twice, rotated, souls>>
  BY DEF Crash, Rollback, Undone, Keep
<1>2. \A j \in Importers : pend'[j] = Idle
  <2>1. CASE Crash
    BY <2>1 DEF Crash
  <2>2. ASSUME NEW i \in Importers, Rollback(i) PROVE \A j \in Importers : pend'[j] = Idle
    BY <2>2, TheImportMoves DEF Rollback, OneASecond
  <2> QED BY <2>1, <2>2
<1>3. AllRemember(brain, taken)'
  BY <1>1, CommittedRemembers DEF AllRemember, Remembers
<1>4. \A j \in Importers : ImportOnce(pend[j])'
  BY <1>2 DEF ImportOnce, Idle
<1> QED BY <1>1, <1>3, <1>4 DEF OnceInv, Unique, SoulOnce

LEMMA OncePins ==
  ASSUME OneASecond, GateInv, SerialInv, OnceInv, NEW q \in Peers,
         Forget(q) \/ \E k \in Keys : PinOutOfBand(q, k)
  PROVE  OnceInv'
<1>1. \A j \in Importers : pend[j] = Idle
  BY DEF Forget, PinOutOfBand, Undisturbed, OneAtATime, OneASecond
<1>2. /\ ~txn /\ UNCHANGED <<txn, pend, twice, souls>>
      /\ rotated \subseteq rotated' /\ taken' \subseteq taken
  BY <1>1 DEF SerialInv, Idle, Forget, PinOutOfBand, Keep
<1>3. \A r \in Peers \ {q} : brain'.known[r] = brain.known[r]
  BY SerialPins DEF OneASecond
<1>4. q \notin rotated' => Remembers(brain'.known[q], q, taken')
  <2>1. CASE Forget(q)
    <3>1. brain'.known[q] = Unknown /\ \A s \in taken' : s.peer # q
      BY <2>1 DEF Forget, WithPin, GateInv, TypeOK, Brains
    <3> QED BY <3>1 DEF Remembers, Unknown
  <2>2. ASSUME NEW k \in Keys, PinOutOfBand(q, k), q \notin rotated'
        PROVE Remembers(brain'.known[q], q, taken')
    <3>1. /\ brain'.known[q] = Pinned(k, brain.known[q].high, brain.known[q].last)
          /\ taken' = taken
      BY <2>2 DEF PinOutOfBand, WithPin, GateInv, TypeOK, Brains
    <3>2. Remembers(brain.known[q], q, taken)
      BY <1>2, <2>2 DEF OnceInv, AllRemember
    <3> QED BY <3>1, <3>2 DEF Remembers, Pinned
  <2> QED BY <2>1, <2>2
<1>5. ASSUME NEW r \in Peers \ rotated' PROVE Remembers(brain'.known[r], r, taken')
  <2>1. CASE r = q
    BY <1>4, <1>5, <2>1
  <2>2. CASE r # q
    <3>1. Remembers(brain.known[r], r, taken)
      BY <1>2, <1>5 DEF OnceInv, AllRemember
    <3> QED BY <1>2, <1>3, <1>5, <2>2, <3>1 DEF Remembers
  <2> QED BY <2>1, <2>2
<1>6. AllRemember(brain, taken)'
  BY <1>2, <1>5 DEF AllRemember, Remembers
<1>7. \A j \in Importers : ImportOnce(pend[j])'
  BY <1>1, <1>2 DEF ImportOnce, Idle
<1> QED BY <1>2, <1>6, <1>7 DEF OnceInv, Unique, SoulOnce

\* A peer exports at most one soul a second.
LEMMA ExportsUnique ==
  ASSUME OneASecond, GateInv, Unique, NEW q \in Peers, Export(q)
  PROVE  Unique'
<1> DEFINE before == {s \in souls : s.peer = q /\ s.at = clock[q]}
           new == [peer |-> q, key |-> key[q], at |-> clock[q], no |-> Cardinality(before) + 1]
<1>1. before = {}
  <2>1. IsFiniteSet(before)
    BY FS_Subset DEF GateInv
  <2>2. Cardinality(before) < 1
    BY DEF Export, OneASecond
  <2> HIDE DEF before
  <2>3. Cardinality(before) = 0
    BY <2>1, <2>2, FS_CardinalityType
  <2> QED BY <2>1, <2>3, FS_EmptySet
<1>2. souls' = souls \union {new} /\ new.peer = q /\ new.at = clock[q]
  BY DEF Export
<1> HIDE DEF new
<1>3. \A s \in souls : ~(s.peer = new.peer /\ s.at = new.at)
  BY <1>1, <1>2
<1> HIDE DEF before
<1> QED BY <1>2, <1>3 DEF Unique

LEMMA OnceWorld ==
  ASSUME OnceInv, KeepBrain, souls \subseteq souls', Unique'
  PROVE  OnceInv'
<1>1. \A b, t : AllRemember(b, t) => AllRemember(b, t)'
  BY DEF AllRemember, Remembers, KeepBrain
<1>2. AllRemember(brain, taken)' /\ (txn' => AllRemember(saved, taken)')
  BY <1>1 DEF OnceInv, KeepBrain, AllRemember, Remembers
<1>3. ASSUME NEW i \in Importers PROVE ImportOnce(pend[i])'
  <2>1. pend'[i] = pend[i] /\ UNCHANGED <<brain, taken, rotated>>
    BY DEF KeepBrain
  <2>2. pend[i].at \in {"rows", "commit"} => AllRemember(brain, {pend[i].soul})'
    BY <1>1, <2>1 DEF OnceInv, ImportOnce, AllRemember, Remembers
  <2> QED BY <2>1, <2>2 DEF OnceInv, ImportOnce, AllRemember, Remembers, Guarded
<1> QED BY <1>2, <1>3 DEF OnceInv, SoulOnce, KeepBrain

LEMMA OnceStep ==
  ASSUME OneASecond, GateInv, SerialInv, OnceInv, [Next]_vars
  PROVE  OnceInv'
<1>1. ASSUME NEW i \in Importers, Import(i) PROVE OnceInv'
  BY <1>1, OnceInside, OnceGate, OnceCommit, OnceUndo DEF Import
<1>2. ASSUME NEW i \in Importers, NEW s \in souls, NEW over \in Overrides, Start(i, s, over)
      PROVE OnceInv'
  BY <1>2, OnceStart
<1>3. ASSUME NEW q \in Peers, Forget(q) \/ \E k \in Keys : PinOutOfBand(q, k) PROVE OnceInv'
  BY <1>3, OncePins
<1>4. CASE Tick \/ \E q \in Peers : PeerTick(q) \/ Export(q) \/ \E k \in Keys : NewKey(q, k)
  <2>1. KeepBrain /\ souls \subseteq souls'
    BY <1>4, PeersKeep
  <2>2. Unique'
    <3>1. (Tick \/ \E q \in Peers : PeerTick(q) \/ \E k \in Keys : NewKey(q, k)) => souls' = souls
      BY DEF Tick, PeerTick, NewKey
    <3>2. ASSUME NEW q \in Peers, Export(q) PROVE Unique'
      BY <3>2, ExportsUnique DEF OnceInv
    <3> QED BY <1>4, <3>1, <3>2 DEF OnceInv, Unique
  <2> QED BY <2>1, <2>2, OnceWorld
<1>5. CASE Crash
  BY <1>5, OnceUndo
<1>6. CASE UNCHANGED vars
  <2>1. KeepBrain /\ souls' = souls
    BY <1>6 DEF vars, KeepBrain
  <2> QED BY <2>1, OnceWorld DEF OnceInv, Unique
<1> QED BY <1>1, <1>2, <1>3, <1>4, <1>5, <1>6 DEF Next

\* Where a peer exports at most once a second and imports do not overlap, no
\* soul comes in twice while its peer keeps its key, unless an override asks
\* for it, in whatever order souls arrive and whatever fails.
THEOREM ComesInOnce ==
  ASSUME OneASecond
  PROVE  Spec => []SoulOnce
<1>1. Init => OnceInv
  BY DEF Init, OnceInv, Unique, AllRemember, Remembers, Blank, Unknown, ImportOnce, Idle, SoulOnce
<1>2. GateInv /\ SerialInv /\ OnceInv /\ [Next]_vars => OnceInv'
  BY OnceStep
<1>3. OnceInv => SoulOnce
  BY DEF OnceInv
<1>4. Spec => []SerialInv
  BY SerialAlways DEF OneASecond
<1> QED BY <1>1, <1>2, <1>3, <1>4, GateAlways, PTL DEF Spec

=============================================================================
