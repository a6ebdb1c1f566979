----------------------------- MODULE DatabaseProofs -----------------------------
(***************************************************************************)
(* Proofs about the database that is open: how it is replaced on disk      *)
(* (SwapRecovery), and how its instance is renewed under the calls that    *)
(* use it (InstanceArmor).                                                 *)
(*                                                                         *)
(* Of SwapRecovery: wherever the process is killed, and however many users *)
(* there are, init never bootstraps over recoverable data, the brain that  *)
(* opens is a whole store, and its data is what its users had or, from     *)
(* rename#1 on, the snapshot's.                                            *)
(*                                                                         *)
(* The argument: once there is a brain, it is always in one of two places. *)
(* Either brain is a whole store with lawful data (Live), or it has been   *)
(* moved aside and old and new are both whole and lawful (Parted), which   *)
(* lasts from rename#1 to rename#2 or the recovery's move.  What is lawful *)
(* is what the users had, and the snapshot only while it is undecided      *)
(* which of the two the brain will be.  With one caller no write is lost   *)
(* either, because the safety snapshot has them all.                       *)
(*                                                                         *)
(* Of InstanceArmor: no answer of a broken instance is taken for an empty  *)
(* one, and nobody goes on with a dead instance, for any number of callers *)
(* and breaks.                                                             *)
(***************************************************************************)
EXTENDS SwapRecovery, InstanceArmor, TLAPS

-----------------------------------------------------------------------------
(* SwapRecovery *)

\* A whole store with data that the brain may open with.
Trusty(n) == dir[n].st = "whole" /\ dir[n].data \in {had} \union offered

\* The brain is where it belongs.
Live == Trusty("brain")

\* The brain is between rename#1 and whatever ends the swap.
Parted == dir["brain"] = Gone /\ Trusty("old") /\ Trusty("new")

\* Nothing has ever been on disk.
Fresh == \A n \in Names : dir[n] = Gone

\* The places where the brain may be parted, and those where it must be.
MayPart == {"down", "offline", "recover", "forward", "forwardMove", "back", "backMove", "rename2"}
MustPart == {"forward", "forwardMove", "back", "backMove", "rename2"}

\* Where the brain is, by how far the process has come.
Placed ==
  \/ booted = 0 /\ Fresh /\ pc \in {"down", "offline", "recover", "boot"} /\ had = {}
  \/ booted = 1 /\ Live /\ pc \notin MustPart
  \/ booted = 1 /\ Parted /\ pc \in MayPart

\* The target is loaded before rename#1, and stays there until rename#2.
Targeted == pc \in {"journal", "rename1", "rename2"} => dir["new"] = Whole(target)

\* Whether the brain will be the snapshot is open from rename#1 to rename#2 only,
\* and when that was cut short until a recovery has ended.
Decided == pc \in {"rename2", "down", "offline"} \union RecoveryPlaces \/ offered = {}

Kept == Placed /\ Targeted /\ Decided

-----------------------------------------------------------------------------
(* Types *)

\* What the directory operations return is a directory table again.
LEMMA DirTypes ==
  ASSUME TypeOK
  PROVE  /\ \A from, to \in Names : Moved(from, to) \in [Names -> Stores]
         /\ \A n \in Names, st \in States : Removed(n, st) \in [Names -> Stores]
         /\ \A n \in Names : \A st \in Remnants(n) : Removed(n, st) \in [Names -> Stores]
         /\ \A n \in Names, data \in SUBSET Writes :
              [dir EXCEPT ![n] = Whole(data)] \in [Names -> Stores]
         /\ \A n \in Names, st \in States : [dir EXCEPT ![n].st = st] \in [Names -> Stores]
         /\ \A n \in Names, data \in SUBSET Writes :
              [dir EXCEPT ![n].data = @ \union data] \in [Names -> Stores]
<1> USE DEF TypeOK
<1>1. Gone \in Stores /\ \A data \in SUBSET Writes : Whole(data) \in Stores
  BY DEF Gone, Whole, Stores, States
<1>2. \A st \in States : [st |-> st, data |-> {}] \in Stores
  BY DEF Stores
<1>3. \A n \in Names : Remnants(n) \subseteq States
  BY DEF Remnants, States
<1>4. \A n \in Names : dir[n] \in Stores
  OBVIOUS
<1>5. \A n \in Names, st \in States : [dir[n] EXCEPT !.st = st] \in Stores
  BY <1>4 DEF Stores
<1>6. \A n \in Names, data \in SUBSET Writes :
        [dir[n] EXCEPT !.data = dir[n].data \union data] \in Stores
  BY <1>4 DEF Stores
<1>7. \A from, to \in Names : Moved(from, to) \in [Names -> Stores]
  BY <1>1, <1>4 DEF Moved
<1>8. \A n \in Names, st \in States : Removed(n, st) \in [Names -> Stores]
  BY <1>2, <1>4 DEF Removed
<1>9. \A n \in Names, st \in States : [dir EXCEPT ![n].st = st] \in [Names -> Stores]
  BY <1>5
<1>10. \A n \in Names, data \in SUBSET Writes :
         [dir EXCEPT ![n].data = @ \union data] \in [Names -> Stores]
  BY <1>6
<1> QED BY <1>1, <1>3, <1>7, <1>8, <1>9, <1>10

\* The initial state has the shapes.
LEMMA TypeInit == Init => TypeOK
<1> SUFFICES ASSUME Init PROVE TypeOK
  OBVIOUS
<1>1. Gone \in Stores
  BY DEF Gone, Stores, States
<1>2. dir \in [Names -> Stores]
  BY <1>1 DEF Init
<1>3. pend \in [Callers -> SUBSET Writes]
  BY DEF Init
<1>4. pc \in Places
  BY DEF Init, Places
<1> QED BY <1>2, <1>3, <1>4 DEF Init, TypeOK

\* Every step keeps the variables' shapes.
LEMMA TypeStep == TypeOK /\ [Next]_vars => TypeOK'
<1> SUFFICES ASSUME TypeOK, [Next]_vars PROVE TypeOK'
  OBVIOUS
<1>0. "brain" \in Names /\ "old" \in Names /\ "new" \in Names /\ "none" \in States
      /\ "torn" \in States /\ "bare" \in States
  BY DEF Names, States
<1> USE DEF TypeOK
<1>1. CASE UNCHANGED vars
  BY <1>1 DEF vars
<1>2. CASE InitStart
  BY <1>2 DEF InitStart, Goto, KeepUsers, Places, RecoveryPlaces
<1>3. CASE Recovery
  <2> USE DEF Goto, KeepUsers
  <2>1. CASE Recover
    <3>1. Plan \in Places
      BY DEF Plan, Places, RecoveryPlaces
    <3> QED BY <2>1, <3>1 DEF Recover
  <2>2. CASE Unlink
    BY <2>2 DEF Unlink, Cleared, Places, RecoveryPlaces
  <2>3. CASE Boot
    <3>1. dir' \in [Names -> Stores] /\ booted' \in Nat
      <4>1. CASE Valid("brain")
        BY <2>3, <4>1 DEF Boot
      <4>2. CASE ~Valid("brain")
        <5>1. dir' = [dir EXCEPT !["brain"] = Whole({})] /\ booted' = booted + 1
          BY <2>3, <4>2 DEF Boot
        <5>2. [dir EXCEPT !["brain"] = Whole({})] \in [Names -> Stores]
          BY <1>0, DirTypes
        <5> QED BY <5>1, <5>2
      <4> QED BY <4>1, <4>2
    <3>2. pc' \in Places
      BY <2>3 DEF Boot, Places
    <3>3. UNCHANGED <<journal, snaps, target, swapper, swapping, pend, acked>>
      BY <2>3 DEF Boot
    <3>4. had' \subseteq Writes /\ offered' \subseteq SUBSET Writes
      <4>1. had' \in offered \/ had' = had
        BY <2>3 DEF Boot
      <4>2. offered' = {}
        BY <2>3 DEF Boot
      <4> QED BY <4>1, <4>2
    <3> QED BY <3>1, <3>2, <3>3, <3>4
  <2>4. ASSUME NEW place, NEW n \in Names, NEW next \in Places, RecoveryRemove(place, n, next)
        PROVE  TypeOK'
    <3>1. dir' \in [Names -> Stores]
      BY <2>4, <1>0, DirTypes DEF RecoveryRemove
    <3>2. pc' \in Places
      BY <2>4 DEF RecoveryRemove
    <3> QED BY <2>4, <3>1, <3>2 DEF RecoveryRemove
  <2>5. ASSUME NEW place, NEW from \in Names, NEW next \in Places, RecoveryMove(place, from, next)
        PROVE  TypeOK'
    <3>1. dir' \in [Names -> Stores]
      BY <2>5, <1>0, DirTypes DEF RecoveryMove
    <3>2. pc' \in Places
      BY <2>5 DEF RecoveryMove, Places
    <3> QED BY <2>5, <3>1, <3>2 DEF RecoveryMove
  <2>6. {"forwardMove", "tidyOld", "backMove", "tidyNew", "unlink"} \subseteq Places
    BY DEF Places, RecoveryPlaces
  <2> QED BY <1>0, <1>3, <2>1, <2>2, <2>3, <2>4, <2>5, <2>6 DEF Recovery
<1>4. CASE Swap
  <2> USE DEF Ended, Goto, KeepSwap, KeepCall, KeepData
  <2>1. SwapPlaces \union {"open", "offline"} \subseteq Places
    BY DEF Places
  <2>2. CASE BlockUsers
    BY <2>2 DEF BlockUsers, Places, SwapPlaces
  <2>3. ASSUME NEW place, NEW n \in Names, NEW next \in Places, SwapRemove(place, n, next)
        PROVE  TypeOK'
    <3>1. dir' \in [Names -> Stores]
      BY <2>3, <1>0, DirTypes DEF SwapRemove
    <3> QED BY <2>3, <3>1 DEF SwapRemove
  <2>4. CASE Load
    <3>1. dir' \in [Names -> Stores]
      <4>1. [dir EXCEPT !["new"] = Whole(target)] \in [Names -> Stores]
        BY <1>0, DirTypes
      <4>2. \A st \in States : [dir EXCEPT !["new"].st = st] \in [Names -> Stores]
        BY <1>0, DirTypes
      <4> QED BY <2>4, <1>0, <4>1, <4>2 DEF Load, Verified
    <3> QED BY <2>4, <3>1 DEF Load, Places, SwapPlaces
  <2>5. CASE Journal
    BY <2>5 DEF Journal, Written, Places, SwapPlaces
  <2>6. CASE Abort
    <3>1. dir' \in [Names -> Stores]
      BY <2>6, <1>0, DirTypes DEF Abort
    <3> QED BY <2>6, <3>1, <2>1 DEF Abort
  <2>7. CASE Rename1
    <3>1. dir' \in [Names -> Stores]
      BY <2>7, <1>0, DirTypes DEF Rename1
    <3> QED BY <2>7, <3>1 DEF Rename1, Places, SwapPlaces
  <2>8. CASE Undo
    <3>1. dir' \in [Names -> Stores]
      BY <2>8, <1>0, DirTypes DEF Undo
    <3> QED BY <2>8, <3>1, <2>1 DEF Undo, Cleared
  <2>9. CASE Rename2
    <3>1. dir' \in [Names -> Stores]
      BY <2>9, <1>0, DirTypes DEF Rename2
    <3> QED BY <2>9, <3>1 DEF Rename2, Places, SwapPlaces
  <2>10. CASE Clear
    BY <2>10 DEF Clear, Cleared, Places, SwapPlaces
  <2>11. CASE ReopenBrain
    BY <2>11 DEF ReopenBrain, Places, SwapPlaces
  <2>12. CASE Cleanup
    <3>1. dir' \in [Names -> Stores]
      BY <2>12, <1>0, DirTypes DEF Cleanup
    <3> QED BY <2>12, <3>1, <2>1 DEF Cleanup
  <2>13. {"rmOld", "load"} \subseteq Places
    BY DEF Places, SwapPlaces
  <2> QED BY <1>0, <1>4, <2>2, <2>3, <2>4, <2>5, <2>6, <2>7, <2>8, <2>9, <2>10, <2>11,
             <2>12, <2>13 DEF Swap
<1>5. CASE Crash
  <2>1. pend' \in [Callers -> SUBSET Writes]
    BY <1>5 DEF Crash
  <2> QED BY <1>5, <2>1 DEF Crash, Goto, Places
<1>6. CASE JournalLost
  BY <1>6 DEF JournalLost, KeepUsers
<1>7. ASSUME NEW c \in Callers, NEW w \in Writes, StartWrite(c, w)
      PROVE  TypeOK'
  BY <1>7 DEF StartWrite
<1>8. ASSUME NEW c \in Callers, FinishWrite(c)
      PROVE  TypeOK'
  <2>1. pend[c] \subseteq Writes
    OBVIOUS
  <2>2. [dir EXCEPT !["brain"].data = @ \union pend[c]] \in [Names -> Stores]
    BY <1>0, <2>1, DirTypes
  <2>3. dir' \in [Names -> Stores] /\ acked' \subseteq Writes
    BY <1>8, <2>1, <2>2 DEF FinishWrite
  <2>4. pend' \in [Callers -> SUBSET Writes]
    BY <1>8 DEF FinishWrite
  <2> QED BY <1>8, <2>3, <2>4 DEF FinishWrite
<1>9. ASSUME NEW c \in Callers, Snapshot(c)
      PROVE  TypeOK'
  <2>1. dir["brain"].data \subseteq Writes
    BY <1>0 DEF Stores
  <2> QED BY <1>9, <2>1 DEF Snapshot
<1>10. ASSUME NEW c \in Callers, NEW s \in snaps, StartReplace(c, s)
       PROVE  TypeOK'
  <2>1. dir["brain"].data \subseteq Writes
    BY <1>0 DEF Stores
  <2> QED BY <1>10, <2>1 DEF StartReplace, SafetyNet, Goto, Places, SwapPlaces
<1> QED BY <1>1, <1>2, <1>3, <1>4, <1>5, <1>6, <1>7, <1>8, <1>9, <1>10 DEF Next

\* The variables keep their shapes, with any number of callers and writes.
THEOREM TypeCorrect == Spec => []TypeOK
<1> QED BY TypeInit, TypeStep, PTL DEF Spec

-----------------------------------------------------------------------------
(* The brain is always somewhere *)

\* A store that is moved is at its new name, and nothing at the old one.
LEMMA MoveDirs ==
  ASSUME TypeOK, NEW from \in Names, NEW to \in Names, from # to
  PROVE  /\ Moved(from, to)[to] = dir[from]
         /\ Moved(from, to)[from] = Gone
         /\ \A n \in Names \ {from, to} : Moved(from, to)[n] = dir[n]
  BY DEF TypeOK, Moved

\* Removing a directory leaves the others alone, and does not bring one back.
LEMMA RemoveDirs ==
  ASSUME TypeOK, NEW n \in Names, NEW st
  PROVE  /\ \A m \in Names \ {n} : Removed(n, st)[m] = dir[m]
         /\ dir[n] = Gone => Removed(n, st)[n] = Gone
<1>1. \A m \in Names \ {n} : Removed(n, st)[m] = dir[m]
  BY DEF TypeOK, Removed
<1>2. dir[n] = Gone => Removed(n, st) = dir
  BY DEF Removed, Gone
<1> QED BY <1>1, <1>2

\* Every step leaves the brain live or parted, as far as the process has come.
LEMMA KeptStep == TypeOK /\ Kept /\ [Next]_vars => Kept'
<1> SUFFICES ASSUME TypeOK, Kept, [Next]_vars PROVE Kept'
  OBVIOUS
<1> USE DEF Kept
<1>0. /\ "brain" \in Names /\ "old" \in Names /\ "new" \in Names
      /\ Names = {"brain", "new", "old"}
  BY DEF Names
<1>1. CASE UNCHANGED vars
  BY <1>1 DEF vars, Placed, Targeted, Decided, RecoveryPlaces, Fresh, Live, Parted, Trusty
<1>2. CASE InitStart
  BY <1>2 DEF InitStart, Goto, KeepUsers, Placed, Targeted, Decided, RecoveryPlaces, Fresh, Live, Parted, Trusty, MustPart, MayPart
<1>3. CASE Recovery
  <2> USE DEF KeepUsers, Goto
  <2>1. CASE Recover
    <3>1. booted = 0 => Plan \in {"boot", "offline"}
      BY <2>1, <1>0 DEF Recover, Placed, Fresh, Live, Parted, Trusty, Plan, Valid, Gone
    <3>2. booted = 1 /\ Live => Plan = "tidyOld"
      BY <2>1, <1>0 DEF Recover, Live, Trusty, Plan, Valid
    <3>3. booted = 1 /\ Parted => Plan \in {"forward", "back"}
      BY <2>1, <1>0 DEF Recover, Parted, Trusty, Plan, Valid, Gone
    <3>4. pc' = Plan /\ UNCHANGED <<dir, booted, had, offered, target>>
      BY <2>1 DEF Recover
    <3>5. pc = "recover"
      BY <2>1 DEF Recover
    <3> QED BY <3>1, <3>2, <3>3, <3>4, <3>5
            DEF Placed, Targeted, Decided, RecoveryPlaces, Fresh, Live, Parted, Trusty, MustPart, MayPart
  <2>2. CASE Unlink
    BY <2>2 DEF Unlink, Placed, Targeted, Decided, RecoveryPlaces, Fresh, Live, Parted, Trusty, MustPart, MayPart
  <2>3. CASE Boot
    <3>1. \/ booted = 0 /\ Fresh
          \/ booted = 1 /\ Live
      BY <2>3 DEF Boot, Placed, MayPart
    <3>2. CASE booted = 0 /\ Fresh
      <4>1. ~Valid("brain")
        BY <3>2, <1>0 DEF Fresh, Valid, Gone
      <4>2. booted' = 1 /\ dir'["brain"] = Whole({})
        BY <2>3, <3>2, <4>1, <1>0 DEF Boot, TypeOK
      <4>3. had = {}
        BY <2>3, <3>2 DEF Boot, Placed
      <4>4. had' = {} /\ offered' = {} /\ pc' = "open"
        BY <2>3, <4>2, <4>3 DEF Boot, Whole
      <4> QED BY <4>2, <4>4 DEF Placed, Targeted, Decided, Live, Trusty, Whole, MustPart
    <3>3. CASE booted = 1 /\ Live
      <4>1. Valid("brain")
        BY <3>3 DEF Live, Trusty, Valid
      <4>2. dir' = dir /\ booted' = booted /\ offered' = {} /\ pc' = "open"
            /\ had' = dir["brain"].data
        BY <2>3, <3>3, <4>1 DEF Boot, Live, Trusty
      <4> QED BY <3>3, <4>2 DEF Placed, Targeted, Decided, RecoveryPlaces, Live, Trusty, MustPart
    <3> QED BY <3>1, <3>2, <3>3
  <2>4. CASE RecoveryRemove("forward", "brain", "forwardMove")
    <3>1. booted = 1 /\ Parted
      BY <2>4 DEF RecoveryRemove, Placed, MustPart
    <3>2. dir' = dir
      BY <2>4, <3>1, <1>0 DEF RecoveryRemove, Removed, Parted, Gone
    <3> QED BY <2>4, <3>1, <3>2
            DEF RecoveryRemove, Placed, Targeted, Decided, RecoveryPlaces, Parted, Trusty, MayPart
  <2>5. CASE RecoveryMove("forwardMove", "new", "tidyOld")
    <3>1. booted = 1 /\ Parted
      BY <2>5 DEF RecoveryMove, Placed, MustPart
    <3>2. pc' = "tidyOld" /\ dir'["brain"] = dir["new"]
      BY <2>5, <3>1, <1>0, MoveDirs DEF RecoveryMove, Parted, Gone
    <3> QED BY <2>5, <3>1, <3>2
            DEF RecoveryMove, Placed, Targeted, Decided, RecoveryPlaces, Parted, Live, Trusty, MustPart
  <2>6. CASE RecoveryRemove("back", "brain", "backMove")
    <3>1. booted = 1 /\ Parted
      BY <2>6 DEF RecoveryRemove, Placed, MustPart
    <3>2. dir' = dir
      BY <2>6, <3>1, <1>0 DEF RecoveryRemove, Removed, Parted, Gone
    <3> QED BY <2>6, <3>1, <3>2
            DEF RecoveryRemove, Placed, Targeted, Decided, RecoveryPlaces, Parted, Trusty, MayPart
  <2>7. CASE RecoveryMove("backMove", "old", "tidyNew")
    <3>1. booted = 1 /\ Parted
      BY <2>7 DEF RecoveryMove, Placed, MustPart
    <3>2. pc' = "tidyNew" /\ dir'["brain"] = dir["old"]
      BY <2>7, <3>1, <1>0, MoveDirs DEF RecoveryMove, Parted, Gone
    <3> QED BY <2>7, <3>1, <3>2
            DEF RecoveryMove, Placed, Targeted, Decided, RecoveryPlaces, Parted, Live, Trusty, MustPart
  <2>8. ASSUME NEW place \in {"tidyOld", "tidyNew"}, NEW n \in {"old", "new"},
               NEW next \in {"tidyNew", "unlink"}, RecoveryRemove(place, n, next)
        PROVE  Kept'
    <3>1. booted = 1 /\ Live
      BY <2>8 DEF RecoveryRemove, Placed, MayPart
    <3>2. dir'["brain"] = dir["brain"]
      BY <2>8, <1>0, RemoveDirs DEF RecoveryRemove
    <3> QED BY <2>8, <3>1, <3>2 DEF RecoveryRemove, Placed, Targeted, Decided, RecoveryPlaces, Live, Trusty, MustPart
  <2> QED BY <1>3, <2>1, <2>2, <2>3, <2>4, <2>5, <2>6, <2>7, <2>8 DEF Recovery
<1>4. CASE Swap
  <2> USE DEF Ended, Goto, KeepSwap, KeepCall, KeepData
  <2>1. CASE BlockUsers
    BY <2>1 DEF BlockUsers, Placed, Targeted, Decided, RecoveryPlaces, Live, Trusty, MustPart, MayPart
  <2>2. ASSUME NEW place \in {"rmNew", "rmOld"}, NEW n \in {"old", "new"},
               NEW next \in {"rmOld", "load"}, SwapRemove(place, n, next)
        PROVE  Kept'
    <3>1. booted = 1 /\ Live
      BY <2>2 DEF SwapRemove, Placed, MayPart
    <3>2. dir'["brain"] = dir["brain"]
      BY <2>2, <1>0, RemoveDirs DEF SwapRemove
    <3>3. /\ pc' \in {pc, next} /\ pc = place
          /\ UNCHANGED <<target, booted, had, offered>>
      BY <2>2 DEF SwapRemove
    <3> QED BY <3>1, <3>2, <3>3 DEF Placed, Targeted, Decided, RecoveryPlaces, Live, Trusty, MustPart
  <2>3. CASE Load
    <3>1. booted = 1 /\ Live /\ offered = {}
      BY <2>3 DEF Load, Placed, MayPart, Decided, RecoveryPlaces
    <3>2. dir'["brain"] = dir["brain"]
      BY <2>3, <1>0 DEF Load, TypeOK
    <3>3. pc' = "journal" => dir'["new"] = Whole(target)
      BY <2>3, <1>0 DEF Load, TypeOK, Verified
    <3>4. pc' \in {"journal", "load"} /\ UNCHANGED <<target, booted, had, offered>>
      BY <2>3 DEF Load
    <3> QED BY <3>1, <3>2, <3>3, <3>4 DEF Placed, Targeted, Decided, RecoveryPlaces, Live, Trusty, MustPart
  <2>4. CASE Journal
    BY <2>4 DEF Journal, Placed, Targeted, Decided, RecoveryPlaces, Live, Trusty, MustPart, MayPart
  <2>5. CASE Abort
    <3>1. booted = 1 /\ Live
      BY <2>5 DEF Abort, Placed, MayPart
    <3>2. dir'["brain"] = dir["brain"]
      BY <2>5, <1>0, RemoveDirs DEF Abort
    <3> QED BY <2>5, <3>1, <3>2 DEF Abort, Placed, Targeted, Decided, RecoveryPlaces, Live, Trusty, MustPart
  <2>6. CASE Rename1
    <3>1. /\ booted = 1 /\ Live /\ offered = {}
          /\ dir["new"] = Whole(target)
      BY <2>6 DEF Rename1, Placed, MayPart, Targeted, Decided, RecoveryPlaces
    <3>2. CASE /\ dir' = Moved("brain", "old") /\ Goto("rename2")
               /\ offered' = {target} /\ had' = had /\ KeepCall
      <4>1. /\ dir'["brain"] = Gone /\ dir'["old"] = dir["brain"]
            /\ dir'["new"] = Whole(target)
        BY <3>1, <3>2, <1>0, MoveDirs
      <4>2. /\ pc' = "rename2" /\ booted' = booted /\ target' = target
            /\ offered' = {target} /\ had' = had
        BY <3>2 DEF KeepCall
      <4>3. Parted'
        BY <3>1, <4>1, <4>2 DEF Parted, Live, Trusty, Whole
      <4> QED BY <3>1, <4>1, <4>2, <4>3 DEF Placed, Targeted, Decided, MayPart
    <3>3. CASE dir' = dir /\ Goto("undo") /\ KeepSwap
      BY <3>1, <3>3 DEF Placed, Targeted, Decided, RecoveryPlaces, Live, Trusty, MustPart
    <3>4. CASE dir' = dir /\ Ended("offline") /\ KeepData
      BY <3>1, <3>4 DEF Placed, Targeted, Decided, RecoveryPlaces, Live, Trusty, MustPart
    <3> QED BY <2>6, <3>2, <3>3, <3>4 DEF Rename1
  <2>7. CASE Undo
    <3>1. booted = 1 /\ Live
      BY <2>7 DEF Undo, Placed, MayPart
    <3>2. dir'["brain"] = dir["brain"]
      BY <2>7, <1>0, RemoveDirs DEF Undo
    <3> QED BY <2>7, <3>1, <3>2 DEF Undo, Placed, Targeted, Decided, RecoveryPlaces, Live, Trusty, MustPart
  <2>8. CASE Rename2
    <3>1. booted = 1 /\ Parted /\ dir["new"] = Whole(target)
      BY <2>8 DEF Rename2, Placed, MustPart, Targeted
    <3>2. CASE /\ dir' = Moved("new", "brain") /\ Goto("clear")
               /\ had' = target /\ offered' = {} /\ KeepCall
      <4>1. dir'["brain"] = Whole(target)
        BY <3>1, <3>2, <1>0, MoveDirs
      <4>2. pc' = "clear" /\ booted' = booted /\ had' = target /\ offered' = {}
        BY <3>2 DEF KeepCall
      <4> QED BY <3>1, <4>1, <4>2 DEF Placed, Targeted, Decided, Live, Trusty, Whole, MustPart
    <3>3. CASE dir' = dir /\ Ended("offline") /\ KeepData
      BY <3>1, <3>3 DEF Placed, Targeted, Decided, RecoveryPlaces, Parted, Trusty, MayPart
    <3> QED BY <2>8, <3>2, <3>3 DEF Rename2
  <2>9. CASE Clear
    BY <2>9 DEF Clear, Placed, Targeted, Decided, RecoveryPlaces, Live, Trusty, MustPart, MayPart
  <2>10. CASE ReopenBrain
    BY <2>10 DEF ReopenBrain, Placed, Targeted, Decided, RecoveryPlaces, Live, Trusty, MustPart, MayPart
  <2>11. CASE Cleanup
    <3>1. booted = 1 /\ Live
      BY <2>11 DEF Cleanup, Placed, MayPart
    <3>2. dir'["brain"] = dir["brain"]
      BY <2>11, <1>0, RemoveDirs DEF Cleanup
    <3> QED BY <2>11, <3>1, <3>2 DEF Cleanup, Placed, Targeted, Decided, RecoveryPlaces, Live, Trusty, MustPart
  <2> QED BY <1>4, <2>1, <2>2, <2>3, <2>4, <2>5, <2>6, <2>7, <2>8, <2>9, <2>10, <2>11 DEF Swap
<1>5. CASE Crash
  BY <1>5 DEF Crash, Goto, Placed, Targeted, Decided, RecoveryPlaces, Fresh, Live, Parted, Trusty, MustPart, MayPart
<1>6. CASE JournalLost
  BY <1>6 DEF JournalLost, KeepUsers, Placed, Targeted, Decided, RecoveryPlaces, Fresh, Live, Parted, Trusty
<1>7. ASSUME NEW c \in Callers, NEW w \in Writes, StartWrite(c, w)
      PROVE  Kept'
  BY <1>7 DEF StartWrite, Placed, Targeted, Decided, RecoveryPlaces, Fresh, Live, Parted, Trusty
<1>8. ASSUME NEW c \in Callers, FinishWrite(c)
      PROVE  Kept'
  <2>1. CASE DbOpen
    <3>1. booted = 1 /\ Live /\ offered = {} /\ dir["brain"].data = had
      BY <2>1 DEF DbOpen, Placed, MayPart, Decided, RecoveryPlaces, Live, Trusty
    <3>2. /\ dir'["brain"].st = "whole"
          /\ dir'["brain"].data = had'
          /\ dir'["new"] = dir["new"]
          /\ UNCHANGED <<pc, booted, target, offered>>
      <4>1. dir' = [dir EXCEPT !["brain"].data = @ \union pend[c]]
        BY <1>8, <2>1 DEF FinishWrite
      <4>2. dir["brain"] \in Stores
        BY <1>0 DEF TypeOK
      <4>3. /\ dir'["brain"].st = dir["brain"].st
            /\ dir'["brain"].data = dir["brain"].data \union pend[c]
        BY <1>0, <4>1, <4>2 DEF TypeOK, Stores
      <4>4. dir'["new"] = dir["new"]
        BY <1>0, <4>1 DEF TypeOK
      <4> QED BY <1>8, <2>1, <3>1, <4>3, <4>4 DEF FinishWrite, Live, Trusty
    <3> QED BY <3>1, <3>2, <2>1 DEF DbOpen, Placed, Targeted, Decided, RecoveryPlaces, Live, Trusty, MustPart
  <2>2. CASE ~DbOpen
    BY <1>8, <2>2 DEF FinishWrite, Placed, Targeted, Decided, RecoveryPlaces, Fresh, Live, Parted, Trusty
  <2> QED BY <2>1, <2>2
<1>9. ASSUME NEW c \in Callers, Snapshot(c)
      PROVE  Kept'
  BY <1>9 DEF Snapshot, Placed, Targeted, Decided, RecoveryPlaces, Fresh, Live, Parted, Trusty
<1>10. ASSUME NEW c \in Callers, NEW s \in snaps, StartReplace(c, s)
       PROVE  Kept'
  BY <1>10 DEF StartReplace, Goto, Placed, Targeted, Decided, RecoveryPlaces, Live, Trusty, MustPart, MayPart
<1> QED BY <1>1, <1>2, <1>3, <1>4, <1>5, <1>6, <1>7, <1>8, <1>9, <1>10 DEF Next

\* Once there is a brain it is never nowhere.
LEMMA AlwaysKept == Spec => []Kept
<1>1. Init => Kept
  BY DEF Init, Kept, Placed, Targeted, Decided, Fresh
<1> QED BY <1>1, TypeInit, TypeStep, KeptStep, PTL DEF Spec

\* init never bootstraps an empty brain over recoverable data, however often
\* the process is killed and whatever becomes of the journal.
THEOREM BootsOnce == Spec => []NeverEmptyAgain
<1>1. Kept => NeverEmptyAgain
  BY DEF Kept, Placed, NeverEmptyAgain
<1> QED BY <1>1, AlwaysKept, PTL

\* The brain that opens is a whole store.
THEOREM OpenIsWhole == Spec => []OpensWhole
<1>1. Kept => OpensWhole
  BY DEF Kept, Placed, OpensWhole, DbOpen, Live, Trusty, MayPart
<1> QED BY <1>1, AlwaysKept, PTL

\* The brain that opens has exactly what its users had or, when a replace had
\* moved the live store aside, exactly the snapshot, whatever was cut short and
\* in whatever order recoveries and lost journals follow.
THEOREM ReplaceIsAtomic == Spec => []AllOrNothing
<1>1. Kept => AllOrNothing
  BY DEF Kept, Placed, Decided, AllOrNothing, DbOpen, Live, Trusty, MayPart, RecoveryPlaces
<1> QED BY <1>1, AlwaysKept, PTL

-----------------------------------------------------------------------------
(* No write is lost, if users do not overlap *)

OneCaller == \A b, c \in Callers : b = c

InSnapshot(w) == \E s \in snaps : w \in s

InBrain(w) == dir["brain"].st = "whole" /\ w \in dir["brain"].data

\* The inductive invariant: the safety snapshot stands in for the brain from
\* the start of a swap to its end, and the caller that swaps has no write under
\* way which that snapshot would not have.
Saved ==
  /\ \A w \in acked : InSnapshot(w) \/ (InBrain(w) /\ pc \notin SwapPlaces)
  /\ pc \in SwapPlaces => swapper \in Callers /\ pend[swapper] = {}

\* A step that adds no write and leaves the brain and the snapshots alone.
LEMMA SavedSame ==
  ASSUME Saved, acked' = acked, snaps' = snaps, dir'["brain"] = dir["brain"],
         pc \in SwapPlaces <=> pc' \in SwapPlaces, swapper' = swapper, pend' = pend
  PROVE  Saved'
  BY DEF Saved, InSnapshot, InBrain

\* A step of a swap, or one while the brain is moved aside: all is in snapshots.
LEMMA SavedAside ==
  ASSUME Saved, acked' = acked, snaps' = snaps,
         pc \in SwapPlaces \/ dir["brain"] = Gone,
         pc' \in SwapPlaces => pc \in SwapPlaces /\ swapper' = swapper /\ pend' = pend
  PROVE  Saved'
<1>1. \A w \in acked : InSnapshot(w)
  BY DEF Saved, InBrain, Gone
<1>2. \A w \in acked' : InSnapshot(w)'
  BY <1>1 DEF InSnapshot
<1> QED BY <1>2 DEF Saved

\* No step of one caller, and no crash, loses a write.
LEMMA SavedStep ==
  ASSUME OneCaller
  PROVE  TypeOK /\ Kept /\ Saved /\ [Next]_vars => Saved'
<1> SUFFICES ASSUME TypeOK, Kept, Saved, [Next]_vars PROVE Saved'
  OBVIOUS
<1>0. /\ "brain" \in Names /\ "old" \in Names /\ "new" \in Names
  BY DEF Names
<1>1. CASE UNCHANGED vars
  BY <1>1, SavedSame DEF vars
<1>2. CASE InitStart
  BY <1>2, SavedSame DEF InitStart, Goto, KeepUsers, SwapPlaces
<1>3. CASE Recovery
  <2> USE DEF KeepUsers, Goto
  <2>1. CASE Recover
    <3>1. Plan \notin SwapPlaces
      BY DEF Plan, SwapPlaces
    <3> QED BY <2>1, <3>1, SavedSame DEF Recover, SwapPlaces
  <2>2. CASE Unlink
    BY <2>2, SavedSame DEF Unlink, SwapPlaces
  <2>3. CASE Boot
    <3>1. CASE Valid("brain")
      BY <2>3, <3>1, SavedSame DEF Boot, SwapPlaces
    <3>2. CASE ~Valid("brain")
      <4>1. booted = 0 /\ Fresh
        BY <2>3, <3>2 DEF Boot, Kept, Placed, MayPart, Live, Trusty, Valid
      <4> QED BY <2>3, <4>1, <1>0, SavedAside DEF Boot, Fresh, SwapPlaces
    <3> QED BY <3>1, <3>2
  <2>4. ASSUME NEW place \in {"forward", "back"}, NEW next \in {"forwardMove", "backMove"},
               RecoveryRemove(place, "brain", next)
        PROVE  Saved'
    <3>1. dir["brain"] = Gone
      BY <2>4 DEF RecoveryRemove, Kept, Placed, MustPart, Parted
    <3>2. pc' \notin SwapPlaces
      BY <2>4 DEF RecoveryRemove, SwapPlaces
    <3> QED BY <2>4, <3>1, <3>2, SavedAside DEF RecoveryRemove
  <2>5. ASSUME NEW place \in {"forwardMove", "backMove"}, NEW from \in {"new", "old"},
               NEW next \in {"tidyOld", "tidyNew"}, RecoveryMove(place, from, next)
        PROVE  Saved'
    <3>1. dir["brain"] = Gone
      BY <2>5 DEF RecoveryMove, Kept, Placed, MustPart, Parted
    <3>2. pc' \notin SwapPlaces
      BY <2>5 DEF RecoveryMove, SwapPlaces
    <3> QED BY <2>5, <3>1, <3>2, SavedAside DEF RecoveryMove
  <2>6. ASSUME NEW place \in {"tidyOld", "tidyNew"}, NEW n \in {"old", "new"},
               NEW next \in {"tidyNew", "unlink"}, RecoveryRemove(place, n, next)
        PROVE  Saved'
    <3>1. dir'["brain"] = dir["brain"]
      BY <2>6, <1>0, RemoveDirs DEF RecoveryRemove
    <3> QED BY <2>6, <3>1, SavedSame DEF RecoveryRemove, SwapPlaces
  <2> QED BY <1>3, <2>1, <2>2, <2>3, <2>4, <2>5, <2>6 DEF Recovery
<1>4. CASE Swap
  <2> USE DEF Ended, Goto, KeepSwap, KeepCall, KeepData, SwapPlaces
  <2>1. ASSUME NEW place \in {"rmNew", "rmOld"}, NEW n \in {"old", "new"},
               NEW next \in {"rmOld", "load"}, SwapRemove(place, n, next)
        PROVE  Saved'
    BY <2>1, SavedAside DEF SwapRemove
  <2>2. CASE BlockUsers \/ Load \/ Journal \/ Abort
    BY <2>2, SavedAside DEF BlockUsers, Load, Journal, Abort
  <2>3. CASE Rename1 \/ Undo \/ Rename2
    BY <2>3, SavedAside DEF Rename1, Undo, Rename2
  <2>4. CASE Clear \/ ReopenBrain \/ Cleanup
    BY <2>4, SavedAside DEF Clear, ReopenBrain, Cleanup
  <2> QED BY <1>4, <2>1, <2>2, <2>3, <2>4 DEF Swap
<1>5. CASE Crash
  BY <1>5 DEF Crash, Goto, Saved, InSnapshot, InBrain, SwapPlaces
<1>6. CASE JournalLost
  BY <1>6, SavedSame DEF JournalLost, KeepUsers
<1>7. ASSUME NEW c \in Callers, NEW w \in Writes, StartWrite(c, w)
      PROVE  Saved'
  <2>1. pc \notin SwapPlaces
    BY <1>7 DEF StartWrite, Saved, OneCaller
  <2> QED BY <1>7, <2>1 DEF StartWrite, Saved, InSnapshot, InBrain
<1>8. ASSUME NEW c \in Callers, FinishWrite(c)
      PROVE  Saved'
  <2>1. pc \notin SwapPlaces /\ pc' = pc /\ snaps' = snaps
    BY <1>8 DEF FinishWrite, Saved, OneCaller
  <2>2. CASE DbOpen
    <3>1. dir["brain"].st = "whole"
      BY <2>2 DEF DbOpen, Kept, Placed, MayPart, Live, Trusty
    <3>2. dir["brain"] \in Stores
      BY <1>0 DEF TypeOK
    <3>3. /\ dir'["brain"] = [dir["brain"] EXCEPT !.data = @ \union pend[c]]
          /\ acked' = acked \union pend[c]
      BY <1>0, <1>8, <2>2 DEF FinishWrite, TypeOK
    <3>4. /\ dir'["brain"].st = "whole"
          /\ dir'["brain"].data = dir["brain"].data \union pend[c]
      BY <3>1, <3>2, <3>3 DEF Stores
    <3> QED BY <2>1, <3>3, <3>4 DEF Saved, InSnapshot, InBrain
  <2>3. CASE ~DbOpen
    BY <1>8, <2>1, <2>3 DEF FinishWrite, Saved, InSnapshot, InBrain
  <2> QED BY <2>2, <2>3
<1>9. ASSUME NEW c \in Callers, Snapshot(c)
      PROVE  Saved'
  BY <1>9 DEF Snapshot, Saved, InSnapshot, InBrain
<1>10. ASSUME NEW c \in Callers, NEW s \in snaps, StartReplace(c, s)
       PROVE  Saved'
  <2>1. \A w \in acked : InSnapshot(w)'
    BY <1>10 DEF StartReplace, SafetyNet, Saved, InSnapshot, InBrain
  <2> QED BY <1>10, <2>1 DEF StartReplace, Goto, Saved
<1> QED BY <1>1, <1>2, <1>3, <1>4, <1>5, <1>6, <1>7, <1>8, <1>9, <1>10 DEF Next

\* NoWriteLost: with one caller, a write that was reported as done can always
\* be had back, wherever a rollback or its recovery was cut short.
THEOREM WritesSaved == ASSUME OneCaller PROVE Spec => []NoWriteLost
<1>1. Init => Saved
  BY DEF Init, Saved, SwapPlaces
<1>2. Saved => NoWriteLost
  BY DEF Saved, NoWriteLost, InSnapshot, InBrain, Names
<1> QED BY <1>1, <1>2, AlwaysKept, TypeCorrect, SavedStep, PTL DEF Spec

-----------------------------------------------------------------------------
(* The inductive invariant.  That no false emptiness was confirmed has to be *)
(* known already of the answers that still wait for their canary, and that   *)
(* nobody goes on with a dead instance of those that wait for the reopen.    *)

\* What is true of a call while _db has this health: an answer that the canary
\* could let pass is true, and who waits on the present _db has seen it dead.
CallFine(k, h) ==
  /\ k \in Calls
  /\ k.step = "none" => k.at = "idle"
  /\ k.at = "canary" /\ k.live /\ h = "ok" => k.true
  /\ k.at = "awaitDeath" /\ k.live => h = "dead"
  /\ k.at = "caught" => ~k.live

CallsFine ==
  /\ call \in [Users -> Calls]
  /\ \A c \in Users : CallFine(call[c], health)

Shape ==
  /\ db \in Dbs
  /\ breaks \in Nat /\ depth \in Nat
  /\ health \in {"ok", "dead", "silent"}
  /\ reopening \in {"no", "closing", "schema"}
  /\ confirmed \subseteq {TRUE}

Armed == Shape /\ CallsFine

\* How the health of the instance changes while it is the same one.
Worse == health' = health \/ health = "ok"

-----------------------------------------------------------------------------
(* One call moves *)

\* n is k in another phase, bound to this instance, with this truth.
Like(n, k, at, live, true) ==
  n \in Calls /\ n.step = k.step /\ n.at = at /\ n.live = live /\ n.true = true

\* The changes made to a call that waits, asks the canary or tries again.
LEMMA CallTypes ==
  ASSUME NEW k \in Calls, NEW at \in Phases, NEW b \in BOOLEAN
  PROVE  /\ Like([k EXCEPT !.at = at, !.inTxn = b], k, at, k.live, k.true)
         /\ Like([k EXCEPT !.at = at, !.true = b], k, at, k.live, b)
         /\ Like([k EXCEPT !.at = at, !.live = b], k, at, b, k.true)
         /\ Like([k EXCEPT !.at = at], k, at, k.live, k.true)
         /\ Like([k EXCEPT !.live = b], k, k.at, b, k.true)
  BY DEF Calls, Like

\* A statement leaves a data directory, and a count of open transactions.
LEMMA StatementTypes ==
  ASSUME Shape, NEW step \in Steps
  PROVE  Executed(step) \in Dbs /\ Counted(step) \in Nat
<1>1. Executed(step) \in Dbs
  <2>1. CASE step \in Reads
    BY <2>1 DEF Executed, Shape, Reads, Rows
  <2>2. CASE step \in Rows
    BY <2>2 DEF Executed, Shape, Dbs, Reads, Rows
  <2>3. CASE step \in {"begin"} \union Ends
    BY <2>3 DEF Executed, Shape, Dbs, Reads, Rows, Ends, Visible
  <2> QED BY <2>1, <2>2, <2>3 DEF Steps, Reads, Rows, Ends
<1>2. Counted(step) \in Nat
  BY DEF Counted, Shape, Ends
<1> QED BY <1>1, <1>2

\* The instance may get worse under the calls that do not move.
LEMMA OneMoves ==
  ASSUME CallsFine, Worse, NEW c \in Users, NEW k, CallFine(k, health'),
         call' = [call EXCEPT ![c] = k]
  PROVE  CallsFine'
<1>1. call' \in [Users -> Calls]
  BY DEF CallsFine, CallFine
<1>2. ASSUME NEW d \in Users PROVE CallFine(call'[d], health')
  <2>1. CASE d = c
    BY <2>1 DEF CallsFine
  <2>2. CASE d # c
    <3>1. call'[d] = call[d]
      BY <2>2 DEF CallsFine
    <3> QED BY <3>1 DEF CallsFine, CallFine, Worse
  <2> QED BY <2>1, <2>2
<1> QED BY <1>1, <1>2 DEF CallsFine

\* A caller goes on: to its next statement, or to none.
LEMMA ReturnFine ==
  ASSUME CallsFine, Worse, NEW c \in Users, NEW ok \in BOOLEAN, Return(c, ok)
  PROVE  CallsFine'
<1> DEFINE next == Following(call[c].step, ok)
           k == IF next = "none" THEN Idle ELSE Bound(next)
<1>1. next \in Steps \union {"none"}
  BY DEF Following, Steps
<1>2. CallFine(k, health')
  BY <1>1 DEF CallFine, Idle, Bound, Calls, Phases, Steps
<1>3. call' = [call EXCEPT ![c] = k]
  BY DEF Return
<1> HIDE DEF k
<1> QED BY <1>2, <1>3, OneMoves

\* A caller waits for the reopen of an instance that is dead, or of one that
\* has been replaced under it.
LEMMA DiedFine ==
  ASSUME CallsFine, Worse, NEW c \in Users, Died(c), call[c].step # "none",
         call[c].live => health' = "dead"
  PROVE  CallsFine'
<1> DEFINE k == [call[c] EXCEPT !.at = "awaitDeath", !.inTxn = depth > 0]
<1>1. call[c] \in Calls
  BY DEF CallsFine
<1>2. call' = [call EXCEPT ![c] = k]
  BY DEF Died
<1>3. "awaitDeath" \in Phases /\ (depth > 0) \in BOOLEAN
  BY DEF Phases
<1>4. Like(k, call[c], "awaitDeath", call[c].live, call[c].true)
  BY <1>1, <1>3, CallTypes, Zenon
<1> HIDE DEF k
<1>5. CallFine(k, health')
  BY <1>4 DEF CallFine, Like
<1> QED BY <1>2, <1>5, OneMoves

\* A caller has an answer; one that goes to a canary which may pass is true.
LEMMA AnsweredFine ==
  ASSUME CallsFine, Worse, NEW c \in Users, NEW empty, Answered(c, empty),
         call[c].step # "none",
         call[c].live /\ health' = "ok" /\ empty => Visible = {}
  PROVE  CallsFine'
<1>1. CASE call[c].step \in Reads /\ empty
  <2> DEFINE k == [call[c] EXCEPT !.at = "canary", !.true = (Visible = {})]
  <2>1. call[c] \in Calls
    BY DEF CallsFine
  <2>2. call' = [call EXCEPT ![c] = k]
    BY <1>1 DEF Answered
  <2>3. "canary" \in Phases /\ (Visible = {}) \in BOOLEAN
    BY DEF Phases
  <2>4. Like(k, call[c], "canary", call[c].live, Visible = {})
    BY <2>1, <2>3, CallTypes, Zenon
  <2> HIDE DEF k
  <2>5. CallFine(k, health')
    BY <1>1, <2>4 DEF CallFine, Like
  <2> QED BY <2>2, <2>5, OneMoves
<1>2. CASE ~(call[c].step \in Reads /\ empty)
  BY <1>2, ReturnFine DEF Answered
<1> QED BY <1>1, <1>2

\* A caller tries again, on the instance that _db is now.
LEMMA RetryFine ==
  ASSUME CallsFine, Worse, NEW c \in Users, NEW at \in {"retryCanary", "retryDeath"},
         Retry(c, at), call[c].step # "none"
  PROVE  CallsFine'
<1> DEFINE k == [call[c] EXCEPT !.at = at, !.live = TRUE]
<1>1. call[c] \in Calls
  BY DEF CallsFine
<1>2. call' = [call EXCEPT ![c] = k]
  BY DEF Retry
<1>3. at \in Phases /\ TRUE \in BOOLEAN
  BY DEF Phases
<1>4. Like(k, call[c], at, TRUE, call[c].true)
  BY <1>1, <1>3, CallTypes, Zenon
<1> HIDE DEF k
<1>5. CallFine(k, health')
  BY <1>4 DEF CallFine, Like
<1> QED BY <1>2, <1>5, OneMoves

-----------------------------------------------------------------------------
(* One step of _guardedCall *)

\* Nobody who is in a call is without a statement.
LEMMA InStatement ==
  ASSUME CallsFine, NEW c \in Users, call[c].at # "idle"
  PROVE  call[c].step \in Steps /\ call[c].step # "none" /\ call[c] \in Calls
  BY DEF CallsFine, CallFine, Calls

\* The pieces a step of a call is made of keep the rest in shape.
LEMMA Throwing ==
  ASSUME Armed, Worse, NEW c \in Users, Threw(c),
         db' \in Dbs, breaks' \in Nat, health' \in {"ok", "dead", "silent"}
  PROVE  Armed'
<1>1. CallsFine'
  BY ReturnFine DEF Armed, Threw
<1> QED BY <1>1 DEF Armed, Shape, Threw

LEMMA Dying ==
  ASSUME Armed, Worse, NEW c \in Users, Died(c), call[c].step # "none",
         call[c].live => health' = "dead",
         db' \in Dbs, breaks' \in Nat, health' \in {"ok", "dead", "silent"}
  PROVE  Armed'
<1>1. CallsFine'
  BY DiedFine DEF Armed
<1> QED BY <1>1 DEF Armed, Shape, Died, JoinReopen

LEMMA Answering ==
  ASSUME Armed, Worse, NEW c \in Users, NEW empty, Answered(c, empty),
         call[c].step \in Steps, call[c].step # "none",
         call[c].live /\ health' = "ok" /\ empty => Visible = {},
         db' \in Dbs, breaks' \in Nat, health' \in {"ok", "dead", "silent"}
  PROVE  Armed'
<1>1. CallsFine'
  BY AnsweredFine DEF Armed
<1>2. Counted(call[c].step) \in Nat
  BY StatementTypes DEF Armed
<1> QED BY <1>1, <1>2 DEF Armed, Shape, Answered

LEMMA Failing ==
  ASSUME Armed, Worse, NEW c \in Users, NEW mode \in {"dead", "silent"}, Failed(c, mode),
         call[c].step \in Steps, call[c].step # "none", health' = mode,
         db' \in Dbs, breaks' \in Nat
  PROVE  Armed'
<1>1. CASE mode = "dead" /\ Died(c)
  BY <1>1, Dying
<1>2. CASE mode = "silent" /\ Answered(c, TRUE)
  BY <1>2, Answering
<1> QED BY <1>1, <1>2 DEF Failed

\* A statement runs.
LEMMA RunKeeps ==
  ASSUME Armed, NEW c \in Users, Run(c)
  PROVE  Armed'
<1>1. call[c].step \in Steps /\ call[c].step # "none"
  BY InStatement DEF Armed, Run
<1>2. db \in Dbs /\ Executed(call[c].step) \in Dbs
  BY <1>1, StatementTypes DEF Armed, Shape
<1>3. CASE Sound(c)
  <2>1. Worse /\ db' \in Dbs /\ breaks' \in Nat /\ health' \in {"ok", "dead", "silent"}
    BY <1>2, <1>3 DEF Sound, Worse, Armed, Shape
  <2> QED BY <1>1, <1>3, <2>1, Answering DEF Sound
<1>4. CASE OnBroken(c)
  <2>1. Worse /\ db' \in Dbs /\ breaks' \in Nat /\ health \in {"dead", "silent"} /\ health' = health
    BY <1>2, <1>4 DEF OnBroken, Worse, Armed, Shape
  <2> QED BY <1>1, <1>4, <2>1, Failing DEF OnBroken
<1>5. CASE OnReplaced(c)
  <2>1. Worse /\ db' \in Dbs /\ breaks' \in Nat /\ health' \in {"ok", "dead", "silent"}
    BY <1>2, <1>5 DEF OnReplaced, Worse, Armed, Shape
  <2> QED BY <1>1, <1>5, <2>1, Throwing, Dying, Answering DEF OnReplaced
<1>6. ASSUME NEW mode \in Modes, Break(c, mode) PROVE Armed'
  <2>1. Worse /\ db' \in Dbs /\ breaks' \in Nat /\ mode \in {"dead", "silent"} /\ health' = mode
    BY <1>2, <1>6, ArmorAssumption DEF Break, Worse, Armed, Shape
  <2> QED BY <1>1, <1>6, <2>1, Failing DEF Break
<1> QED BY <1>3, <1>4, <1>5, <1>6 DEF Run

\* A canary comes back, or finds its instance broken or replaced.
LEMMA CanaryKeeps ==
  ASSUME Armed, NEW c \in Users, Canary(c)
  PROVE  Armed'
<1>1. Worse /\ call[c].step # "none" /\ call[c] \in Calls /\ CallFine(call[c], health)
  BY InStatement DEF Armed, CallsFine, Canary, Worse
<1>2. CASE Alive(c)
  <2>1. call[c].true
    BY <1>1, <1>2 DEF Alive, Canary, CallFine
  <2>2. call[c].true = TRUE
    BY <1>1, <2>1 DEF Calls
  <2>3. CallsFine'
    BY <1>1, <1>2, ReturnFine DEF Armed, Canary
  <2> QED BY <1>2, <2>2, <2>3 DEF Armed, Shape, Canary
<1>3. CASE ~Alive(c)
  <2> DEFINE k == [call[c] EXCEPT !.at = "awaitCanary"]
  <2>1. call' = [call EXCEPT ![c] = k]
    BY <1>3 DEF Canary
  <2>2. "awaitCanary" \in Phases /\ TRUE \in BOOLEAN
    BY DEF Phases
  <2>3. Like(k, call[c], "awaitCanary", call[c].live, call[c].true)
    BY <1>1, <2>2, CallTypes, Zenon
  <2> HIDE DEF k
  <2>4. CallFine(k, health')
    BY <1>1, <2>3 DEF CallFine, Like
  <2>5. CallsFine'
    BY <1>1, <2>1, <2>4, OneMoves DEF Armed
  <2> QED BY <1>3, <2>5 DEF Armed, Shape, Canary, JoinReopen
<1> QED BY <1>2, <1>3

\* A caller goes on after a reopen: with a retry, or with an error.
LEMMA AfterReopenKeeps ==
  ASSUME Armed, NEW c \in Users, Checked(c) \/ Caught(c)
  PROVE  Armed'
<1>1. Worse /\ call[c].step # "none"
  BY InStatement DEF Armed, Checked, Caught, Worse
<1>2. CallsFine'
  BY <1>1, RetryFine, ReturnFine DEF Armed, Checked, Caught
<1>3. CASE Checked(c)
  <2>1. depth' = 0 /\ UNCHANGED <<db, health, reopening, breaks, confirmed>>
    BY <1>3 DEF Checked
  <2> QED BY <1>2, <2>1 DEF Armed, Shape
<1>4. CASE Caught(c)
  <2>1. UNCHANGED <<db, health, depth, reopening, breaks, confirmed>>
    BY <1>4 DEF Caught
  <2> QED BY <1>2, <2>1 DEF Armed, Shape
<1> QED BY <1>3, <1>4

\* A raw retry returns whatever it returns, throws, or meets a dead instance.
LEMMA RetryKeeps ==
  ASSUME Armed, NEW c \in Users, RunRetry(c)
  PROVE  Armed'
<1>1. call[c].step \in Steps /\ call[c].step # "none"
  BY InStatement DEF Armed, RunRetry
<1>2. /\ db' \in Dbs /\ breaks' \in Nat /\ health' \in {"ok", "dead", "silent"} /\ Worse
      /\ \/ RetryDied(c) /\ (call[c].live => health' = "dead")
         \/ RetryAnswered(c)
         \/ Threw(c)
  <2>1. db \in Dbs /\ Executed(call[c].step) \in Dbs
    BY <1>1, StatementTypes DEF Armed, Shape
  <2>2. Shape
    BY DEF Armed
  <2>3. CASE /\ call[c].live /\ health # "dead"
             /\ db' \in IF health = "ok" THEN {Executed(call[c].step)}
                        ELSE {db, Executed(call[c].step)}
             /\ RetryAnswered(c)
             /\ UNCHANGED <<health, breaks>>
    BY <2>1, <2>2, <2>3 DEF Worse, Shape
  <2>4. CASE /\ call[c].live /\ health = "dead"
             /\ RetryDied(c)
             /\ UNCHANGED <<db, health, breaks>>
    BY <2>1, <2>2, <2>4 DEF Worse, Shape
  <2>5. CASE /\ call[c].live /\ health = "ok" /\ breaks < MaxBreaks
             /\ \E mode \in Modes :
                  /\ health' = mode
                  /\ IF mode = "dead" THEN RetryDied(c) ELSE RetryAnswered(c)
             /\ breaks' = breaks + 1
             /\ db' \in {db, Executed(call[c].step)}
    <3>1. PICK mode \in Modes :
            /\ health' = mode
            /\ IF mode = "dead" THEN RetryDied(c) ELSE RetryAnswered(c)
      BY <2>5
    <3> QED BY <2>1, <2>2, <2>5, <3>1, ArmorAssumption DEF Worse, Shape
  <2>6. CASE /\ ~call[c].live
             /\ RetryDied(c) \/ RetryAnswered(c) \/ Threw(c)
             /\ UNCHANGED <<db, health, breaks>>
    BY <2>1, <2>2, <2>6 DEF Worse, Shape
  <2> QED BY <2>3, <2>4, <2>5, <2>6 DEF RunRetry
<1>3. CASE RetryAnswered(c)
  <2>1. CallsFine'
    BY <1>2, <1>3, ReturnFine DEF Armed, RetryAnswered
  <2> QED BY <1>2, <1>3, <2>1 DEF Armed, Shape, RetryAnswered
<1>4. CASE Threw(c)
  BY <1>2, <1>4, Throwing
<1>5. CASE RetryDied(c) /\ (call[c].live => health' = "dead")
  BY <1>1, <1>2, <1>5, Dying, Throwing DEF RetryDied
<1> QED BY <1>2, <1>3, <1>4, <1>5

-----------------------------------------------------------------------------
(* Starting, and the reopen *)

LEMMA StartKeeps ==
  ASSUME Armed, NEW c \in Users, NEW step \in {"read", "write", "begin"}, Start(c, step)
  PROVE  Armed'
<1>1. CallFine(Bound(step), health')
  BY DEF CallFine, Bound, Calls, Phases, Steps
<1>2. CallsFine'
  BY <1>1, OneMoves DEF Armed, Start, Worse
<1> QED BY <1>2 DEF Armed, Shape, Start

\* _db is another instance: whatever was going on is bound to the old one.
LEMMA NewInstanceKeeps ==
  ASSUME Armed, NewInstance
  PROVE  Armed'
<1>1. call' = [c \in Users |-> [call[c] EXCEPT !.live = FALSE]]
  BY DEF NewInstance
<1>2. ASSUME NEW c \in Users PROVE CallFine(call'[c], health')
  <2> DEFINE k == [call[c] EXCEPT !.live = FALSE]
  <2>1. call[c] \in Calls /\ CallFine(call[c], health)
    BY DEF Armed, CallsFine
  <2>2. call[c].at \in Phases /\ FALSE \in BOOLEAN
    BY <2>1 DEF Calls
  <2>3. Like(k, call[c], call[c].at, FALSE, call[c].true)
    BY <2>1, <2>2, CallTypes, Zenon
  <2>4. call'[c] = k
    BY <1>1
  <2> HIDE DEF k
  <2> QED BY <2>1, <2>3, <2>4 DEF CallFine, Like
<1>3. CallsFine'
  BY <1>1, <1>2 DEF CallsFine, CallFine
<1>4. db' \in Dbs
  BY DEF NewInstance, Armed, Shape, Dbs
<1> QED BY <1>3, <1>4 DEF Armed, Shape, NewInstance

\* The reopen is done: nobody waits on an instance that is dead.
LEMMA ReopenedKeeps ==
  ASSUME Armed, Reopened
  PROVE  Armed'
<1> DEFINE After(c) == CASE call[c].at = "awaitCanary" -> [call[c] EXCEPT !.at = "checked"]
                        [] call[c].at = "awaitDeath" -> [call[c] EXCEPT !.at = "caught"]
                        [] OTHER -> call[c]
<1>1. call' = [c \in Users |-> After(c)] /\ health' = health /\ health # "dead"
  BY DEF Reopened, SchemaApplies
<1>2. ASSUME NEW c \in Users PROVE CallFine(After(c), health')
  <2>1. call[c] \in Calls /\ CallFine(call[c], health)
    BY DEF Armed, CallsFine
  <2>2. "checked" \in Phases /\ "caught" \in Phases /\ TRUE \in BOOLEAN
    BY DEF Phases
  <2>3. CASE call[c].at = "awaitCanary"
    <3> DEFINE k == [call[c] EXCEPT !.at = "checked"]
    <3>1. Like(k, call[c], "checked", call[c].live, call[c].true)
      BY <2>1, <2>2, CallTypes, Zenon
    <3>2. After(c) = k
      BY <2>3
    <3> HIDE DEF k, After
    <3> QED BY <2>1, <2>3, <3>1, <3>2 DEF CallFine, Like
  <2>4. CASE call[c].at = "awaitDeath"
    <3> DEFINE k == [call[c] EXCEPT !.at = "caught"]
    <3>1. Like(k, call[c], "caught", call[c].live, call[c].true)
      BY <2>1, <2>2, CallTypes, Zenon
    <3>2. After(c) = k
      BY <2>4
    <3>3. ~call[c].live
      BY <1>1, <2>1, <2>4 DEF CallFine
    <3> HIDE DEF k, After
    <3> QED BY <2>1, <2>4, <3>1, <3>2, <3>3 DEF CallFine, Like
  <2>5. CASE call[c].at \notin {"awaitCanary", "awaitDeath"}
    <3>1. After(c) = call[c]
      BY <2>5
    <3> HIDE DEF After
    <3> QED BY <1>1, <2>1, <3>1
  <2> QED BY <2>3, <2>4, <2>5
<1> HIDE DEF After
<1>3. CallsFine'
  BY <1>1, <1>2 DEF CallsFine, CallFine
<1> QED BY <1>3 DEF Armed, Shape, Reopened

\* The reopen failed, on an instance that is dead again.
LEMMA ReopenFailsKeeps ==
  ASSUME Armed, ReopenFails
  PROVE  Armed'
<1> DEFINE After(c) == CASE call[c].at = "awaitCanary" ->
                             [call[c] EXCEPT !.at = "awaitDeath", !.inTxn = depth > 0]
                        [] call[c].at = "awaitDeath" -> [call[c] EXCEPT !.at = "thrown"]
                        [] OTHER -> call[c]
<1>1. call' = [c \in Users |-> After(c)] /\ health' = health /\ health = "dead"
  BY DEF ReopenFails, SchemaApplies
<1>2. ASSUME NEW c \in Users PROVE CallFine(After(c), health')
  <2>1. call[c] \in Calls /\ CallFine(call[c], health)
    BY DEF Armed, CallsFine
  <2>2. "awaitDeath" \in Phases /\ "thrown" \in Phases /\ (depth > 0) \in BOOLEAN
    BY DEF Phases
  <2>3. CASE call[c].at = "awaitCanary"
    <3> DEFINE k == [call[c] EXCEPT !.at = "awaitDeath", !.inTxn = depth > 0]
    <3>1. Like(k, call[c], "awaitDeath", call[c].live, call[c].true)
      BY <2>1, <2>2, CallTypes, Zenon
    <3>2. After(c) = k
      BY <2>3
    <3> HIDE DEF k, After
    <3> QED BY <1>1, <2>1, <2>3, <3>1, <3>2 DEF CallFine, Like
  <2>4. CASE call[c].at = "awaitDeath"
    <3> DEFINE k == [call[c] EXCEPT !.at = "thrown"]
    <3>1. Like(k, call[c], "thrown", call[c].live, call[c].true)
      BY <2>1, <2>2, CallTypes, Zenon
    <3>2. After(c) = k
      BY <2>4
    <3> HIDE DEF k, After
    <3> QED BY <2>1, <2>4, <3>1, <3>2 DEF CallFine, Like
  <2>5. CASE call[c].at \notin {"awaitCanary", "awaitDeath"}
    <3>1. After(c) = call[c]
      BY <2>5
    <3> HIDE DEF After
    <3> QED BY <1>1, <2>1, <3>1
  <2> QED BY <2>3, <2>4, <2>5
<1> HIDE DEF After
<1>3. CallsFine'
  BY <1>1, <1>2 DEF CallsFine, CallFine
<1> QED BY <1>3 DEF Armed, Shape, ReopenFails

-----------------------------------------------------------------------------
(* The theorems *)

LEMMA ArmedInit == ArmorInit => Armed
<1> SUFFICES ASSUME ArmorInit PROVE Armed
  OBVIOUS
<1>1. CallFine(Idle, health)
  BY DEF CallFine, Idle, Calls, Phases
<1>2. CallsFine
  BY <1>1 DEF ArmorInit, CallsFine, CallFine
<1>3. db \in Dbs
  <2>1. PICK s \in {{}, {"write"}} : db = [store |-> s, open |-> FALSE, rows |-> {}]
    BY DEF ArmorInit
  <2>2. s \in SUBSET Rows /\ {} \in SUBSET Rows /\ FALSE \in BOOLEAN
    BY DEF Rows
  <2> QED BY <2>1, <2>2 DEF Dbs
<1> QED BY <1>2, <1>3 DEF ArmorInit, Armed, Shape

LEMMA ArmedStep == Armed /\ [ArmorNext]_armorVars => Armed'
<1> SUFFICES ASSUME Armed, [ArmorNext]_armorVars PROVE Armed'
  OBVIOUS
<1>1. CASE UNCHANGED armorVars
  BY <1>1 DEF armorVars, Armed, Shape, CallsFine
<1>2. CASE Reopen
  BY <1>2, NewInstanceKeeps, ReopenedKeeps, ReopenFailsKeeps DEF Reopen
<1>3. ASSUME NEW c \in Users, Guarded(c) PROVE Armed'
  <2>1. CASE Run(c)
    BY <2>1, RunKeeps
  <2>2. CASE Canary(c)
    BY <2>2, CanaryKeeps
  <2>3. CASE Checked(c) \/ Caught(c)
    BY <2>3, AfterReopenKeeps
  <2>4. CASE Thrown(c)
    <3>1. db' \in Dbs /\ breaks' \in Nat /\ health' \in {"ok", "dead", "silent"} /\ Worse
      BY <2>4 DEF Thrown, Armed, Shape, Worse
    <3> QED BY <2>4, <3>1, Throwing DEF Thrown
  <2>5. CASE RunRetry(c)
    BY <2>5, RetryKeeps
  <2> QED BY <1>3, <2>1, <2>2, <2>3, <2>4, <2>5 DEF Guarded
<1>4. ASSUME NEW c \in Users, NEW step \in {"read", "write", "begin"}, Start(c, step)
      PROVE  Armed'
  BY <1>4, StartKeeps
<1> QED BY <1>1, <1>2, <1>3, <1>4 DEF ArmorNext

LEMMA AlwaysArmed == ArmorSpec => []Armed
  BY ArmedInit, ArmedStep, PTL DEF ArmorSpec

\* Every variable keeps its shape (the armor of index.js).
THEOREM ArmorTypeCorrect == ArmorSpec => []ArmorTypeOK
<1>1. Armed => ArmorTypeOK
  BY DEF Armed, Shape, CallsFine, ArmorTypeOK
<1> QED BY <1>1, AlwaysArmed, PTL

\* No canary of _guardedCall ever lets an empty answer pass that was not true,
\* whoever reopened the instance since the read.
THEOREM NoFalseEmptiness == ArmorSpec => []NoFalseEmpty
<1>1. Armed => NoFalseEmpty
  BY DEF Armed, Shape, NoFalseEmpty
<1> QED BY <1>1, AlwaysArmed, PTL

\* Nobody goes on after a WASM death while _db is still the dead instance,
\* whoever's failure started the reopen.
THEOREM NoZombies == ArmorSpec => []NoZombie
<1>1. Armed => NoZombie
  BY DEF Armed, CallsFine, CallFine, NoZombie
<1> QED BY <1>1, AlwaysArmed, PTL

=============================================================================
