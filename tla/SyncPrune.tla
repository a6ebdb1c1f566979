------------------------------ MODULE SyncPrune ------------------------------
(***************************************************************************)
(* SyncMerge with pruneTombstones: a device may reap the tombstone of the  *)
(* base key once, as its documentation asks, every device has seen the     *)
(* delete, and no soul is older.  The reaped row leaves nothing behind     *)
(* (nothing reads tombstone_prune_watermark), so the next setState on that *)
(* device starts the version vector again at {}.                           *)
(***************************************************************************)
EXTENDS SyncMerge

VARIABLES
  reaped,       \* history: the devices that have reaped a tombstone
  anew          \* history: the devices that wrote the key again since, and
                \* whose row no user has deleted since

pruneVars == <<vars, reaped, anew>>

\* The precondition that pruneTombstones leaves to its caller.
SeenByAll(vv) ==
  \A e \in Devices :
    /\ Includes(db[e][Base].vv, vv)
    /\ Includes(soul[e][Base].vv, vv)
    /\ \A w \in Writers : pend[e][w] = Idle

\* pruneTombstones, for the base key.
PruneTombstones(d) ==
  LET r == db[d][Base] IN
  /\ r.st = "dead"
  /\ SeenByAll(r.vv)
  /\ db' = [db EXCEPT ![d][Base] = NoRow]
  /\ reaped' = reaped \union {d}
  /\ UNCHANGED <<soul, pend, edits, anew>>

\* setState writes a key that pruneTombstones has emptied.
WroteAnew(d) == d \in reaped /\ ~Present(db[d][Base])

PruneInit == Init /\ reaped = {} /\ anew = {}

PruneNext ==
  \/ \E d \in Devices : PruneTombstones(d)
  \/ /\ \E d \in Devices, w \in Writers :
          \/ FinishSet(d, w) /\ anew' = IF WroteAnew(d) THEN anew \union {d} ELSE anew
          \/ /\ FinishDelete(d, w)
             /\ anew' = IF pend[d][w].key = Base THEN {} ELSE anew
     /\ UNCHANGED reaped
  \/ /\ \/ \E d \in Devices : Export(d)
        \/ \E d \in Devices, w \in Writers :
             \/ \E c \in Contents : StartSet(d, w, c)
             \/ \E k \in Keys : StartDelete(d, w, k)
             \/ \E e \in Devices, policy \in Policies : Import(d, w, e, policy)
     /\ UNCHANGED <<reaped, anew>>

PruneSpec == PruneInit /\ [][PruneNext]_pruneVars

\* A tombstone that every device has seen is safely reaped: what is written
\* under its key afterwards, and deleted by nobody, is there to be read.
SafelyReaped == \A d \in anew : Live(db[d][Base])

=============================================================================
