---------------------------- MODULE VersionVector ----------------------------
(***************************************************************************)
(* The per-row version vectors of causal sync: how many edits each device  *)
(* has put into the history of a row.  A device that the JSON map does not *)
(* mention has counter 0, as in _vvCompare and _vvMerge.                   *)
(***************************************************************************)
EXTENDS Naturals

CONSTANT Devices      \* substrate identities of the bowls that sync

Vectors == [Devices -> Nat]

Zero == [d \in Devices |-> 0]

\* _vvBump: one more edit by device d.
Bump(vv, d) == [vv EXCEPT ![d] = @ + 1]

\* _vvMerge: the join of two histories.
Join(a, b) == [d \in Devices |-> IF a[d] >= b[d] THEN a[d] ELSE b[d]]

\* _vvCompare: b's history includes all of a's; strictly; neither way.
Includes(b, a) == \A d \in Devices : a[d] <= b[d]
Dominates(b, a) == Includes(b, a) /\ ~Includes(a, b)
Concurrent(a, b) == ~Includes(a, b) /\ ~Includes(b, a)

=============================================================================
