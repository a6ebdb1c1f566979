--------------------------- MODULE GrantAuthority ---------------------------
(***************************************************************************)
(* What the two-door steering API promises, with nothing of how it keeps   *)
(* it.  A manner rule is off, or on because somebody granted it, or on     *)
(* because a spore installed it before grants existed.  Whatever happens   *)
(* to the rows (proposals, imports, merges, tombstones, rollbacks, calls   *)
(* that overlap), a rule is on only with a backing that was really given   *)
(* to that very rule: no grant is invented and none moves to another rule. *)
(***************************************************************************)
EXTENDS Naturals

CONSTANTS
  Ids,              \* the ids of steering entries
  Grants            \* the numbers grants are known by

VARIABLES
  status,           \* [Ids -> Status]: what switches each rule on, if anything
  issued,           \* the grants the keyholder ever gave: <<id, number>>
  seeded            \* the rules a spore ever installed

vars == <<status, issued, seeded>>

Off       == [by |-> "none", no |-> 0]
BySpore   == [by |-> "spore", no |-> 0]
ByGrant(n) == [by |-> "grant", no |-> n]

\* The states rule id may be in, given who has vouched for it so far.
Backings(id) ==
  {Off} \union {ByGrant(pair[2]) : pair \in {q \in issued : q[1] = id}}
        \union {BySpore : q \in seeded \intersect {id}}

Init ==
  /\ status = [id \in Ids |-> Off]
  /\ issued = {}
  /\ seeded = {}

\* A keyholder grants one rule.  (The rule may be a tombstone by the time the
\* grant lands, and then it stays off.)
Issue(id, n) ==
  /\ \A pair \in issued : pair[2] # n
  /\ issued' = issued \union {<<id, n>>}
  /\ \E s \in {status[id], ByGrant(n)} : status' = [status EXCEPT ![id] = s]
  /\ UNCHANGED seeded

\* A spore installs one rule that was not there.
Install(id) ==
  /\ status[id] = Off
  /\ status' = [status EXCEPT ![id] = BySpore]
  /\ seeded' = seeded \union {id}
  /\ UNCHANGED issued

\* Anything else (a proposal, a revocation, a delete, an import, a rollback)
\* may switch rules off, or back to a backing they already had.
Rearrange ==
  /\ status' \in [Ids -> {Off, BySpore} \union {ByGrant(pair[2]) : pair \in issued}]
  /\ \A id \in Ids : status'[id] \in {status[id]} \union Backings(id)
  /\ UNCHANGED <<issued, seeded>>

Next ==
  \/ \E id \in Ids, n \in Grants : Issue(id, n)
  \/ \E id \in Ids : Install(id)
  \/ Rearrange

Spec == Init /\ [][Next]_vars

=============================================================================
