--------------------------- MODULE MCSteeringGrant ---------------------------
(***************************************************************************)
(* SteeringGrant on small instances: one rule, conflict copies going to ids*)
(* outside the model, two behaviours, one or two callers.                  *)
(***************************************************************************)
EXTENDS SteeringGrant, TLC

Symmetry == Permutations(Texts) \union Permutations(Callers)

=============================================================================
