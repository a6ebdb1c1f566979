---------------------------- MODULE MCSwapRecovery ----------------------------
(***************************************************************************)
(* SwapRecovery with a few writes and one or two callers.                  *)
(***************************************************************************)
EXTENDS SwapRecovery, TLC

Symmetry == Permutations(Writes) \union Permutations(Callers)

=============================================================================
