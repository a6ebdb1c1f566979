----------------------------- MODULE MCSyncPrune -----------------------------
(***************************************************************************)
(* SyncPrune on two devices with one writer each.                          *)
(***************************************************************************)
EXTENDS SyncPrune, TLC

Symmetry == Permutations(Devices)

=============================================================================
