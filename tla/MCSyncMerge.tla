----------------------------- MODULE MCSyncMerge -----------------------------
(***************************************************************************)
(* SyncMerge on two devices with two contents.                             *)
(***************************************************************************)
EXTENDS SyncMerge, TLC

Symmetry == Permutations(Devices) \union Permutations(Writers)

=============================================================================
