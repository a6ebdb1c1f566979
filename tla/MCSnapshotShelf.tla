--------------------------- MODULE MCSnapshotShelf ---------------------------
(***************************************************************************)
(* SnapshotShelf with days, weeks and months cut short.                    *)
(***************************************************************************)
EXTENDS SnapshotShelf, TLC

Symmetry == Permutations(Callers)

=============================================================================
