---------------------------- MODULE MCMemoryDecay ----------------------------
(***************************************************************************)
(* MemoryDecay with three memories, a window of two, and one searcher.     *)
(***************************************************************************)
EXTENDS MemoryDecay
=============================================================================
