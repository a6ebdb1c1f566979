---------------------------- MODULE MCForwardMerge ----------------------------
(***************************************************************************)
(* ForwardMerge with one memory and a stream of two sources.               *)
(***************************************************************************)
EXTENDS ForwardMerge
=============================================================================
