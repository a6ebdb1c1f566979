---------------------------- MODULE MCKeyholderGate ----------------------------
(***************************************************************************)
(* KeyholderGate with one peer, two keys and three seconds.                *)
(***************************************************************************)
EXTENDS KeyholderGate, TLC

=============================================================================
