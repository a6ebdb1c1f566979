---------------------------- MODULE MCInstanceArmor ----------------------------
(***************************************************************************)
(* InstanceArmor with one or two callers.                                  *)
(***************************************************************************)
EXTENDS InstanceArmor, TLC

=============================================================================
