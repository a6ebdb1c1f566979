----------------------------- MODULE MCKeeperTick -----------------------------
(***************************************************************************)
(* KeeperTick with a library about one subject, and a text in crisis about *)
(* another.                                                                *)
(***************************************************************************)
EXTENDS KeeperTick

SomeTexts == {"tea", "pain"}
Subjects == [t \in SomeTexts |-> IF t = "tea" THEN "drinks" ELSE "health"]
AllTea == [m \in Memories |-> "tea"]

=============================================================================
