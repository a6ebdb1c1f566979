----------------------------- MODULE MCMindLadder -----------------------------
(***************************************************************************)
(* MindLadder with a few memories and shelves, and days for thresholds.    *)
(***************************************************************************)
EXTENDS MindLadder

\* A common thread or none.
SomeThemes == {NoTheme, "pottery"}

=============================================================================
