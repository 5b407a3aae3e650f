--------------------------- MODULE MCElevatorMerge ---------------------------
(***************************************************************************)
(* Three requests are a fence, one before it and one after it, or a chain  *)
(* of two insertion merges.                                                *)
(***************************************************************************)
EXTENDS ElevatorMerge, TLC

Symm == Permutations(Requests)
=============================================================================
