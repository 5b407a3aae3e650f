----------------------------- MODULE MCDeadline -----------------------------
(***************************************************************************)
(* Instances of Deadline: batches of two, one batch of reads may go before *)
(* a write; a third request keeps a batch going.                           *)
(***************************************************************************)
EXTENDS Deadline, TLC

Symm == Permutations(Requests) \cup Permutations(Tasks)
=============================================================================
