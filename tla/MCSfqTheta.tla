----------------------------- MODULE MCSfqTheta -----------------------------
(***************************************************************************)
(* Instances of SfqTheta in which one process registers at a time, while   *)
(* everything else goes on.  Of three processes two have the queues that   *)
(* the cursor must see before it remembers the list head, and the third    *)
(* registers afterwards, between the last queue and the head.  With        *)
(* REQUEST_DEPTH = 0 one request fills the device.                         *)
(***************************************************************************)
EXTENDS SfqTheta, TLC

Symm == Permutations(Requests) \cup Permutations(Tasks)
=============================================================================
