----------------------------- MODULE MCNoopKick -----------------------------
(***************************************************************************)
(* Instances of NoopKick.  Three requests are the fewest with which one is *)
(* on each of the three lists, and with which the absorbed request of a    *)
(* merge, its target and a third one coexist; two submitting contexts and  *)
(* kblockd are the fewest with which one context is inside request_fn      *)
(* while another completes a request's life and a third is kicked.         *)
(***************************************************************************)
EXTENDS NoopKick, TLC

Symm == Permutations(Requests) \cup Permutations(Ctx \ {Kblockd})
=============================================================================
