-------------------------- MODULE MCElevatorSwitch --------------------------
(***************************************************************************)
(* Two queues, noop and three modules, two of which are called "sfq".      *)
(***************************************************************************)
EXTENDS ElevatorSwitch, TLC

CONSTANTS noop, sfq1, sfq2, zfq
MCName == (noop :> "noop") @@ (sfq1 :> "sfq") @@ (sfq2 :> "sfq") @@ (zfq :> "zfq")

Symm == Permutations(Queues) \cup Permutations({sfq1, sfq2})
=============================================================================
