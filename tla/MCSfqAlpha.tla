----------------------------- MODULE MCSfqAlpha -----------------------------
(***************************************************************************)
(* Instances of SfqAlpha.  Three requests in the heap have a root and two  *)
(* children; two tasks race in sfq_set_request.                            *)
(***************************************************************************)
EXTENDS SfqAlpha, TLC

VARIABLE overtaken    \* history: tasks about to write a virtual time that
                      \* another task has advanced since they compared

Overtakes ==
  overtaken' = {p \in Tasks : /\ pc[p] = "advance" /\ pc'[p] = "advance"
                              /\ p \in overtaken \/ virtual_time' # virtual_time}

MCInit == AlphaInit /\ overtaken = {}
MCSpec == MCInit /\ [][AlphaNext /\ Overtakes]_<<alphaVars, overtaken>>

Symm == Permutations(Requests) \cup Permutations(Tasks)

\* "advance the virtual time" (README.md:36): while the elevator is attached
\* the time goes back only where a task writes a tag that another task has
\* overtaken since it was compared.
GoesBackOnlyInRaces ==
  [][elv = "attached" /\ virtual_time' < virtual_time =>
       \E p \in overtaken : pc'[p] = "tag"]_<<alphaVars, overtaken>>
=============================================================================
