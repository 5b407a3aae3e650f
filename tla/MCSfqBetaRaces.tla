--------------------------- MODULE MCSfqBetaRaces ---------------------------
(***************************************************************************)
(* The instance of SfqBeta in which two registrations race with each other *)
(* and with dispatches, for a workload that ends.                          *)
(***************************************************************************)
EXTENDS SfqBetaRaced

\* A finite workload.
FairSpec ==
  RacedInit /\ [][RacedNext /\ NoReuse]_<<vars, raced>> /\ Fairness

\* Unless registrations raced, processes that stop submitting get all they
\* submitted (sfq_4.c:227-330).
CalmBacklogDrains == []~raced => BacklogDrains
=============================================================================
