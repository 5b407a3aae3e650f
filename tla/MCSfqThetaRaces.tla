-------------------------- MODULE MCSfqThetaRaces --------------------------
(***************************************************************************)
(* The instance of SfqTheta in which two registrations race with each      *)
(* other and with dispatches, for a workload that ends.                    *)
(***************************************************************************)
EXTENDS SfqTheta

\* A finite workload; raced remembers that two processes registered at once.
VARIABLE raced

RacedSpec ==
  /\ Init /\ raced = FALSE
  /\ [][Next /\ NoReuse /\ raced' = (raced \/ ~OneRegisters)]_<<vars, raced>>
  /\ Fairness

\* Unless two registrations raced, processes that stop submitting get all they
\* submitted: a dispatch between the writes of one list_add_tail loses nothing
\* (launch_sfq.c:202, 96-138).
CalmBacklogDrains == []~raced => BacklogDrains
=============================================================================
