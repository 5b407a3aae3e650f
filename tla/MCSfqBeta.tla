------------------------------ MODULE MCSfqBeta ------------------------------
(***************************************************************************)
(* Instances of SfqBeta.  Two processes are the fewest whose registrations *)
(* race and whose queues take turns under the cursor.  With                *)
(* REQUEST_DEPTH = 0 the device is full with the first request, so that    *)
(* two requests reach the limit; the third of run beta lets a request be   *)
(* merged into one of two others.                                          *)
(***************************************************************************)
EXTENDS SfqBetaRaced, TLC

Symm == Permutations(Requests) \cup Permutations(Procs)

\* Up to the first race: what holds afterwards is not asked.
FirstRaceSpec == RacedInit /\ [][~raced /\ RacedNext]_<<vars, raced>>
=============================================================================
