---------------------------- MODULE SfqBetaRaced ----------------------------
(***************************************************************************)
(* SfqBeta with a history variable: raced remembers that a registration    *)
(* raced.  sfq_set_request runs without q->queue_lock, and sfq_4.c loses   *)
(* requests and leads its cursor astray when registrations race; the       *)
(* properties say that nothing else does, whatever else happens while a    *)
(* process registers: insertions, merges, completions, requeues, timers,   *)
(* a switch, and dispatches before the queue is counted.                   *)
(***************************************************************************)
EXTENDS SfqBeta

VARIABLE raced

\* Two processes register at once, or the cursor moves while a queue is
\* counted (sfq_4.c:189) but not yet linked (sfq_4.c:193).
Unlisted == {p \in Procs : pc[p] \in {"tail", "prev"}}
Race ==
  \/ \E p, q \in Procs :
       p # q /\ pc'[p] \in Registering /\ pc'[q] \in Registering
  \/ Unlisted # {} /\ <<os_sfqq, sfqq_total_seek>>' # <<os_sfqq, sfqq_total_seek>>

RacedInit == Init /\ raced = FALSE
RacedNext == Next /\ raced' = (raced \/ Race)

RacedSpec == RacedInit /\ [][RacedNext]_<<vars, raced>>

-----------------------------------------------------------------------------
(* Properties.                                                             *)

\* No kick is lost but in a race, although the first dispatch does not kick
\* (sfq_4.c:241-245): what it leaves waits for the plug of the process whose
\* queue it looked at, whoever else is about to link a queue.
StrandsOnlyInRaces == raced \/ NoStranded

\* The cursor and its count of moves part only in a race: the step over the
\* list head comes at the last queue (sfq_4.c:252-255), even if a process
\* begins to register, or links its queue, between two dispatches.
CursorStraysOnlyInRaces == raced \/ CursorAgrees
=============================================================================
