---------------------------- MODULE LimitedNoops ----------------------------
(***************************************************************************)
(* The two FIFOs with a depth limit as elevators of one queue: a switch    *)
(* loads either of them.  noop_1.c is written for a limit of 1 or more;    *)
(* noop_with_congestion.c is run with one less.                            *)
(***************************************************************************)
EXTENDS KickedElevator

CONSTANT REQUEST_DEPTH

ASSUME DepthAssumption == REQUEST_DEPTH \in Nat

VARIABLES
  queue, depth,              \* of the elevator that is loaded
  left,                      \* of a noop_1.c that is freed
  nr_size, armed, firing,    \* of noop_with_congestion.c
  program                    \* the elevator that is loaded

allVars ==
  <<queue, depth, left, nr_size, armed, firing, program,
    frameVars, deviceVars>>

D == INSTANCE NoopDepth
       WITH noop_queue <- queue, REQUEST_DEPTH <- REQUEST_DEPTH + 1
C == INSTANCE NoopCongestion

noop_1 == program = "noop_1"
congestion == program = "congestion"

Loaded(depthStep, congestionStep) ==
  /\ UNCHANGED program
  /\ \/ noop_1 /\ depthStep /\ UNCHANGED <<nr_size, armed, firing>>
     \/ congestion /\ congestionStep /\ UNCHANGED left

\* elevator_switch to the other program: its init function comes next.  It
\* does not wait for the work item that an exit of noop_1.c has left queued.
LoadOther ==
  /\ elv = "freed"
  /\ program' \in {"noop_1", "congestion"} \ {program}
  /\ UNCHANGED <<queue, depth, left, nr_size, armed, firing>>
  /\ UNCHANGED <<frameVars, deviceVars>>

\* That work item runs while noop_with_congestion.c is loaded.
LeftWorkRuns ==
  /\ congestion /\ elv # "oops"
  /\ D!KickAfterKfree
  /\ UNCHANGED <<nr_size, armed, firing, program>>

(* As in NoopKick; the task that switches keeps turning the drain loop, and *)
(* a task flushes its plug before it sleeps.  The timer is not relied on.   *)
Fairness ==
  /\ WF_allVars(Loaded(\E c \in Ctx : D!RequestFn(c) \/ D!Drain(c),
                       \E c \in Ctx : C!RequestFn(c) \/ C!Drain(c)))
  /\ SF_allVars(Loaded(\E c \in Ctx : D!Issued(c), \E c \in Ctx : C!Issued(c)))
  /\ SF_allVars(Loaded(\E c \in Ctx, r \in Requests : D!Flush(c, r),
                       \E c \in Ctx, r \in Requests : C!Flush(c, r)))
  /\ SF_allVars(Loaded(D!Unchanging(kick_queue), C!Unchanging(kick_queue)))
  /\ SF_allVars(Loaded(\E c \in Ctx : D!Unchanging(DrainStart(c)),
                       \E c \in Ctx : C!Unchanging(DrainStart(c))))
  /\ \A r \in Requests :
       SF_allVars(Loaded(D!noop_completed(r), C!noop_completed(r)))

Spec ==
  /\ C!Init /\ left = FALSE /\ program \in {"noop_1", "congestion"}
  /\ [][Loaded(D!Next, C!Next) \/ LoadOther \/ LeftWorkRuns]_allVars
  /\ Fairness

-----------------------------------------------------------------------------
(* Properties: what the programs' modules state, of the one that is loaded. *)

\* The state of either program keeps its type.
TypeOK == IF noop_1 THEN D!TypeOK ELSE C!TypeOK

\* noop_1.c: depth is what the device holds, one above the limit at most.
DepthExact == noop_1 => D!DepthExact

\* noop_with_congestion.c: depth is exact and nr_size never too low.
CountsSuffice == congestion => C!CountsSuffice

\* No lost kick in either program.
NoStranded == IF noop_1 THEN D!NoStranded ELSE C!NoStranded

\* noop_exit_queue of either finds nothing outstanding.
ExitFindsQueueEmpty == D!ExitFindsQueueEmpty

\* noop_with_congestion.c stops its timer and work item before it frees them;
\* noop_1.c does not (noop_1.c:104-110, left).
WorkStopsAtFree == congestion => C!WorkStopsAtFree

\* Every inserted request is finished or merged away, across switches, or the
\* machine stops: stated of one request, since none is told from another.
\* noop_1.c:3 reports a freeze at this limit with 64 jobs: see
\* NoStranded of NoopDepth for why no lost kick of this code is behind it.
EverythingServed == D!Served(CHOOSE r \in Requests : TRUE)
=============================================================================
