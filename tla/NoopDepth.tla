------------------------------ MODULE NoopDepth ------------------------------
(***************************************************************************)
(* noop_experiment/noop_1.c: a FIFO that holds back requests once depth,   *)
(* the number it has handed over, exceeds REQUEST_DEPTH, and runs the      *)
(* queue again from the completion of a request if others are outstanding  *)
(* then.  Its exit function frees noop_data and leaves unplug_work queued: *)
(* the work item may still be queued when the next elevator is attached.   *)
(***************************************************************************)
EXTENDS KickedElevator

CONSTANT REQUEST_DEPTH

VARIABLES
  noop_queue, depth,
  left    \* a work item that is part of a freed noop_data is queued

ownVars == <<noop_queue, depth, left>>
vars == <<ownVars, frameVars, deviceVars>>

TypeOK ==
  /\ noop_queue \in Seq(Requests)
  /\ depth \in Nat /\ left \in BOOLEAN
  /\ FrameTypeOK({})

Linked == Range(noop_queue)

Init == noop_queue = <<>> /\ depth = 0 /\ left = FALSE /\ FrameInit

Unchanging(step) == step /\ UNCHANGED ownVars
Merged(step) == Unchanging(step) /\ UNCHANGED unplug_work
OnlyDevice(step) == Unchanging(step) /\ UNCHANGED frameVars

noop_add_request(c, r) ==
  /\ Insert(c, r, plugged)
  /\ noop_queue' = Append(noop_queue, r)
  /\ UNCHANGED <<depth, left, stale, unplug_work>>

FullAtDepth == depth >= REQUEST_DEPTH
Full == depth > REQUEST_DEPTH
TakeSlotForgotten == UNCHANGED depth
TakeSlot == depth' = depth + 1

noop_dispatch ==
  /\ ~Full /\ noop_queue # <<>>
  /\ TakeSlot
  /\ noop_queue' = Tail(noop_queue)
  /\ Dispatched(Head(noop_queue))

noop_dispatch_nothing ==
  /\ Full \/ noop_queue = <<>>
  /\ UNCHANGED <<noop_queue, depth, queue_head>>

\* request_fn asks until the answer is 0.
Peek(c) ==
  /\ pc[c] = "run" /\ queue_head = <<>> /\ elv # "bypass"
  /\ \/ noop_dispatch /\ UNCHANGED pc
     \/ noop_dispatch_nothing /\ At(c, "idle") /\ UNCHANGED elv
  /\ UNCHANGED <<left, plugged, stale, unplug_work, inflight, issuing>>

\* The elevator is asked to empty itself, force or not, within the limit.
Drain(c) ==
  /\ pc[c] = "drain"
  /\ \/ noop_dispatch /\ UNCHANGED pc
     \/ noop_dispatch_nothing /\ DrainTurnEnds(c, Linked)
  /\ UNCHANGED <<left, plugged, stale, unplug_work, inflight, issuing>>

FreeSlotForgotten == UNCHANGED depth
FreeSlot == depth' = depth - 1

noop_completed(r) ==
  /\ DeviceComplete(r)
  /\ FreeSlot
  /\ KickIf(depth' > 0)
  /\ UNCHANGED <<noop_queue, left, plugged, stale, elv>>

\* BUG_ON(!list_empty(&nd->noop_queue)), kfree(nd): nothing is cancelled.
noop_exit_queue ==
  /\ elv = "detached"
  /\ elv' = IF noop_queue # <<>> THEN "oops" ELSE "freed"
  /\ left' = (left \/ unplug_work) /\ unplug_work' = FALSE
  /\ UNCHANGED <<noop_queue, depth, plugged, stale, deviceVars>>

\* kblockd runs noop_kick_queue of a freed noop_data, whatever is attached.
KickAfterKfree ==
  /\ left
  /\ elv' = "oops"
  /\ UNCHANGED <<ownVars, plugged, stale, unplug_work, deviceVars>>

noop_init_queue ==
  /\ elv = "freed"
  /\ elv' = "attached"
  /\ noop_queue' = <<>> /\ depth' = 0
  /\ UNCHANGED <<left, plugged, stale, unplug_work, deviceVars>>

-----------------------------------------------------------------------------
RequestFn(c) ==
  \/ Peek(c)
  \/ elv = "bypass" /\ OnlyDevice(DeviceBypassed(c))
  \/ OnlyDevice(DeviceBusy(c) \/ DeviceStart(c))
Issued(c) == OnlyDevice(DeviceIssued(c))
Unasked(c) ==
  \/ OnlyDevice(DeviceRequeue(c))
  \/ elv \in {"attached", "bypass"} /\ OnlyDevice(RunQueue(c))
Flush(c, r) ==
  \/ noop_add_request(c, r)
  \/ Merged(InsertMerge(c, r, plugged, Linked))
  \/ \E v \in Requests : Merged(MergeLinked(c, r, v, plugged, Linked))
Switch ==
  \/ Unchanging(BypassStart) \/ noop_exit_queue \/ noop_init_queue
  \/ \E c \in Ctx : Unchanging(DrainStart(c))

Next ==
  /\ elv # "oops"
  /\ \/ \E r \in Requests :
          Unchanging(GetRequest(r, Linked)) \/ noop_completed(r)
     \/ \E c \in Ctx, r \in Requests : Flush(c, r)
     \/ \E c \in Ctx : RequestFn(c) \/ Issued(c) \/ Unasked(c) \/ Drain(c)
     \/ Unchanging(kick_queue) \/ Unchanging(KickSuccessor) \/ KickAfterKfree
     \/ Switch

Spec == Init /\ [][Next]_vars

-----------------------------------------------------------------------------
(* Properties.                                                             *)

\* depth is the number of requests the device holds, to the request, through
\* requeues, merges and switches: a slot lost for good would throttle the
\* elevator until nothing is dispatched.  The limit is exceeded by one.
DepthExact == depth = Held /\ depth <= REQUEST_DEPTH + 1

\* BUG_ON(!list_empty(&nd->noop_queue)) in noop_exit_queue cannot fire,
\* although a forced dispatch gives up at the limit with requests queued.
ExitFindsQueueEmpty == elv = "detached" => OutstandingWith(Linked) = {}

\* No lost kick, "invoking dispatch in complete function" (noop_1.c:17),
\* although the last completion (depth' = 0) does not kick: the limit is
\* exceeded by one, so that a request is held back only while two others are
\* outstanding, and the first of those to complete kicks.
\*
\* The header of noop_1.c (3-4) says that with a depth of 1 it "freezes" with
\* 64 jobs and works with 32.  Nothing in the file depends on how many jobs
\* there are, and no lost kick is behind such a freeze in this version of it
\* (the limit is proved safe for any number of requests).  What the model
\* counts as a stop of its own is the dispatch of a request that a merge has
\* freed, and the use of a freed work item: both end in "oops" here.
NoStranded ==
  noop_queue # <<>> \/ queue_head # <<>> =>
    \/ \E c \in Ctx : pc[c] # "idle"
    \/ unplug_work \/ inflight # {} \/ elv = "bypass"
    \/ elv = "oops"

\* Every inserted request is eventually finished or merged away, unless the
\* machine has stopped; the freeze that noop_1.c:3 reports is not excluded
\* by it, but can only come from there or from outside the elevator.
Served(r) ==
  r \in Linked \cup Range(queue_head) ~>
    r \notin OutstandingWith(Linked) \/ elv = "oops"
EverythingServed == \A r \in Requests : Served(r)
=============================================================================
