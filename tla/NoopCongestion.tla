--------------------------- MODULE NoopCongestion ---------------------------
(***************************************************************************)
(* congestion_experiment/noop_with_congestion.c: the FIFO with a depth     *)
(* limit again, on objects of its own (noop_request).  It counts what is   *)
(* outstanding (nr_size); a completion that leaves some kicks, and starts  *)
(* a timer of zero delay that kicks once more.                             *)
(***************************************************************************)
EXTENDS KickedElevator

CONSTANT REQUEST_DEPTH

VARIABLES queue, depth, nr_size,
          armed, firing   \* idle_slice_timer is queued; its callback runs

ownVars == <<queue, depth, nr_size, armed, firing>>
vars == <<ownVars, frameVars, deviceVars>>

TypeOK ==
  /\ queue \in Seq(Requests)
  /\ depth \in Nat /\ nr_size \in Nat
  /\ armed \in BOOLEAN /\ firing \in BOOLEAN
  /\ FrameTypeOK({})

Linked == Range(queue)

Init ==
  /\ queue = <<>> /\ depth = 0 /\ nr_size = 0
  /\ armed = FALSE /\ firing = FALSE
  /\ FrameInit

Unchanging(step) == step /\ UNCHANGED ownVars
OnlyDevice(step) == Unchanging(step) /\ UNCHANGED frameVars

\* Merges are not counted: what they absorb was not added, or stays linked.
CountMergedAway == nr_size' = nr_size - 1
CountMerged == UNCHANGED nr_size
Merged(step) ==
  step /\ CountMerged /\ UNCHANGED <<queue, depth, armed, firing, unplug_work>>

noop_add_request(c, r) ==
  /\ Insert(c, r, plugged)
  /\ nr_size' = nr_size + 1
  /\ queue' = Append(queue, r)
  /\ UNCHANGED <<depth, armed, firing, stale, unplug_work>>

Full == depth > REQUEST_DEPTH

\* hrtimer_try_to_cancel gives up on a timer whose callback runs.
TryToCancel == armed' = (armed /\ firing)

noop_dispatch ==
  /\ ~Full /\ queue # <<>>
  /\ TryToCancel
  /\ depth' = depth + 1
  /\ queue' = Tail(queue)
  /\ Dispatched(Head(queue))

noop_dispatch_nothing ==
  /\ \/ Full /\ UNCHANGED armed
     \/ ~Full /\ queue = <<>> /\ TryToCancel
  /\ UNCHANGED <<queue, depth, queue_head>>

Asked ==
  UNCHANGED <<nr_size, firing, plugged, stale, unplug_work, inflight, issuing>>

\* request_fn asks until the answer is 0.
Peek(c) ==
  /\ pc[c] = "run" /\ queue_head = <<>> /\ elv # "bypass" /\ Asked
  /\ \/ noop_dispatch /\ UNCHANGED pc
     \/ noop_dispatch_nothing /\ At(c, "idle") /\ UNCHANGED elv

Drain(c) ==
  /\ pc[c] = "drain" /\ Asked
  /\ \/ noop_dispatch /\ UNCHANGED pc
     \/ noop_dispatch_nothing /\ DrainTurnEnds(c, Linked)

FreeSlotForgotten == UNCHANGED depth
FreeSlot == depth' = depth - 1

KickNever == UNCHANGED <<armed, unplug_work>>
KickIfMore == armed' = (armed \/ nr_size' > 0) /\ KickIf(nr_size' > 0)

noop_completed(r) ==
  /\ DeviceComplete(r)
  /\ FreeSlot
  /\ nr_size' = nr_size - 1
  /\ KickIfMore
  /\ UNCHANGED <<queue, firing, plugged, stale, elv>>

\* The hrtimer interrupt takes the timer off its queue, and its callback
\* waits for the lock.
TimerExpires ==
  /\ armed /\ ~firing
  /\ armed' = FALSE /\ firing' = TRUE
  /\ UNCHANGED <<queue, depth, nr_size, frameVars, deviceVars>>

noop_idle_slice_timer ==
  /\ firing /\ LockFree
  /\ firing' = FALSE
  /\ KickIf(queue # <<>>)
  /\ UNCHANGED <<queue, depth, nr_size, armed, plugged, stale, elv, deviceVars>>

CancelIgnoresCallback == armed' = FALSE
CancelWaits == ~firing /\ armed' = FALSE

\* BUG_ON(!list_empty(&nd->queue)); hrtimer_cancel waits for the callback,
\* cancel_work_sync for the work item; kfree(nd).
noop_exit_queue ==
  /\ elv = "detached"
  /\ \/ queue # <<>> /\ elv' = "oops" /\ UNCHANGED <<armed, unplug_work>>
     \/ /\ queue = <<>> /\ elv' = "freed"
        /\ CancelWaits /\ unplug_work' = FALSE
  /\ UNCHANGED <<queue, depth, nr_size, firing, plugged, stale, deviceVars>>

noop_init_queue ==
  /\ elv = "freed" /\ elv' = "attached"
  /\ queue' = <<>> /\ depth' = 0 /\ nr_size' = 0
  /\ armed' = FALSE /\ firing' = FALSE
  /\ UNCHANGED <<plugged, stale, unplug_work, deviceVars>>

-----------------------------------------------------------------------------
RequestFn(c) ==
  \/ Peek(c)
  \/ elv = "bypass" /\ OnlyDevice(DeviceBypassed(c))
  \/ OnlyDevice(DeviceBusy(c) \/ DeviceStart(c))
Issued(c) == OnlyDevice(DeviceIssued(c))
Unasked(c) ==
  \/ OnlyDevice(DeviceRequeue(c))
  \/ elv \in {"attached", "bypass"} /\ OnlyDevice(RunQueue(c))
Flush(c, r) ==
  \/ noop_add_request(c, r)
  \/ Merged(InsertMerge(c, r, plugged, Linked))
  \/ \E v \in Requests : Merged(MergeLinked(c, r, v, plugged, Linked))
Switch ==
  \/ Unchanging(BypassStart) \/ noop_exit_queue \/ noop_init_queue
  \/ \E c \in Ctx : Unchanging(DrainStart(c))

Next ==
  /\ elv # "oops"
  /\ \/ \E r \in Requests :
          Unchanging(GetRequest(r, Linked)) \/ noop_completed(r)
     \/ \E c \in Ctx, r \in Requests : Flush(c, r)
     \/ \E c \in Ctx : RequestFn(c) \/ Issued(c) \/ Unasked(c) \/ Drain(c)
     \/ Unchanging(kick_queue) \/ Unchanging(KickSuccessor)
     \/ TimerExpires \/ noop_idle_slice_timer
     \/ Switch

Spec == Init /\ [][Next]_vars

-----------------------------------------------------------------------------
(* Properties.                                                             *)

\* depth is what the device holds, nr_size at least what is outstanding:
\* an undercount of either loses the kick the waiting requests need.
CountsSuffice ==
  /\ depth = Held /\ depth <= REQUEST_DEPTH + 1
  /\ nr_size >= Len(queue) + Held

\* No lost kick, for every limit, even 0: a dispatch refused at the limit
\* does not kick, but each completion while more is outstanding does.
NoStranded ==
  queue # <<>> \/ queue_head # <<>> =>
    \/ \E c \in Ctx : pc[c] # "idle"
    \/ unplug_work \/ inflight # {} \/ elv = "bypass"
    \/ elv = "oops"

\* Timer and work item do not outlive noop_data: hrtimer_cancel before
\* cancel_work_sync, since the timer's callback queues the work.
WorkStopsAtFree ==
  elv = "freed" => ~unplug_work /\ ~armed /\ ~firing /\ pc[Kblockd] = "idle"

\* Every inserted request is eventually finished, without the timer.
EverythingServed ==
  \A r \in Requests :
    r \in Linked \cup Range(queue_head) ~>
      r \notin OutstandingWith(Linked) \/ elv = "oops"
=============================================================================
