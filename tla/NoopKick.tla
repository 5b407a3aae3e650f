------------------------------ MODULE NoopKick ------------------------------
(***************************************************************************)
(* launch.c, the elevator the Makefile builds: a FIFO that restarts the    *)
(* device queue itself.  noop_add_request runs the queue before returning; *)
(* noop_dispatch and noop_completed queue a work item (unplug_work) on the *)
(* kblockd thread whenever sfqr_size says that requests are outstanding.   *)
(* BlockDevice is the request_fn and the device it runs under.             *)
(***************************************************************************)
EXTENDS BlockDevice

CONSTANT MaxLeak    \* bound on requests removed by merges but still counted

ASSUME MaxLeakAssumption == MaxLeak \in Nat

VARIABLES
  plugged,      \* allocated with elevator data, not yet inserted (task plugs)
  queue,        \* nd->queue
  sfqr_size,    \* nd->sfqr_size
  unplug_work,  \* nd->unplug_work is queued on kblockd
  elv           \* "attached", "bypass", "detached", "freed" or "oops"

vars == <<plugged, queue, sfqr_size, unplug_work, elv, deviceVars>>

Outstanding == plugged \cup Range(queue) \cup Range(queue_head) \cup inflight

\* Requests that nd->sfqr_size ought to count: added and not yet completed.
Counted == Len(queue) + Held

TypeOK ==
  /\ plugged \subseteq Requests
  /\ queue \in Seq(Requests)
  /\ DeviceTypeOK
  /\ sfqr_size \in Nat
  /\ unplug_work \in BOOLEAN
  /\ pc \in [Ctx -> {"idle", "run", "issue", "drain"}]
  /\ elv \in {"attached", "bypass", "detached", "freed", "oops"}

-----------------------------------------------------------------------------
(* noop_init_queue: a fresh noop_data.                                     *)
Init ==
  /\ plugged = {} /\ queue = <<>>
  /\ DeviceInit
  /\ sfqr_size = 0
  /\ unplug_work = FALSE
  /\ pc = [c \in Ctx |-> "idle"]
  /\ elv = "attached"

-----------------------------------------------------------------------------
(* Submission.                                                             *)

\* The block layer allocates a request with elevator data; a queue in bypass
\* gets requests without, which no elevator sees.
GetRequest(r) ==
  /\ LockFree /\ elv = "attached"
  /\ r \notin Outstanding
  /\ plugged' = plugged \cup {r}
  /\ UNCHANGED <<queue, sfqr_size, unplug_work, elv, deviceVars>>

\* sfqr_size++ and list_add_tail.
CountAddedForgotten == UNCHANGED sfqr_size
CountAdded == sfqr_size' = sfqr_size + 1
LinkedAtHead(r) == queue' = <<r>> \o queue
Linked(r) == queue' = Append(queue, r)

\* __elv_add_request -> noop_add_request: count, link, run the queue.
noop_add_request(c, r) ==
  /\ r \in plugged
  /\ plugged' = plugged \ {r}
  /\ CountAdded /\ Linked(r)
  /\ RunQueue(c)
  /\ UNCHANGED <<unplug_work, elv>>

\* A merge takes a request away; the counter does not hear of it.
CountMergedAway == sfqr_size' = sfqr_size - 1
CountMerged == UNCHANGED sfqr_size

\* elv_attempt_insert_merge: the request being inserted is absorbed by a
\* queued one and freed, never having been added.
InsertMerge(r) ==
  /\ LockFree /\ r \in plugged
  /\ queue # <<>>
  /\ plugged' = plugged \ {r}
  /\ CountMerged
  /\ UNCHANGED <<queue, unplug_work, elv, deviceVars>>

\* The loop goes on: the enlarged request is absorbed by a third one, and
\* noop_merged_requests unlinks it.  sfqr_size is not decremented, and no
\* completion ever will: the absorbed request is freed unstarted.
noop_merged_requests(r, i) ==
  /\ LockFree /\ r \in plugged
  /\ Len(queue) > 1
  /\ sfqr_size - Counted < MaxLeak
  /\ plugged' = plugged \ {r}
  /\ queue' = Without(queue, i)
  /\ CountMerged
  /\ UNCHANGED <<unplug_work, elv, deviceVars>>

-----------------------------------------------------------------------------
(* Dispatch.                                                               *)

Kick == unplug_work' = (unplug_work \/ sfqr_size # 0)

noop_dispatch ==
  /\ queue # <<>>
  /\ Kick /\ queue' = Tail(queue)
  /\ elv_dispatch_sort(Head(queue))

noop_dispatch_nothing ==
  /\ queue = <<>>
  /\ Kick
  /\ UNCHANGED <<queue, queue_head>>

\* request_fn finds the driver's list empty and asks the elevator, again and
\* again until it has nothing: then request_fn returns.
Peek(c) ==
  /\ pc[c] = "run" /\ queue_head = <<>> /\ elv # "bypass"
  /\ \/ noop_dispatch /\ UNCHANGED pc
     \/ noop_dispatch_nothing /\ At(c, "idle")
  /\ UNCHANGED <<plugged, sfqr_size, elv, inflight, issuing>>

OnlyDevice(step) ==
  step /\ UNCHANGED <<plugged, queue, sfqr_size, unplug_work, elv>>

-----------------------------------------------------------------------------
(* Completion and the kick.                                                *)

KickNever == UNCHANGED unplug_work
KickIfMore == unplug_work' = (unplug_work \/ sfqr_size' > 0)

\* elv_completed_request -> noop_completed.
noop_completed(r) ==
  /\ DeviceComplete(r)
  /\ sfqr_size' = sfqr_size - 1
  /\ KickIfMore
  /\ UNCHANGED <<plugged, queue, elv>>

\* sfq_kick_queue on the kblockd thread; the work item may be queued again
\* while it runs.
sfq_kick_queue ==
  /\ unplug_work /\ elv \in {"attached", "bypass"}
  /\ unplug_work' = FALSE
  /\ RunQueue(Kblockd)
  /\ UNCHANGED <<plugged, queue, sfqr_size, elv>>

\* The same work item once q->elevator is another elevator: that one is run.
KickSuccessor ==
  /\ unplug_work /\ elv = "detached"
  /\ unplug_work' = FALSE
  /\ UNCHANGED <<plugged, queue, sfqr_size, elv, deviceVars>>

\* The same work item after kfree(nd): container_of(work) is freed memory.
KickAfterFree ==
  /\ unplug_work /\ elv = "freed"
  /\ elv' = "oops"
  /\ UNCHANGED <<plugged, queue, sfqr_size, unplug_work, deviceVars>>

-----------------------------------------------------------------------------
(* elevator_switch away from this elevator.                                *)

BypassStart ==
  /\ LockFree /\ elv = "attached"
  /\ elv' = "bypass"
  /\ UNCHANGED <<plugged, queue, sfqr_size, unplug_work, deviceVars>>

\* One turn of the drain loop: elv_drain_elevator calls noop_dispatch until
\* it returns 0, and a nonempty driver's list is run.
DrainStart(c) ==
  /\ LockFree /\ pc[c] = "idle" /\ elv = "bypass"
  /\ At(c, "drain")
  /\ UNCHANGED <<plugged, queue, sfqr_size, unplug_work, elv, queue_head,
                 inflight, issuing>>

QuiescentButPlugged(c) ==
  /\ Outstanding \ plugged = {}
  /\ \A d \in Ctx \ {c} : pc[d] = "idle"

\* Nobody is inside request_fn and no request with elevator data is left.
Quiescent(c) ==
  /\ Outstanding = {}
  /\ \A d \in Ctx \ {c} : pc[d] = "idle"

Drain(c) ==
  /\ pc[c] = "drain"
  /\ \/ noop_dispatch /\ UNCHANGED <<pc, elv>>
     \/ /\ noop_dispatch_nothing
        /\ At(c, IF queue_head = <<>> THEN "idle" ELSE "run")
        /\ elv' = IF Quiescent(c) THEN "detached" ELSE elv
  /\ UNCHANGED <<plugged, sfqr_size, inflight, issuing>>

\* elevator_exit -> noop_exit_queue, after q->elevator is the new elevator.
\* BUG_ON(!list_empty(&nd->queue)), then kfree(nd).
noop_exit_queue ==
  /\ elv = "detached"
  /\ elv' = IF queue # <<>> THEN "oops" ELSE "freed"
  /\ UNCHANGED <<plugged, queue, sfqr_size, unplug_work, deviceVars>>

\* A later switch back allocates another noop_data, with a work item that is
\* not queued.  The freed one may still be: when it runs it is KickAfterFree,
\* which is shown as if it ran before this step.
noop_init_queue ==
  /\ elv = "freed"
  /\ sfqr_size' = 0
  /\ queue' = <<>>
  /\ unplug_work' = FALSE
  /\ elv' = "attached"
  /\ UNCHANGED <<plugged, deviceVars>>

-----------------------------------------------------------------------------
RequestFn(c) ==
  \/ Peek(c)
  \/ elv = "bypass" /\ OnlyDevice(DeviceBypassed(c))
  \/ OnlyDevice(DeviceBusy(c) \/ DeviceStart(c))
Issued(c) == OnlyDevice(DeviceIssued(c))
Unasked(c) ==
  \/ OnlyDevice(DeviceRequeue(c))
  \/ elv \in {"attached", "bypass"} /\ OnlyDevice(RunQueue(c))

Submit(r) ==
  \/ GetRequest(r)
  \/ InsertMerge(r)
  \/ \E c \in Ctx \ {Kblockd} : noop_add_request(c, r)
  \/ \E i \in DOMAIN queue : noop_merged_requests(r, i)
Kicked == sfq_kick_queue \/ KickSuccessor \/ KickAfterFree
Switch ==
  \/ BypassStart \/ noop_exit_queue \/ noop_init_queue
  \/ \E c \in Ctx \ {Kblockd} : DrainStart(c)

Next ==
  \/ \E r \in Requests : Submit(r) \/ noop_completed(r)
  \/ \E c \in Ctx : RequestFn(c) \/ Issued(c) \/ Unasked(c) \/ Drain(c)
  \/ Kicked
  \/ Switch

(* A context that holds the lock goes on; the queue_lock is a fair (queued) *)
(* spinlock, so whoever spins on it gets it: strong fairness for the steps  *)
(* that take it.  kblockd executes what was queued, and the device          *)
(* completes what it accepted.  A switch once begun goes on draining.       *)
(* Nobody has to submit, switch or run the queue unasked.                   *)
Fairness ==
  /\ \A c \in Ctx :
       WF_vars(RequestFn(c)) /\ WF_vars(Drain(c)) /\ SF_vars(Issued(c))
  /\ SF_vars(sfq_kick_queue)
  /\ SF_vars(\E c \in Ctx \ {Kblockd} : DrainStart(c))
  /\ \A r \in Requests : SF_vars(noop_completed(r))

SafeSpec == Init /\ [][Next]_vars
Spec == SafeSpec /\ Fairness

-----------------------------------------------------------------------------
(* Properties.                                                             *)

\* No lost kick.  A request that waits in either list always has somebody
\* who will look at it: a context inside request_fn, a queued unplug_work, a
\* request in flight, whose completion queues one, or a switch's drain.  The
\* author's comment on the kick in noop_completed is "invoke the dispatch
\* again"; the arrangement fails if any path leaves with the lists nonempty.
NoStranded ==
  queue # <<>> \/ queue_head # <<>> =>
    \/ \E c \in Ctx : pc[c] # "idle"
    \/ unplug_work
    \/ inflight # {} \/ elv = "bypass"

\* sfqr_size never undercounts: an undercount would make noop_completed skip
\* the kick that the last waiting requests need.  (It overcounts: merges.)
NeverUndercounts == sfqr_size >= Counted

\* BUG_ON(!list_empty(&nd->queue)) in noop_exit_queue cannot fire: the drain
\* of elevator_switch leaves nothing in the elevator, whatever the contexts
\* and completions do meanwhile.
ExitFindsQueueEmpty == elv = "detached" => Outstanding = {}

\* Every request inserted is eventually finished or merged away.
EverythingServed ==
  \A r \in Requests :
    r \in Range(queue) \cup Range(queue_head) ~> r \notin Outstanding

\* launch.c is a FIFO server (FifoServer) of the driver's list followed by
\* its own.  The drain's sort is the only thing that reorders.
Server == INSTANCE FifoServer
            WITH line <- queue_head \o queue, device <- inflight,
                 draining <- elv = "bypass"
ServesInOrder == Server!Spec

=============================================================================
